----------------------- MODULE RelationCardinalityProofs -----------------------
(***************************************************************************)
(* The cardinality of a relation holds in the committed database but for   *)
(* entities whose relations two transactions changed at once: the hooks    *)
(* see what a transaction loses, and the check before COMMIT stays true    *)
(* until COMMIT.                                                           *)
(***************************************************************************)
EXTENDS RelationCardinality, SequenceLemmas

(* Types.  A recalled position is at most one past the end of the list, so *)
(* that none is out of it once the next pair is counted in.                *)
BatchRecord == [todo : Seq(Pair), kept : Seq(Pair),
                subjects : [Subject -> Nat], objects : [Object -> Nat]]

InList(b) ==
    /\ \A s \in Subject : b.subjects[s] <= Len(b.kept) + 1
    /\ \A o \in Object : b.objects[o] <= Len(b.kept) + 1

CardTypes ==
    /\ cards \in Cards
    /\ entities \subseteq Entity /\ related \subseteq Pair
    /\ created \in [Cnx -> SUBSET Entity] /\ deleted \in [Cnx -> SUBSET Entity]
    /\ added \in [Cnx -> SUBSET Pair] /\ removed \in [Cnx -> SUBSET Pair]
    /\ checks \in [Cnx -> SUBSET Ends]
    /\ batch \in [Cnx -> BatchRecord]
    /\ stage \in [Cnx -> {"open", "adding", "checked"}]
    /\ \A c \in Cnx : InList(batch[c])

\* What a transaction has its own copy of is left alone by the others.
Same(c) ==
    /\ created'[c] = created[c] /\ deleted'[c] = deleted[c]
    /\ added'[c] = added[c] /\ removed'[c] = removed[c]
    /\ checks'[c] = checks[c] /\ batch'[c] = batch[c] /\ stage'[c] = stage[c]

--------------------------------------------------------------------------------
(* Steps.                                                                  *)

LEMMA NoBatchTyped ==
  /\ NoBatch \in BatchRecord /\ InList(NoBatch)
  /\ NoBatch.todo = <<>> /\ NoBatch.kept = <<>>
<1>1. <<>> \in Seq(Pair) /\ Len(<<>>) = 0
  BY EmptySeq
<1> QED
  BY <1>1 DEF NoBatch, Batch, BatchRecord, InList

LEMMA InitCardTypes == Init => CardTypes
  BY NoBatchTyped DEF Init, CardTypes

\* Lists of pairs to add are sequences without repetition, of at most MaxBatch pairs.
LEMMA BatchesTyped ==
  ASSUME NEW pairs \in Batches
  PROVE  /\ pairs \in Seq(Pair) /\ Len(pairs) \in 1..MaxBatch /\ Injective(pairs)
         /\ Batch(pairs) \in BatchRecord /\ InList(Batch(pairs))
         /\ Batch(pairs).todo = pairs /\ Batch(pairs).kept = <<>>
<1>1. PICK n \in 1..MaxBatch : pairs \in [1..n -> Pair] /\ IsInjective(pairs)
  BY DEF Batches
<1>2. n \in Nat
  BY <1>1, BoundsAssumption
<1>3. pairs \in Seq(Pair) /\ Len(pairs) = n
  BY <1>1, <1>2
<1>4. Injective(pairs)
  BY <1>1 DEF IsInjective, Injective
<1>5. <<>> \in Seq(Pair) /\ Len(<<>>) = 0
  BY EmptySeq
<1> QED
  BY <1>1, <1>3, <1>4, <1>5 DEF Batch, BatchRecord, InList

\* The other transactions, and what a connection that does not commit leaves alone.
LEMMA OthersSame ==
  ASSUME CardTypes, NEW c \in Cnx, Step(c), NEW d \in Cnx, d # c
  PROVE  Same(d)
<1> USE DEF CardTypes, Same
<1>1. ASSUME NEW e \in Entity, CreateEntity(c, e) PROVE Same(d)
  BY <1>1 DEF CreateEntity
<1>2. ASSUME NEW e \in Entity, DeleteEntity(c, e) PROVE Same(d)
  BY <1>2 DEF DeleteEntity, Write
<1>3. ASSUME NEW p \in Pair, DeleteRelation(c, p) PROVE Same(d)
  BY <1>3 DEF DeleteRelation, Write
<1>4. ASSUME NEW pairs \in Batches, BeginAdd(c, pairs) PROVE Same(d)
  BY <1>4 DEF BeginAdd
<1>5. CASE AddAgain(c)
  BY <1>5 DEF AddAgain, Drop, Write
<1>6. CASE AddPair(c)
  BY <1>6 DEF AddPair, Drop, Write
<1>7. CASE InsertPairs(c)
  BY <1>7 DEF InsertPairs, Write
<1>8. CASE CheckRequired(c)
  BY <1>8 DEF CheckRequired
<1>9. CASE DbCommit(c) \/ Rollback(c)
  BY <1>9 DEF DbCommit, Rollback, Over
<1> QED
  BY <1>1, <1>2, <1>3, <1>4, <1>5, <1>6, <1>7, <1>8, <1>9 DEF Step

LEMMA WriteEffect ==
  ASSUME CardTypes, NEW c \in Cnx, NEW gone \in SUBSET Pair, NEW new \in SUBSET Pair,
         Write(c, gone, new), related' = related
  PROVE  /\ added' \in [Cnx -> SUBSET Pair] /\ removed' \in [Cnx -> SUBSET Pair]
         /\ added'[c] = (added[c] \ gone) \cup new
         /\ removed'[c] = removed[c] \cup (gone \cap related)
         /\ Visible(c)' = (Visible(c) \ gone) \cup new
         /\ Contest(c, gone \cup new)
<1>1. /\ added' \in [Cnx -> SUBSET Pair] /\ removed' \in [Cnx -> SUBSET Pair]
      /\ added'[c] = (added[c] \ gone) \cup new
      /\ removed'[c] = removed[c] \cup (gone \cap related)
  BY DEF CardTypes, Write
<1>2. Visible(c)' = (Visible(c) \ gone) \cup new
  BY <1>1 DEF Visible
<1> QED
  BY <1>1, <1>2 DEF Write

LEMMA VisibleTyped == CardTypes => \A c \in Cnx : Visible(c) \subseteq Pair
  BY DEF CardTypes, Visible

LEMMA BrokenTyped == \A pairs, dying : Broken(pairs, dying) \subseteq Ends
  BY DEF Broken

LEMMA PairEnds == \A p \in Pair : p = <<p[1], p[2]>> /\ p[1] \in Subject /\ p[2] \in Object
  BY DEF Pair

(* The next pair of a batch goes to the end of the list, where one may     *)
(* have to leave.                                                          *)
LEMMA NextPair ==
  ASSUME NEW b \in BatchRecord, b.todo # <<>>, NEW p, p = Head(b.todo)
  PROVE  /\ p \in Pair /\ p \in ToSet(b.todo)
         /\ Tail(b.todo) \in Seq(Pair) /\ ToSet(Tail(b.todo)) \subseteq ToSet(b.todo)
         /\ Append(b.kept, p) \in Seq(Pair) /\ Len(Append(b.kept, p)) = Len(b.kept) + 1
         /\ Len(b.kept) \in Nat
         /\ ToSet(Append(b.kept, p)) = ToSet(b.kept) \cup {p}
         /\ \A i \in 1..(Len(b.kept) + 1) :
               /\ RemoveAt(Append(b.kept, p), i) \in Seq(Pair)
               /\ Len(RemoveAt(Append(b.kept, p), i)) = Len(b.kept)
               /\ ToSet(RemoveAt(Append(b.kept, p), i)) \subseteq ToSet(b.kept) \cup {p}
<1>1. b.todo \in Seq(Pair) /\ b.kept \in Seq(Pair)
  BY DEF BatchRecord
<1>2. /\ p \in Pair /\ p \in ToSet(b.todo)
      /\ Tail(b.todo) \in Seq(Pair) /\ ToSet(Tail(b.todo)) \subseteq ToSet(b.todo)
  BY <1>1, PopProperties
<1>3. /\ Append(b.kept, p) \in Seq(Pair) /\ ToSet(Append(b.kept, p)) = ToSet(b.kept) \cup {p}
  BY <1>1, <1>2, AppendNew
<1>4. Len(b.kept) \in Nat /\ Len(Append(b.kept, p)) = Len(b.kept) + 1
  BY <1>1, <1>2
<1>5. ASSUME NEW i \in 1..(Len(b.kept) + 1)
      PROVE  /\ RemoveAt(Append(b.kept, p), i) \in Seq(Pair)
             /\ Len(RemoveAt(Append(b.kept, p), i)) = Len(b.kept)
             /\ ToSet(RemoveAt(Append(b.kept, p), i)) \subseteq ToSet(b.kept) \cup {p}
  <2> DEFINE s == Append(b.kept, p)
             r == RemoveAt(s, i)
  <2>1. s \in Seq(Pair) /\ Len(s) = Len(b.kept) + 1 /\ i \in 1..Len(s)
    BY <1>3, <1>4, <1>5
  <2> HIDE DEF s
  <2>2. /\ r \in Seq(Pair) /\ Len(r) = Len(s) - 1
        /\ \A j \in 1..(Len(s) - 1) : r[j] = IF j < i THEN s[j] ELSE s[j + 1]
    BY <2>1, RemoveAtProperties
  <2> HIDE DEF r
  <2>3. Len(s) \in Nat
    BY <2>1
  <2>4. ToSet(r) \subseteq ToSet(s)
    <3> SUFFICES ASSUME NEW x \in ToSet(r) PROVE x \in ToSet(s)
      OBVIOUS
    <3>1. PICK j \in 1..Len(r) : r[j] = x
      BY <2>2, ToSetProperties
    <3>2. s[j] = x \/ s[j + 1] = x
      BY <3>1, <2>2
    <3>3. j \in 1..Len(s) /\ j + 1 \in 1..Len(s)
      BY <3>1, <2>2, <2>3
    <3>4. \E k \in 1..Len(s) : s[k] = x
      BY <3>2, <3>3
    <3> QED
      BY <3>4, <2>1, ToSetProperties
  <2>5. r \in Seq(Pair) /\ Len(r) = Len(b.kept) /\ ToSet(r) \subseteq ToSet(b.kept) \cup {p}
    BY <2>1, <2>2, <2>4, <1>3, <1>4 DEF s
  <2> QED
    BY <2>5 DEF r, s
<1> QED
  BY <1>2, <1>3, <1>4, <1>5

LEMMA PositionTyped ==
  ASSUME NEW S, NEW known \in [S -> Nat], NEW card, NEW key \in S, NEW i \in Nat
  PROVE  /\ Position(card, known, key, i) \in [S -> Nat]
         /\ \A x \in S : Position(card, known, key, i)[x] \in {known[x], i}
  BY DEF Position

LEMMA AgainFields ==
  ASSUME CardTypes, NEW c \in Cnx, AddAgain(c), NEW b, b = batch[c], NEW p, p = Head(b.todo)
  PROVE  /\ b.subjects[p[1]] # 0 /\ batch' = [batch EXCEPT ![c] = batch'[c]]
         /\ batch'[c] = [todo |-> Tail(b.todo),
                         kept |-> RemoveAt(Append(b.kept, p), b.subjects[p[1]]),
                         subjects |-> Position(SubjectCard, b.subjects, p[1], Len(b.kept)),
                         objects |-> b.objects]
<1>1. PICK t, k : t = Position(SubjectCard, b.subjects, p[1], Len(b.kept))
                  /\ k = RemoveAt(Append(b.kept, p), b.subjects[p[1]])
  OBVIOUS
<1>2. /\ b.subjects[p[1]] # 0
      /\ batch' = [batch EXCEPT ![c].todo = Tail(@), ![c].kept = k, ![c].subjects = t]
  BY <1>1 DEF AddAgain
<1>3. batch \in [Cnx -> BatchRecord]
  BY DEF CardTypes
<1>4. /\ batch' = [batch EXCEPT ![c] = batch'[c]]
      /\ batch'[c] = [todo |-> Tail(b.todo), kept |-> k, subjects |-> t, objects |-> b.objects]
  BY <1>2, <1>3 DEF BatchRecord
<1> QED
  BY <1>1, <1>2, <1>4

LEMMA PairFields ==
  ASSUME CardTypes, NEW c \in Cnx, AddPair(c), NEW b, b = batch[c], NEW p, p = Head(b.todo)
  PROVE  /\ b.subjects[p[1]] = 0 /\ batch' = [batch EXCEPT ![c] = batch'[c]]
         /\ batch'[c] = [todo |-> Tail(b.todo),
                         kept |-> IF b.objects[p[2]] = 0 THEN Append(b.kept, p)
                                  ELSE RemoveAt(Append(b.kept, p), b.objects[p[2]]),
                         subjects |-> Position(SubjectCard, b.subjects, p[1], Len(b.kept) + 1),
                         objects |-> Position(ObjectCard, b.objects, p[2],
                                       IF b.objects[p[2]] = 0 THEN (Len(b.kept) + 1) + 1
                                       ELSE Len(b.kept) + 1)]
<1>1. PICK j, n : j = b.objects[p[2]] /\ n = Len(b.kept) + 1
  OBVIOUS
<1>2. PICK t, u, k : /\ t = Position(SubjectCard, b.subjects, p[1], n)
                     /\ u = Position(ObjectCard, b.objects, p[2], IF j = 0 THEN n + 1 ELSE n)
                     /\ k = IF j = 0 THEN Append(b.kept, p) ELSE RemoveAt(Append(b.kept, p), j)
  OBVIOUS
<1>3. /\ b.subjects[p[1]] = 0
      /\ batch' = [batch EXCEPT ![c].todo = Tail(@), ![c].kept = k, ![c].subjects = t,
                                ![c].objects = u]
  BY <1>1, <1>2 DEF AddPair
<1>4. batch \in [Cnx -> BatchRecord]
  BY DEF CardTypes
<1>5. /\ batch' = [batch EXCEPT ![c] = batch'[c]]
      /\ batch'[c] = [todo |-> Tail(b.todo), kept |-> k, subjects |-> t, objects |-> u]
  BY <1>3, <1>4 DEF BatchRecord
<1> QED
  BY <1>1, <1>2, <1>3, <1>5

LEMMA AddBatch ==
  ASSUME CardTypes, NEW c \in Cnx, AddAgain(c) \/ AddPair(c), NEW p, p = Head(batch[c].todo)
  PROVE  /\ batch' \in [Cnx -> BatchRecord] /\ InList(batch'[c])
         /\ ToSet(batch'[c].todo) \subseteq ToSet(batch[c].todo)
         /\ ToSet(batch'[c].kept) \subseteq ToSet(batch[c].kept) \cup {p}
         /\ p \in ToSet(batch[c].todo) /\ p \in Pair
<1>0. PICK b, n, i, j : b = batch[c] /\ n = Len(b.kept) + 1
                       /\ i = b.subjects[p[1]] /\ j = b.objects[p[2]]
  OBVIOUS
<1>1. b \in BatchRecord /\ InList(b) /\ b.todo # <<>> /\ p = Head(b.todo)
      /\ batch \in [Cnx -> BatchRecord]
  BY <1>0 DEF CardTypes, AddAgain, AddPair, Drop
<1>2. /\ p \in Pair /\ p \in ToSet(b.todo)
      /\ Tail(b.todo) \in Seq(Pair) /\ ToSet(Tail(b.todo)) \subseteq ToSet(b.todo)
      /\ Append(b.kept, p) \in Seq(Pair) /\ Len(Append(b.kept, p)) = n
      /\ Len(b.kept) \in Nat /\ Len(b.kept) = n - 1
      /\ ToSet(Append(b.kept, p)) = ToSet(b.kept) \cup {p}
  <2>1. /\ p \in Pair /\ p \in ToSet(b.todo)
        /\ Tail(b.todo) \in Seq(Pair) /\ ToSet(Tail(b.todo)) \subseteq ToSet(b.todo)
        /\ Append(b.kept, p) \in Seq(Pair) /\ Len(Append(b.kept, p)) = Len(b.kept) + 1
        /\ Len(b.kept) \in Nat
        /\ ToSet(Append(b.kept, p)) = ToSet(b.kept) \cup {p}
    BY <1>1, NextPair
  <2> QED
    BY <2>1, <1>0
<1>3. \A k \in 1..n :
               /\ RemoveAt(Append(b.kept, p), k) \in Seq(Pair)
               /\ Len(RemoveAt(Append(b.kept, p), k)) = Len(b.kept)
               /\ ToSet(RemoveAt(Append(b.kept, p), k)) \subseteq ToSet(b.kept) \cup {p}
  BY <1>0, <1>1, NextPair
<1>4. /\ p[1] \in Subject /\ p[2] \in Object
      /\ b.subjects \in [Subject -> Nat] /\ b.objects \in [Object -> Nat]
      /\ i \in 0..n /\ j \in 0..n /\ n \in Nat
      /\ \A s \in Subject : b.subjects[s] <= n
      /\ \A o \in Object : b.objects[o] <= n
  <2>1. p[1] \in Subject /\ p[2] \in Object
    BY <1>2, PairEnds
  <2>2. b.subjects \in [Subject -> Nat] /\ b.objects \in [Object -> Nat] /\ n \in Nat
    BY <1>0, <1>1, <1>2 DEF BatchRecord
  <2>3. /\ \A s \in Subject : b.subjects[s] <= n
        /\ \A o \in Object : b.objects[o] <= n
    BY <1>0, <1>1 DEF InList
  <2>4. i \in Nat /\ i <= n
    BY <1>0, <2>1, <2>2, <2>3
  <2>5. j \in Nat /\ j <= n
    BY <1>0, <2>1, <2>2, <2>3
  <2> QED
    BY <2>1, <2>2, <2>3, <2>4, <2>5
<1>5. CASE AddAgain(c)
  <2>1. PICK t, k : t = Position(SubjectCard, b.subjects, p[1], Len(b.kept))
                    /\ k = RemoveAt(Append(b.kept, p), i)
    OBVIOUS
  <2>0. /\ b.subjects[p[1]] # 0 /\ batch' = [batch EXCEPT ![c] = batch'[c]]
        /\ batch'[c] = [todo |-> Tail(b.todo),
                        kept |-> RemoveAt(Append(b.kept, p), b.subjects[p[1]]),
                        subjects |-> Position(SubjectCard, b.subjects, p[1], Len(b.kept)),
                        objects |-> b.objects]
    BY <1>5, <1>0, <1>1, AgainFields
  <2>2. i # 0
    BY <1>0, <2>0
  <2>3. t \in [Subject -> Nat] /\ \A s \in Subject : t[s] <= n
    <3>1. t \in [Subject -> Nat] /\ \A s \in Subject : t[s] \in {b.subjects[s], Len(b.kept)}
      BY <1>2, <1>4, <2>1, PositionTyped
    <3>2. ASSUME NEW s \in Subject PROVE t[s] <= n
      <4>1. b.subjects[s] <= n /\ t[s] \in {b.subjects[s], Len(b.kept)}
        BY <3>1, <1>4
      <4>2. Len(b.kept) <= n
        BY <1>2, <1>4
      <4> QED
        BY <4>1, <4>2
    <3> QED
      BY <3>1, <3>2
  <2>4. i \in 1..n
    BY <2>2, <1>4
  <2>5. k \in Seq(Pair) /\ Len(k) = n - 1 /\ ToSet(k) \subseteq ToSet(b.kept) \cup {p}
    BY <2>1, <2>4, <1>2, <1>3
  <2>6. batch'[c] = [todo |-> Tail(b.todo), kept |-> k, subjects |-> t, objects |-> b.objects]
        /\ batch' = [batch EXCEPT ![c] = batch'[c]]
    BY <1>0, <2>0, <2>1
  <2>7. batch'[c] \in BatchRecord
    BY <2>6, <2>3, <2>5, <1>2, <1>4 DEF BatchRecord
  <2>8. batch' \in [Cnx -> BatchRecord]
    BY <2>6, <2>7, <1>1
  <2>9. InList(batch'[c])
    BY <2>6, <2>3, <2>5, <1>4 DEF InList
  <2> QED
    BY <2>6, <2>8, <2>9, <2>5, <1>0, <1>2
<1>6. CASE AddPair(c)
  <2>1. PICK t, u, k : /\ t = Position(SubjectCard, b.subjects, p[1], n)
                       /\ u = Position(ObjectCard, b.objects, p[2], IF j = 0 THEN n + 1 ELSE n)
                       /\ k = IF j = 0 THEN Append(b.kept, p) ELSE RemoveAt(Append(b.kept, p), j)
    OBVIOUS
  <2>3. k \in Seq(Pair) /\ Len(k) = (IF j = 0 THEN n ELSE n - 1)
        /\ ToSet(k) \subseteq ToSet(b.kept) \cup {p}
    <3>1. CASE j = 0
      BY <3>1, <2>1, <1>2
    <3>2. CASE j # 0
      <4>1. j \in 1..n
        BY <3>2, <1>4
      <4> QED
        BY <3>2, <4>1, <2>1, <1>2, <1>3
    <3> QED
      BY <3>1, <3>2
  <2>4. t \in [Subject -> Nat] /\ \A s \in Subject : t[s] <= Len(k) + 1
    <3>1. t \in [Subject -> Nat] /\ \A s \in Subject : t[s] \in {b.subjects[s], n}
      BY <1>4, <2>1, PositionTyped
    <3> QED
      BY <3>1, <2>3, <1>4
  <2>5. u \in [Object -> Nat] /\ \A o \in Object : u[o] <= Len(k) + 1
    <3>1. PICK m \in Nat : m = IF j = 0 THEN n + 1 ELSE n
      BY <1>4
    <3>2. u \in [Object -> Nat] /\ \A o \in Object : u[o] \in {b.objects[o], m}
      BY <3>1, <1>4, <2>1, PositionTyped
    <3>3. ASSUME NEW o \in Object PROVE u[o] <= Len(k) + 1
      <4>1. b.objects[o] \in Nat /\ b.objects[o] <= n /\ u[o] \in {b.objects[o], m}
        BY <3>2, <1>4
      <4> QED
        BY <4>1, <3>1, <2>3, <1>4
    <3> QED
      BY <3>2, <3>3
  <2>6. batch'[c] = [todo |-> Tail(b.todo), kept |-> k, subjects |-> t, objects |-> u]
        /\ batch' = [batch EXCEPT ![c] = batch'[c]]
    <3>1. /\ batch' = [batch EXCEPT ![c] = batch'[c]]
          /\ batch'[c] = [todo |-> Tail(b.todo),
                          kept |-> IF b.objects[p[2]] = 0 THEN Append(b.kept, p)
                                   ELSE RemoveAt(Append(b.kept, p), b.objects[p[2]]),
                          subjects |-> Position(SubjectCard, b.subjects, p[1], Len(b.kept) + 1),
                          objects |-> Position(ObjectCard, b.objects, p[2],
                                        IF b.objects[p[2]] = 0 THEN (Len(b.kept) + 1) + 1
                                        ELSE Len(b.kept) + 1)]
      BY <1>6, <1>0, <1>1, PairFields
    <3> QED
      BY <1>0, <2>1, <3>1
  <2>7. batch'[c] \in BatchRecord
    BY <2>6, <2>3, <2>4, <2>5, <1>2 DEF BatchRecord
  <2>8. batch' \in [Cnx -> BatchRecord]
    BY <2>6, <2>7, <1>1
  <2>9. InList(batch'[c])
    BY <2>6, <2>4, <2>5 DEF InList
  <2> QED
    BY <2>6, <2>8, <2>9, <2>3, <1>0, <1>2
<1> QED
  BY <1>5, <1>6

LEMMA TypeStep == CardTypes /\ [Next]_vars => CardTypes'
<1> SUFFICES ASSUME CardTypes, [Next]_vars PROVE CardTypes'
  OBVIOUS
<1>1. CASE UNCHANGED vars
  BY <1>1 DEF CardTypes, vars, transaction
<1>2. ASSUME NEW c \in Cnx, Step(c) PROVE CardTypes'
  <2>0. \A d \in Cnx : InList(batch[d])
    BY DEF CardTypes
  <2>1. \A d \in Cnx \ {c} : InList(batch'[d])
    BY <2>0, <1>2, OthersSame DEF Same
  <2>2. ASSUME NEW e \in Entity, CreateEntity(c, e) PROVE CardTypes'
    BY <2>2 DEF CreateEntity, CardTypes
  <2>3. ASSUME NEW e \in Entity, DeleteEntity(c, e) PROVE CardTypes'
    <3>1. PICK gone : gone = {p \in Visible(c) : e \in {p[1], p[2]}}
      OBVIOUS
    <3>2. gone \subseteq Pair
      BY <3>1, VisibleTyped
    <3>3. Write(c, gone, {}) /\ related' = related /\ entities' = entities /\ cards' = cards
          /\ created' = created /\ batch' = batch /\ stage' = stage
          /\ checks' = [checks EXCEPT ![c] = @ \cup Broken(gone, deleted[c] \cup {e})]
          /\ deleted' = [deleted EXCEPT ![c] = @ \cup {e}]
      BY <2>3, <3>1 DEF DeleteEntity
    <3>4. added' \in [Cnx -> SUBSET Pair] /\ removed' \in [Cnx -> SUBSET Pair]
      BY <3>2, <3>3, WriteEffect
    <3> QED
      BY <3>3, <3>4, BrokenTyped DEF CardTypes
  <2>4. ASSUME NEW p \in Pair, DeleteRelation(c, p) PROVE CardTypes'
    <3>1. Write(c, {p}, {}) /\ related' = related
      BY <2>4 DEF DeleteRelation
    <3>2. added' \in [Cnx -> SUBSET Pair] /\ removed' \in [Cnx -> SUBSET Pair]
      BY <3>1 DEF Write, CardTypes
    <3> QED
      BY <2>4, <3>2, BrokenTyped DEF DeleteRelation, CardTypes
  <2>5. ASSUME NEW pairs \in Batches, BeginAdd(c, pairs) PROVE CardTypes'
    <3>1. Batch(pairs) \in BatchRecord /\ InList(Batch(pairs))
      BY BatchesTyped
    <3>2. batch' = [batch EXCEPT ![c] = Batch(pairs)]
      BY <2>5 DEF BeginAdd
    <3>3. batch' \in [Cnx -> BatchRecord] /\ InList(batch'[c])
      BY <3>1, <3>2 DEF CardTypes
    <3> QED
      BY <2>5, <3>3, <2>1 DEF BeginAdd, CardTypes
  <2>6. CASE AddAgain(c) \/ AddPair(c)
    <3>1. batch' \in [Cnx -> BatchRecord] /\ InList(batch'[c])
      BY <2>6, AddBatch
    <3>2. PICK gone \in SUBSET Pair : Drop(c, gone)
      BY <2>6, VisibleTyped DEF AddAgain, AddPair, Siblings, Rivals
    <3>3. Write(c, gone, {}) /\ related' = related
      BY <3>2 DEF Drop
    <3>4. added' \in [Cnx -> SUBSET Pair] /\ removed' \in [Cnx -> SUBSET Pair]
      BY <3>3, WriteEffect
    <3>5. \A d \in Cnx : InList(batch'[d])
      BY <2>1, <3>1
    <3> QED
      BY <3>1, <3>2, <3>4, <3>5, BrokenTyped DEF Drop, CardTypes
  <2>7. CASE InsertPairs(c)
    <3>1. PICK new \in SUBSET Pair : new = ToSet(batch[c].kept)
      BY ToSetProperties DEF CardTypes, BatchRecord
    <3>2. Write(c, {}, new) /\ related' = related
          /\ batch' = [batch EXCEPT ![c] = NoBatch]
      BY <2>7, <3>1 DEF InsertPairs
    <3>3. added' \in [Cnx -> SUBSET Pair] /\ removed' \in [Cnx -> SUBSET Pair]
      BY <3>2 DEF Write, CardTypes
    <3>4. batch' \in [Cnx -> BatchRecord] /\ InList(batch'[c])
      BY <3>2, NoBatchTyped DEF CardTypes
    <3>5. \A d \in Cnx : InList(batch'[d])
      BY <2>1, <3>4
    <3> QED
      BY <2>7, <3>3, <3>4, <3>5 DEF InsertPairs, CardTypes
  <2>8. CASE CheckRequired(c)
    BY <2>8 DEF CheckRequired, CardTypes
  <2>9. CASE DbCommit(c) \/ Rollback(c)
    <3>1. batch' = [batch EXCEPT ![c] = NoBatch]
      BY <2>9 DEF DbCommit, Rollback, Over
    <3>2. batch' \in [Cnx -> BatchRecord] /\ InList(batch'[c])
      BY <3>1, NoBatchTyped DEF CardTypes
    <3>3. \A d \in Cnx : InList(batch'[d])
      BY <2>1, <3>2
    <3> QED
      BY <2>9, <3>2, <3>3 DEF DbCommit, Rollback, Over, CardTypes
  <2> QED
    BY <1>2, <2>2, <2>3, <2>4, <2>5, <2>6, <2>7, <2>8, <2>9 DEF Step
<1> QED
  BY <1>1, <1>2 DEF Next

--------------------------------------------------------------------------------
(* What may lack its relation is checked.                                  *)

At(end, p) == (IF end[1] = "subject" THEN p[1] ELSE p[2]) = end[2]

\* Inductive.
ToCheck ==
    \A c \in Cnx : \A end \in Ends :
        /\ end \in checks[c] => Required(end)
        /\ Required(end) /\ end[2] \notin deleted[c] =>
              /\ end[2] \in created[c] => end \in checks[c]
              /\ \A p \in removed[c] : At(end, p) => end \in checks[c]

LEMMA LacksAt == \A end, pairs : Lacks(end, pairs) <=> \A p \in pairs : ~At(end, p)
  BY DEF Lacks, At

LEMMA AtEnds == \A end \in Ends : \A p \in Pair : At(end, p) => end[2] \in {p[1], p[2]}
  BY DEF Ends, At

\* The pairs that go are checked where they are required.
LEMMA GoneToCheck ==
  ASSUME CardTypes, ToCheck, NEW c \in Cnx, NEW gone \in SUBSET Pair, NEW new \in SUBSET Pair,
         NEW dying, deleted[c] \subseteq dying,
         Write(c, gone, new), related' = related, cards' = cards, created' = created,
         deleted'[c] = dying,
         checks'[c] = checks[c] \cup Broken(gone, dying),
         \A d \in Cnx : d # c => Same(d)
  PROVE  ToCheck'
<1>1. removed'[c] = removed[c] \cup (gone \cap related)
  BY DEF CardTypes, Write
<1> SUFFICES ASSUME NEW d \in Cnx, NEW end \in Ends
             PROVE /\ end \in checks'[d] => Required(end)'
                   /\ Required(end)' /\ end[2] \notin deleted'[d] =>
                        /\ end[2] \in created'[d] => end \in checks'[d]
                        /\ \A p \in removed'[d] : At(end, p) => end \in checks'[d]
  BY DEF ToCheck, At
<1>2. Required(end)' = Required(end)
  BY DEF Required, SubjectCard, ObjectCard
<1>3. CASE d # c
  BY <1>2, <1>3 DEF ToCheck, Same
<1>4. CASE d = c
  <2>1. ASSUME NEW p \in gone, At(end, p), Required(end), end[2] \notin dying
        PROVE  end \in Broken(gone, dying)
    BY <2>1, LacksAt DEF Broken
  <2>2. end \in Broken(gone, dying) => Required(end)
    BY DEF Broken
  <2> QED
    BY <1>1, <1>2, <1>4, <2>1, <2>2 DEF ToCheck
<1> QED
  BY <1>3, <1>4

LEMMA CheckStep == CardTypes /\ ToCheck /\ [Next]_vars => ToCheck'
<1> SUFFICES ASSUME CardTypes, ToCheck, [Next]_vars PROVE ToCheck'
  OBVIOUS
<1>1. CASE UNCHANGED vars
  BY <1>1 DEF ToCheck, vars, transaction, Required, SubjectCard, ObjectCard, At
<1>2. ASSUME NEW c \in Cnx, Step(c) PROVE ToCheck'
  <2>0. \A d \in Cnx : d # c => Same(d)
    BY <1>2, OthersSame
  <2>1. cards' = cards
    BY <1>2 DEF Step, CreateEntity, DeleteEntity, DeleteRelation, BeginAdd, AddAgain, AddPair, Drop,
                InsertPairs, CheckRequired, DbCommit, Rollback
  <2>2. \A end : Required(end)' = Required(end)
    BY <2>1 DEF Required, SubjectCard, ObjectCard
  <2>3. ASSUME NEW e \in Entity, CreateEntity(c, e) PROVE ToCheck'
    <3>1. /\ created'[c] = created[c] \cup {e}
          /\ checks'[c] = checks[c] \cup {end \in Ends : end[2] = e /\ Required(end)}
          /\ deleted' = deleted /\ removed' = removed
      BY <2>3 DEF CreateEntity, CardTypes
    <3> QED
      BY <3>1, <2>0, <2>2 DEF ToCheck, Same, At
  <2>4. ASSUME NEW e \in Entity, DeleteEntity(c, e) PROVE ToCheck'
    <3>1. PICK gone : gone = {p \in Visible(c) : e \in {p[1], p[2]}}
      OBVIOUS
    <3>2. gone \subseteq Pair
      BY <3>1, VisibleTyped
    <3>3. Write(c, gone, {}) /\ related' = related /\ created' = created
          /\ checks'[c] = checks[c] \cup Broken(gone, deleted[c] \cup {e})
          /\ deleted'[c] = deleted[c] \cup {e}
      BY <2>4, <3>1 DEF DeleteEntity, CardTypes
    <3> QED
      BY <3>2, <3>3, <2>0, <2>1, GoneToCheck
  <2>5. ASSUME NEW p \in Pair, DeleteRelation(c, p) PROVE ToCheck'
    <3>1. Write(c, {p}, {}) /\ related' = related /\ created' = created
          /\ checks'[c] = checks[c] \cup Broken({p}, deleted[c])
          /\ deleted'[c] = deleted[c]
      BY <2>5 DEF DeleteRelation, CardTypes
    <3> QED
      BY <3>1, <2>0, <2>1, GoneToCheck
  <2>6. ASSUME NEW pairs \in Batches, BeginAdd(c, pairs) PROVE ToCheck'
    BY <2>6, <2>2 DEF BeginAdd, ToCheck, At
  <2>7. CASE AddAgain(c) \/ AddPair(c)
    <3>1. PICK gone \in SUBSET Pair : Drop(c, gone)
      BY <2>7, VisibleTyped DEF AddAgain, AddPair, Siblings, Rivals
    <3>2. Write(c, gone, {}) /\ related' = related /\ created' = created
          /\ checks'[c] = checks[c] \cup Broken(gone, deleted[c])
          /\ deleted'[c] = deleted[c]
      BY <3>1 DEF Drop, CardTypes
    <3> QED
      BY <3>2, <2>0, <2>1, GoneToCheck
  <2>8. CASE InsertPairs(c)
    <3>1. PICK new \in SUBSET Pair : new = ToSet(batch[c].kept)
      BY ToSetProperties DEF CardTypes, BatchRecord
    <3>2. Write(c, {}, new) /\ related' = related
      BY <2>8, <3>1 DEF InsertPairs
    <3>3. removed'[c] = removed[c]
      BY <3>2 DEF Write, CardTypes
    <3>4. created' = created /\ deleted' = deleted /\ checks' = checks
      BY <2>8 DEF InsertPairs
    <3> QED
      BY <3>3, <3>4, <2>0, <2>2 DEF ToCheck, Same, At
  <2>9. CASE CheckRequired(c)
    BY <2>9, <2>2 DEF CheckRequired, ToCheck, At
  <2>10. CASE DbCommit(c) \/ Rollback(c)
    <3>1. created'[c] = {} /\ removed'[c] = {} /\ checks'[c] = {}
      BY <2>10 DEF DbCommit, Rollback, Over, CardTypes
    <3> QED
      BY <3>1, <2>0, <2>2 DEF ToCheck, Same, At
  <2> QED
    BY <1>2, <2>3, <2>4, <2>5, <2>6, <2>7, <2>8, <2>9, <2>10 DEF Step
<1> QED
  BY <1>1, <1>2 DEF Next

\* The data of the operation tells the truth.
LEMMA CheckEnough == CardTypes /\ ToCheck => BrokenIsChecked
<1> SUFFICES ASSUME CardTypes, ToCheck, NEW c \in Cnx, NEW end \in Ends,
                    end[2] \in Alive(c), Required(end), Lacks(end, Visible(c)),
                    end \notin checks[c]
             PROVE  end[2] \in entities /\ Lacks(end, related)
  BY DEF BrokenIsChecked
<1>1. end[2] \in entities \cup created[c] /\ end[2] \notin deleted[c]
  BY DEF Alive
<1>2. end[2] \in entities /\ \A p \in removed[c] : ~At(end, p)
  BY <1>1 DEF ToCheck
<1>3. \A p \in related : ~At(end, p)
  BY <1>2, LacksAt DEF Visible
<1> QED
  BY <1>2, <1>3, LacksAt

--------------------------------------------------------------------------------
(* Two transactions at the same entity.                                    *)

\* Inductive.  Whatever two transactions both change, and only that, is contested.
Contests ==
    \A c, d \in Cnx : c # d =>
        \A e \in Entity : e \in Linked(Changes(c)) /\ e \in Linked(Changes(d)) => e \in contested

LEMMA LinkedOf == \A e, pairs : e \in Linked(pairs) <=> \E p \in pairs : e = p[1] \/ e = p[2]
  BY DEF Linked

LEMMA ContestGrows == \A c, pairs : Contest(c, pairs) => contested \subseteq contested'
  BY DEF Contest

\* The pairs of the step are counted in.
LEMMA NewContests ==
  ASSUME Contests, NEW c \in Cnx, NEW pairs, Contest(c, pairs),
         Changes(c)' \subseteq Changes(c) \cup pairs,
         \A d \in Cnx : d # c => Same(d)
  PROVE  Contests'
<1>1. \A d \in Cnx : d # c => Changes(d)' = Changes(d)
  BY DEF Same, Changes
<1>2. contested \subseteq contested'
  BY ContestGrows
<1>3. ASSUME NEW d \in Cnx, d # c, NEW e \in Entity,
             e \in Linked(Changes(c)'), e \in Linked(Changes(d))
      PROVE  e \in contested'
  <2>1. e \in Linked(Changes(c)) \/ e \in Linked(pairs)
    BY <1>3, LinkedOf
  <2>2. CASE e \in Linked(Changes(c))
    BY <1>2, <1>3, <2>2 DEF Contests
  <2>3. CASE e \in Linked(pairs)
    BY <1>3, <2>3 DEF Contest
  <2> QED
    BY <2>1, <2>2, <2>3
<1>4. ASSUME NEW x \in Cnx, NEW y \in Cnx, x # y, NEW e \in Entity,
             e \in Linked(Changes(x)'), e \in Linked(Changes(y)')
      PROVE  e \in contested'
  <2>1. CASE x = c
    BY <1>1, <1>3, <1>4, <2>1
  <2>2. CASE y = c
    BY <1>1, <1>3, <1>4, <2>2
  <2>3. CASE x # c /\ y # c
    BY <1>1, <1>2, <1>4, <2>3 DEF Contests
  <2> QED
    BY <2>1, <2>2, <2>3
<1>5. \A x : Linked(Changes(x))' = Linked(Changes(x)')
  BY DEF Linked
<1> QED
  BY <1>4, <1>5 DEF Contests

LEMMA FewerContests ==
  ASSUME Contests, NEW c \in Cnx, contested' = contested,
         Changes(c)' \subseteq Changes(c),
         \A d \in Cnx : d # c => Same(d)
  PROVE  Contests'
<1>1. \A d \in Cnx : d # c => Changes(d)' = Changes(d)
  BY DEF Same, Changes
<1>2. \A d \in Cnx : \A e : e \in Linked(Changes(d)') => e \in Linked(Changes(d))
  BY <1>1, LinkedOf
<1>3. \A x : Linked(Changes(x))' = Linked(Changes(x)')
  BY DEF Linked
<1> QED
  BY <1>2, <1>3 DEF Contests

LEMMA ContestStep == CardTypes /\ Contests /\ [Next]_vars => Contests'
<1> SUFFICES ASSUME CardTypes, Contests, [Next]_vars PROVE Contests'
  OBVIOUS
<1>1. CASE UNCHANGED vars
  BY <1>1 DEF Contests, vars, transaction, Changes, Linked
<1>2. ASSUME NEW c \in Cnx, Step(c) PROVE Contests'
  <2>0. \A d \in Cnx : d # c => Same(d)
    BY <1>2, OthersSame
  <2>1. ASSUME NEW gone \in SUBSET Pair, NEW new \in SUBSET Pair, Write(c, gone, new),
               Contest(c, gone \cup new),
               ToSet(batch'[c].todo) \cup ToSet(batch'[c].kept)
                  \subseteq ToSet(batch[c].todo) \cup ToSet(batch[c].kept)
        PROVE  Contests'
    <3>1. /\ added'[c] = (added[c] \ gone) \cup new
          /\ removed'[c] = removed[c] \cup (gone \cap related)
      BY <2>1 DEF Write, CardTypes
    <3>2. Changes(c)' \subseteq Changes(c) \cup (gone \cup new)
      BY <2>1, <3>1 DEF Changes
    <3> QED
      BY <2>0, <2>1, <3>2, NewContests
  <2>2. \A e \in Entity : CreateEntity(c, e) => Contests'
    BY <2>0, FewerContests DEF CreateEntity, Changes
  <2>3. ASSUME NEW e \in Entity, DeleteEntity(c, e) PROVE Contests'
    <3>1. PICK gone \in SUBSET Pair, none \in SUBSET Pair :
              gone = {p \in Visible(c) : e \in {p[1], p[2]}} /\ none = {}
      BY VisibleTyped
    <3>2. Write(c, gone, none) /\ Contest(c, gone \cup none) /\ batch' = batch
      BY <2>3, <3>1 DEF DeleteEntity, Write
    <3> QED
      BY <3>2, <2>1
  <2>4. ASSUME NEW p \in Pair, DeleteRelation(c, p) PROVE Contests'
    <3>1. PICK gone \in SUBSET Pair, none \in SUBSET Pair : gone = {p} /\ none = {}
      OBVIOUS
    <3>2. Write(c, gone, none) /\ Contest(c, gone \cup none) /\ batch' = batch
      BY <2>4, <3>1 DEF DeleteRelation, Write
    <3> QED
      BY <3>2, <2>1
  <2>5. ASSUME NEW pairs \in Batches, BeginAdd(c, pairs) PROVE Contests'
    <3>1. batch'[c] = Batch(pairs) /\ added' = added /\ removed' = removed /\ Contest(c, ToSet(pairs))
      BY <2>5 DEF BeginAdd, CardTypes
    <3>2. ToSet(batch'[c].todo) = ToSet(pairs) /\ ToSet(batch'[c].kept) = {}
      BY <3>1, BatchesTyped, EmptySequence
    <3>3. Changes(c)' \subseteq Changes(c) \cup ToSet(pairs)
      BY <3>1, <3>2 DEF Changes
    <3> QED
      BY <2>0, <3>1, <3>3, NewContests
  <2>6. CASE AddAgain(c) \/ AddPair(c)
    <3>1. PICK gone \in SUBSET Pair, none \in SUBSET Pair : Drop(c, gone) /\ none = {}
      BY <2>6, VisibleTyped DEF AddAgain, AddPair, Siblings, Rivals
    <3>2. Write(c, gone, none) /\ Contest(c, gone \cup none)
      BY <3>1 DEF Drop, Write
    <3>3. ToSet(batch'[c].todo) \cup ToSet(batch'[c].kept)
                  \subseteq ToSet(batch[c].todo) \cup ToSet(batch[c].kept)
      BY <2>6, AddBatch
    <3> QED
      BY <3>2, <3>3, <2>1
  <2>7. CASE InsertPairs(c)
    <3>1. PICK new \in SUBSET Pair, none \in SUBSET Pair : new = ToSet(batch[c].kept) /\ none = {}
      BY ToSetProperties DEF CardTypes, BatchRecord
    <3>2. Write(c, none, new) /\ Contest(c, none \cup new) /\ batch'[c] = NoBatch
      BY <2>7, <3>1 DEF InsertPairs, Write, CardTypes
    <3>3. ToSet(batch'[c].todo) = {} /\ ToSet(batch'[c].kept) = {}
      BY <3>2, NoBatchTyped, EmptySequence
    <3> QED
      BY <3>2, <3>3, <2>1
  <2>8. CASE CheckRequired(c)
    BY <2>0, <2>8, FewerContests DEF CheckRequired, Changes
  <2>9. CASE DbCommit(c) \/ Rollback(c)
    <3>1. /\ added'[c] = {} /\ removed'[c] = {} /\ batch'[c] = NoBatch
          /\ contested' = contested
      BY <2>9 DEF DbCommit, Rollback, Over, CardTypes
    <3>2. ToSet(batch'[c].todo) = {} /\ ToSet(batch'[c].kept) = {}
      BY <3>1, NoBatchTyped, EmptySequence
    <3>3. Changes(c)' \subseteq Changes(c)
      BY <3>1, <3>2 DEF Changes
    <3> QED
      BY <2>0, <3>1, <3>3, FewerContests
  <2> QED
    BY <1>2, <2>2, <2>3, <2>4, <2>5, <2>6, <2>7, <2>8, <2>9 DEF Step
<1> QED
  BY <1>1, <1>2 DEF Next

--------------------------------------------------------------------------------
(* Entities that pairs refer to.                                           *)

\* Inductive.
Births ==
    /\ \A c \in Cnx : created[c] \cap entities = {}
    /\ \A c, d \in Cnx : c # d => created[c] \cap created[d] = {}

\* Inductive.
References ==
    /\ \A p \in related : p[1] \in entities /\ p[2] \in entities
    /\ \A c \in Cnx : \A p \in Visible(c) : p[1] \in Alive(c) /\ p[2] \in Alive(c)
    /\ \A c, d \in Cnx : \A p \in added[c] : p[1] \notin deleted[d] /\ p[2] \notin deleted[d]

LEMMA BirthStep == CardTypes /\ Births /\ [Next]_vars => Births'
<1> SUFFICES ASSUME CardTypes, Births, [Next]_vars PROVE Births'
  OBVIOUS
<1>1. CASE UNCHANGED vars
  BY <1>1 DEF Births, vars, transaction
<1>2. ASSUME NEW c \in Cnx, Step(c) PROVE Births'
  <2>0. \A d \in Cnx : d # c => created'[d] = created[d]
    BY <1>2, OthersSame DEF Same
  <2>1. ASSUME NEW e \in Entity, CreateEntity(c, e) PROVE Births'
    <3>1. /\ e \notin entities /\ \A d \in Cnx : e \notin created[d]
          /\ created'[c] = created[c] \cup {e} /\ entities' = entities
      BY <2>1 DEF CreateEntity, CardTypes
    <3> QED
      BY <3>1, <2>0 DEF Births
  <2>2. ASSUME created' = created, entities' = entities PROVE Births'
    BY <2>2 DEF Births
  <2>3. CASE DbCommit(c)
    <3>1. created'[c] = {} /\ entities' \subseteq entities \cup created[c]
      BY <2>3 DEF DbCommit, Over, CardTypes
    <3> QED
      BY <3>1, <2>0 DEF Births
  <2>4. CASE Rollback(c)
    <3>1. created'[c] = {} /\ entities' = entities
      BY <2>4 DEF Rollback, Over, CardTypes
    <3> QED
      BY <3>1, <2>0 DEF Births
  <2>5. \/ \E e \in Entity : CreateEntity(c, e)
        \/ created' = created /\ entities' = entities
        \/ DbCommit(c) \/ Rollback(c)
    BY <1>2 DEF Step, DeleteEntity, DeleteRelation, BeginAdd, AddAgain, AddPair, Drop, InsertPairs,
                CheckRequired
  <2> QED
    BY <2>1, <2>2, <2>3, <2>4, <2>5
<1> QED
  BY <1>1, <1>2 DEF Next

\* What another transaction reads is not disturbed before a COMMIT.
LEMMA ReadSame ==
  ASSUME NEW d, Same(d), related' = related, entities' = entities
  PROVE  Visible(d)' = Visible(d) /\ Alive(d)' = Alive(d)
  BY DEF Same, Visible, Alive

(* A transaction writes: the entities of the new pairs are alive, those it *)
(* deletes have no pair left.                                              *)
LEMMA WriteReferences ==
  ASSUME CardTypes, References, NEW c \in Cnx, NEW gone \in SUBSET Pair, NEW new \in SUBSET Pair,
         Write(c, gone, new), related' = related, entities' = entities, created' = created,
         NEW dying, deleted'[c] = deleted[c] \cup dying,
         \A p \in Visible(c) : p[1] \in dying \/ p[2] \in dying => p \in gone,
         \A d \in Cnx : d # c => \A p \in added[d] : p[1] \notin dying /\ p[2] \notin dying,
         \A p \in new : /\ p[1] \in Alive(c) \ dying /\ p[2] \in Alive(c) \ dying
                        /\ \A d \in Cnx : p[1] \notin deleted[d] /\ p[2] \notin deleted[d],
         \A d \in Cnx : d # c => Same(d)
  PROVE  References'
<1>1. added'[c] = (added[c] \ gone) \cup new /\ Visible(c)' = (Visible(c) \ gone) \cup new
  <2>1. /\ added'[c] = (added[c] \ gone) \cup new
        /\ removed'[c] = removed[c] \cup (gone \cap related)
    BY DEF CardTypes, Write
  <2> QED
    BY <2>1 DEF Visible
<1>2. Alive(c)' = Alive(c) \ dying
  BY DEF Alive
<1>3. \A d \in Cnx : d # c => Visible(d)' = Visible(d) /\ Alive(d)' = Alive(d)
  BY ReadSame
<1>4. \A p \in related' : p[1] \in entities' /\ p[2] \in entities'
  BY DEF References
<1>5. \A d \in Cnx : \A p \in Visible(d)' : p[1] \in Alive(d)' /\ p[2] \in Alive(d)'
  <2>1. ASSUME NEW p \in Visible(c)' PROVE p[1] \in Alive(c)' /\ p[2] \in Alive(c)'
    BY <1>1, <1>2, <2>1 DEF References
  <2>2. ASSUME NEW d \in Cnx, d # c, NEW p \in Visible(d)'
        PROVE  p[1] \in Alive(d)' /\ p[2] \in Alive(d)'
    BY <1>3, <2>2 DEF References
  <2> QED
    BY <2>1, <2>2
<1>6. \A x, d \in Cnx : \A p \in added'[x] : p[1] \notin deleted'[d] /\ p[2] \notin deleted'[d]
  <2> SUFFICES ASSUME NEW x \in Cnx, NEW d \in Cnx, NEW p \in added'[x]
               PROVE  p[1] \notin deleted'[d] /\ p[2] \notin deleted'[d]
    OBVIOUS
  <2>1. CASE x = c
    <3>1. CASE p \in new
      BY <3>1, <2>1 DEF Same
    <3>2. CASE p \in added[c] \ gone
      <4>1. p \in Visible(c)
        BY <3>2 DEF Visible
      <4>2. \A y \in Cnx : p[1] \notin deleted[y] /\ p[2] \notin deleted[y]
        BY <3>2 DEF References
      <4> QED
        BY <3>2, <4>1, <4>2 DEF Same
    <3> QED
      BY <1>1, <2>1, <3>1, <3>2
  <2>2. CASE x # c
    <3>1. p \in added[x]
      BY <2>2 DEF Same
    <3>2. \A y \in Cnx : p[1] \notin deleted[y] /\ p[2] \notin deleted[y]
      BY <3>1 DEF References
    <3> QED
      BY <2>2, <3>1, <3>2 DEF Same
  <2> QED
    BY <2>1, <2>2
<1> QED
  BY <1>4, <1>5, <1>6 DEF References

LEMMA CommitReferences ==
  ASSUME CardTypes, References, NEW c \in Cnx, DbCommit(c), \A d \in Cnx : d # c => Same(d)
  PROVE  References'
<1>1. /\ entities' = Alive(c) /\ related' = Visible(c)
      /\ created'[c] = {} /\ deleted'[c] = {} /\ added'[c] = {} /\ removed'[c] = {}
  BY DEF DbCommit, Over, Alive, Visible, CardTypes
<1>2. \A p \in related' : p[1] \in entities' /\ p[2] \in entities'
  BY <1>1 DEF References
<1>3. ASSUME NEW p \in Visible(c)' PROVE p[1] \in Alive(c)' /\ p[2] \in Alive(c)'
  BY <1>1, <1>2, <1>3 DEF Visible, Alive
<1>4. ASSUME NEW d \in Cnx, d # c, NEW p \in Visible(d)'
      PROVE  p[1] \in Alive(d)' /\ p[2] \in Alive(d)'
  <2>1. Visible(d)' = (Visible(c) \ removed[d]) \cup added[d]
    BY <1>1, <1>4 DEF Visible, Same
  <2>2. Alive(d)' = (Alive(c) \cup created[d]) \ deleted[d]
    BY <1>1, <1>4 DEF Alive, Same
  <2>3. CASE p \in added[d]
    <3>1. p[1] \in Alive(d) /\ p[2] \in Alive(d)
      BY <2>3 DEF References, Visible
    <3>2. p[1] \notin deleted[c] /\ p[2] \notin deleted[c]
      BY <2>3 DEF References
    <3> QED
      BY <2>2, <3>1, <3>2 DEF Alive
  <2>4. CASE p \in Visible(c) \ removed[d]
    <3>1. p[1] \in Alive(c) /\ p[2] \in Alive(c)
      BY <2>4 DEF References
    <3>2. p[1] \notin deleted[d] /\ p[2] \notin deleted[d]
      <4>1. CASE p \in added[c]
        BY <4>1 DEF References
      <4>2. CASE p \in related
        BY <4>2, <2>4 DEF References, Visible, Alive
      <4> QED
        BY <4>1, <4>2, <2>4 DEF Visible
    <3> QED
      BY <2>2, <3>1, <3>2
  <2> QED
    BY <1>4, <2>1, <2>3, <2>4
<1>5. \A x, d \in Cnx : \A p \in added'[x] : p[1] \notin deleted'[d] /\ p[2] \notin deleted'[d]
  BY <1>1 DEF References, Same
<1>6. \A d \in Cnx : \A p \in Visible(d)' : p[1] \in Alive(d)' /\ p[2] \in Alive(d)'
  BY <1>3, <1>4
<1> QED
  BY <1>2, <1>5, <1>6 DEF References

LEMMA ReferenceStep == CardTypes /\ References /\ [Next]_vars => References'
<1> SUFFICES ASSUME CardTypes, References, [Next]_vars PROVE References'
  OBVIOUS
<1>1. CASE UNCHANGED vars
  BY <1>1 DEF References, vars, transaction, Visible, Alive
<1>2. ASSUME NEW c \in Cnx, Step(c) PROVE References'
  <2>0. \A d \in Cnx : d # c => Same(d)
    BY <1>2, OthersSame
  <2>1. ASSUME NEW e \in Entity, CreateEntity(c, e) PROVE References'
    <3>1. /\ created'[c] = created[c] \cup {e} /\ \A d \in Cnx : e \notin deleted[d]
          /\ entities' = entities /\ related' = related /\ deleted' = deleted
          /\ added' = added /\ removed' = removed
      BY <2>1 DEF CreateEntity, CardTypes
    <3>2. \A d \in Cnx : Visible(d)' = Visible(d)
      BY <3>1 DEF Visible
    <3>3. \A d \in Cnx : Alive(d) \subseteq Alive(d)'
      BY <2>0, <3>1 DEF Same, Alive
    <3> QED
      BY <3>1, <3>2, <3>3 DEF References
  <2>2. ASSUME NEW e \in Entity, DeleteEntity(c, e) PROVE References'
    <3>1. PICK gone \in SUBSET Pair, new \in SUBSET Pair, dying \in SUBSET Entity :
              gone = {p \in Visible(c) : e \in {p[1], p[2]}} /\ new = {} /\ dying = {e}
      BY VisibleTyped
    <3>2. /\ Write(c, gone, new) /\ related' = related /\ entities' = entities
          /\ created' = created /\ deleted'[c] = deleted[c] \cup dying
          /\ \A d \in Cnx : d # c => \A p \in added[d] : p[1] # e /\ p[2] # e
      BY <2>2, <3>1 DEF DeleteEntity, CardTypes
    <3>3. /\ \A p \in Visible(c) : p[1] \in dying \/ p[2] \in dying => p \in gone
          /\ \A d \in Cnx : d # c => \A p \in added[d] : p[1] \notin dying /\ p[2] \notin dying
          /\ \A p \in new : /\ p[1] \in Alive(c) \ dying /\ p[2] \in Alive(c) \ dying
                            /\ \A d \in Cnx : p[1] \notin deleted[d] /\ p[2] \notin deleted[d]
      BY <3>1, <3>2
    <3> QED
      BY <2>0, <3>2, <3>3, WriteReferences
  <2>3. ASSUME NEW gone \in SUBSET Pair, NEW new \in SUBSET Pair, Write(c, gone, new),
               related' = related, entities' = entities, created' = created, deleted' = deleted,
               \A p \in new : /\ p[1] \in Alive(c) /\ p[2] \in Alive(c)
                              /\ \A d \in Cnx : p[1] \notin deleted[d] /\ p[2] \notin deleted[d]
        PROVE  References'
    <3>1. PICK dying : dying = {}
      OBVIOUS
    <3>2. /\ \A p \in Visible(c) : p[1] \in dying \/ p[2] \in dying => p \in gone
          /\ \A d \in Cnx : d # c => \A p \in added[d] : p[1] \notin dying /\ p[2] \notin dying
          /\ \A p \in new : /\ p[1] \in Alive(c) \ dying /\ p[2] \in Alive(c) \ dying
                            /\ \A d \in Cnx : p[1] \notin deleted[d] /\ p[2] \notin deleted[d]
          /\ deleted'[c] = deleted[c] \cup dying
      BY <2>3, <3>1
    <3> QED
      BY <2>0, <2>3, <3>2, WriteReferences
  <2>4. ASSUME NEW p \in Pair, DeleteRelation(c, p) PROVE References'
    <3>1. PICK gone \in SUBSET Pair, new \in SUBSET Pair : gone = {p} /\ new = {}
      OBVIOUS
    <3> QED
      BY <2>3, <2>4, <3>1 DEF DeleteRelation
  <2>5. CASE AddAgain(c) \/ AddPair(c)
    <3>1. PICK gone \in SUBSET Pair, new \in SUBSET Pair : Drop(c, gone) /\ new = {}
      BY <2>5, VisibleTyped DEF AddAgain, AddPair, Siblings, Rivals
    <3> QED
      BY <2>3, <3>1 DEF Drop
  <2>6. CASE InsertPairs(c)
    <3>1. PICK new \in SUBSET Pair, gone \in SUBSET Pair : new = ToSet(batch[c].kept) /\ gone = {}
      BY ToSetProperties DEF CardTypes, BatchRecord
    <3>2. Write(c, gone, new) /\ Referable(c, new)
          /\ related' = related /\ entities' = entities /\ created' = created /\ deleted' = deleted
      BY <2>6, <3>1 DEF InsertPairs
    <3>3. \A p \in new : /\ p[1] \in Alive(c) /\ p[2] \in Alive(c)
                         /\ \A d \in Cnx : p[1] \notin deleted[d] /\ p[2] \notin deleted[d]
      BY <3>2 DEF Referable
    <3> QED
      BY <2>3, <3>2, <3>3
  <2>7. ASSUME entities' = entities, related' = related, created' = created, deleted' = deleted,
               added' = added, removed' = removed
        PROVE  References'
    BY <2>7 DEF References, Visible, Alive
  <2>8. (\E pairs \in Batches : BeginAdd(c, pairs)) \/ CheckRequired(c) => References'
    BY <2>7 DEF BeginAdd, CheckRequired
  <2>9. CASE DbCommit(c)
    BY <2>0, <2>9, CommitReferences
  <2>10. CASE Rollback(c)
    <3>1. /\ entities' = entities /\ related' = related
          /\ created'[c] = {} /\ deleted'[c] = {} /\ added'[c] = {} /\ removed'[c] = {}
      BY <2>10 DEF Rollback, Over, CardTypes
    <3>2. Visible(c)' = related /\ Alive(c)' = entities
      BY <3>1 DEF Visible, Alive
    <3>3. \A d \in Cnx : d # c => Visible(d)' = Visible(d) /\ Alive(d)' = Alive(d)
      BY <2>0, <3>1, ReadSame
    <3>4. \A d \in Cnx : \A p \in Visible(d)' : p[1] \in Alive(d)' /\ p[2] \in Alive(d)'
      BY <3>2, <3>3 DEF References
    <3>5. \A x, d \in Cnx : \A p \in added'[x] : p[1] \notin deleted'[d] /\ p[2] \notin deleted'[d]
      BY <2>0, <3>1 DEF References, Same
    <3> QED
      BY <3>1, <3>4, <3>5 DEF References
  <2> QED
    BY <1>2, <2>1, <2>2, <2>4, <2>5, <2>6, <2>8, <2>9, <2>10 DEF Step
<1> QED
  BY <1>1, <1>2 DEF Next

--------------------------------------------------------------------------------
(* The check made before COMMIT.                                           *)

\* Inductive, with the rest.  What was checked is still there, for whoever is not contested.
StillPresent ==
    \A c \in Cnx : \A end \in Ends :
        /\ stage[c] = "checked" /\ end \in checks[c] /\ end[2] \in Alive(c)
        /\ end[2] \notin contested
        => ~Lacks(end, Visible(c))

(* A COMMIT makes of what a transaction read the committed data.  What it  *)
(* may lack was checked, or was lacking already.                           *)
LEMMA CommitRequired ==
  ASSUME CardTypes, ToCheck, StillPresent, RequiredPresent, NEW c \in Cnx, DbCommit(c)
  PROVE  RequiredPresent'
<1>1. /\ entities' = Alive(c) /\ related' = Visible(c) /\ cards' = cards
      /\ contested' = contested /\ stage[c] = "checked"
  BY DEF DbCommit, Over, Alive, Visible
<1> SUFFICES ASSUME NEW end \in Ends, end[2] \in entities', Required(end)', Lacks(end, related)',
                    end[2] \notin contested'
             PROVE  FALSE
  BY DEF RequiredPresent
<1>2. Required(end) /\ end[2] \in Alive(c) /\ Lacks(end, Visible(c))
  BY <1>1 DEF Required, SubjectCard, ObjectCard, Lacks
<1>3. end \in checks[c] \/ (end[2] \in entities /\ Lacks(end, related))
  BY <1>2, CheckEnough DEF BrokenIsChecked
<1>4. end \notin checks[c]
  BY <1>1, <1>2 DEF StillPresent
<1> QED
  BY <1>1, <1>2, <1>3, <1>4 DEF RequiredPresent

LEMMA RemovedAt ==
  ASSUME CardTypes, NEW end \in Ends, NEW d \in Cnx, NEW p \in added[d] \cup removed[d], At(end, p)
  PROVE  end[2] \in Linked(Changes(d)) /\ end[2] \in Entity
<1>1. p \in Pair /\ p \in Changes(d)
  BY DEF CardTypes, Changes
<1>2. end[2] \in {p[1], p[2]} /\ p[1] \in Subject /\ p[2] \in Object
  BY <1>1, AtEnds, PairEnds
<1> QED
  BY <1>1, <1>2, LinkedOf DEF Entity

(* The COMMIT of another transaction leaves what c checked.  The two did   *)
(* not both change the relations of the entity.                            *)
LEMMA CommitStill ==
  ASSUME CardTypes, ToCheck, Births, References, Contests, StillPresent, RequiredPresent,
         NEW d \in Cnx, DbCommit(d), NEW c \in Cnx, c # d, Same(c), NEW end \in Ends,
         stage[c] = "checked", end \in checks[c], end[2] \in Alive(c)', end[2] \notin contested
  PROVE  ~Lacks(end, Visible(c)')
<1>1. /\ entities' = Alive(d) /\ related' = Visible(d) /\ cards' = cards /\ contested' = contested
  BY DEF DbCommit, Over, Alive, Visible
<1>2. /\ Visible(c)' = (Visible(d) \ removed[c]) \cup added[c]
      /\ Alive(c)' = (Alive(d) \cup created[c]) \ deleted[c]
  BY <1>1 DEF Visible, Alive, Same
<1>3. CASE end[2] \in created[c]
  <2>1. end[2] \in Alive(c)
    BY <1>2, <1>3 DEF Alive
  <2>2. PICK p \in Visible(c) : At(end, p)
    BY <2>1, LacksAt DEF StillPresent
  <2>3. p \notin related
    <3>1. p \in related => end[2] \in entities
      BY <2>2, AtEnds DEF References, CardTypes
    <3> QED
      BY <3>1, <1>3 DEF Births
  <2>4. p \in added[c]
    BY <2>2, <2>3 DEF Visible
  <2> QED
    BY <1>2, <2>2, <2>4, LacksAt
<1>4. CASE end[2] \in Alive(d) /\ end[2] \notin created[c]
  <2>1. RequiredPresent'
    BY CommitRequired
  <2>2. Required(end)' /\ end[2] \in entities' /\ end[2] \notin contested'
    BY <1>1, <1>4 DEF ToCheck, Required, SubjectCard, ObjectCard
  <2>3. PICK q \in Visible(d) : At(end, q)
    BY <1>1, <2>1, <2>2, LacksAt DEF RequiredPresent, Lacks
  <2>4. CASE q \notin removed[c]
    BY <1>2, <2>3, <2>4, LacksAt
  <2>5. CASE q \in removed[c]
    <3>1. end[2] \in Linked(Changes(c)) /\ end[2] \in Entity
      BY <2>3, <2>5, RemovedAt
    <3>2. \A p \in added[d] \cup removed[d] : ~At(end, p)
      BY <3>1, RemovedAt DEF Contests
    <3>3. q \in related
      BY <2>3, <3>2 DEF Visible
    <3>4. end[2] \in entities
      BY <2>3, <3>3, AtEnds DEF References, CardTypes
    <3>5. end[2] \in Alive(c)
      BY <3>4, <1>2 DEF Alive
    <3>6. PICK p \in Visible(c) : At(end, p)
      BY <3>5, LacksAt DEF StillPresent
    <3>7. p \in Visible(c)'
      BY <1>2, <3>2, <3>6 DEF Visible
    <3> QED
      BY <3>6, <3>7, LacksAt
  <2> QED
    BY <2>4, <2>5
<1> QED
  BY <1>2, <1>3, <1>4

(* Until COMMIT only the writes of a transaction change what it reads, and *)
(* it writes before the check.                                             *)
LEMMA PresentStep ==
  CardTypes /\ ToCheck /\ Births /\ References /\ Contests /\ StillPresent /\ RequiredPresent
  /\ [Next]_vars => StillPresent' /\ RequiredPresent'
<1> SUFFICES ASSUME CardTypes, ToCheck, Births, References, Contests, StillPresent, RequiredPresent,
                    [Next]_vars
             PROVE  StillPresent' /\ RequiredPresent'
  OBVIOUS
<1>1. CASE UNCHANGED vars
  BY <1>1 DEF StillPresent, RequiredPresent, vars, transaction, Visible, Alive, Lacks, Required,
              SubjectCard, ObjectCard
<1>2. ASSUME NEW c \in Cnx, Step(c) PROVE StillPresent' /\ RequiredPresent'
  <2>0. \A d \in Cnx : d # c => Same(d)
    BY <1>2, OthersSame
  <2>1. \A end, pairs : Lacks(end, pairs)' = Lacks(end, pairs')
    BY DEF Lacks
  <2>2. contested \subseteq contested' /\ cards' = cards
    BY <1>2, ContestGrows
       DEF Step, CreateEntity, DeleteEntity, DeleteRelation, BeginAdd, AddAgain, AddPair, Drop, Write,
           InsertPairs, CheckRequired, DbCommit, Rollback
  <2>3. CASE DbCommit(c)
    <3>1. RequiredPresent'
      BY <2>3, CommitRequired
    <3>2. stage'[c] = "open" /\ contested' = contested
      BY <2>3 DEF DbCommit, Over, CardTypes
    <3>3. ASSUME NEW d \in Cnx, NEW end \in Ends, stage'[d] = "checked", end \in checks'[d],
                 end[2] \in Alive(d)', end[2] \notin contested'
          PROVE  ~Lacks(end, Visible(d)')
      <4>1. d # c /\ Same(d)
        BY <2>0, <3>2, <3>3
      <4>2. stage[d] = "checked" /\ end \in checks[d]
        BY <4>1, <3>3 DEF Same
      <4> QED
        BY <2>3, <3>2, <3>3, <4>1, <4>2, CommitStill
    <3>4. StillPresent'
      BY <3>3, <2>1 DEF StillPresent
    <3> QED
      BY <3>1, <3>4
  <2>4. CASE ~DbCommit(c)
    <3>1. related' = related /\ entities' = entities
      BY <1>2, <2>4 DEF Step, CreateEntity, DeleteEntity, DeleteRelation, BeginAdd, AddAgain, AddPair,
                        Drop, InsertPairs, CheckRequired, Rollback
    <3>2. RequiredPresent'
      BY <2>2, <3>1 DEF RequiredPresent, Required, SubjectCard, ObjectCard, Lacks
    <3>3. CASE CheckRequired(c)
      <4>1. /\ checks' = checks /\ \A d \in Cnx : Visible(d)' = Visible(d) /\ Alive(d)' = Alive(d)
            /\ \A d \in Cnx : d # c => stage'[d] = stage[d]
        BY <3>3 DEF CheckRequired, Visible, Alive, CardTypes
      <4>2. ASSUME NEW end \in Ends, end \in checks[c], end[2] \in Alive(c)
            PROVE  ~Lacks(end, Visible(c))
        BY <3>3, <4>2 DEF CheckRequired, Missing, Alive
      <4> QED
        BY <2>1, <2>2, <3>2, <4>1, <4>2 DEF StillPresent
    <3>4. CASE ~CheckRequired(c)
      <4>1. stage'[c] # "checked"
        BY <1>2, <2>4, <3>4
           DEF CardTypes, Step, CreateEntity, DeleteEntity, DeleteRelation, BeginAdd, AddAgain,
               AddPair, Drop, InsertPairs, Rollback, Over
      <4>2. \A d \in Cnx : d # c => /\ Visible(d)' = Visible(d) /\ Alive(d)' = Alive(d)
                                    /\ stage'[d] = stage[d] /\ checks'[d] = checks[d]
        BY <2>0, <3>1, ReadSame DEF Same
      <4> QED
        BY <2>1, <2>2, <3>2, <4>1, <4>2 DEF StillPresent
    <3> QED
      BY <3>3, <3>4
  <2> QED
    BY <2>3, <2>4
<1> QED
  BY <1>1, <1>2 DEF Next

--------------------------------------------------------------------------------

PresentInv == CardTypes /\ ToCheck /\ Births /\ References /\ Contests /\ StillPresent
              /\ RequiredPresent

LEMMA InitPresentInv == Init => PresentInv
<1> SUFFICES ASSUME Init PROVE PresentInv
  OBVIOUS
<1>1. CardTypes
  BY InitCardTypes
<1>2. ToCheck /\ Births /\ References /\ StillPresent /\ RequiredPresent
  BY DEF Init, ToCheck, Births, References, StillPresent, RequiredPresent, Visible, Alive
<1>3. \A c \in Cnx : Changes(c) = {}
  <2>1. \A c \in Cnx : batch[c] = NoBatch /\ added[c] = {} /\ removed[c] = {}
    BY DEF Init
  <2>2. ToSet(NoBatch.todo) = {} /\ ToSet(NoBatch.kept) = {}
    BY NoBatchTyped, EmptySequence
  <2> QED
    BY <2>1, <2>2 DEF Changes
<1>4. Contests
  BY <1>3, LinkedOf DEF Contests
<1> QED
  BY <1>1, <1>2, <1>4 DEF PresentInv

\* hooks/integrity.py: what the checks of the required relations rest on.
THEOREM PresentInvariant == Spec => []PresentInv
<1>1. PresentInv /\ [Next]_vars => PresentInv'
  BY TypeStep, CheckStep, BirthStep, ReferenceStep, ContestStep, PresentStep DEF PresentInv
<1> QED
  BY InitPresentInv, <1>1, PTL DEF Spec

(* integrity.py:138.  A committed entity has a relation at every end that  *)
(* requires one, but for an entity whose relations two transactions        *)
(* changed at once.                                                        *)
THEOREM RequiredPresentHolds == Spec => []RequiredPresent
<1>1. PresentInv => RequiredPresent
  BY DEF PresentInv
<1> QED
  BY PresentInvariant, <1>1, PTL

(* integrity.py:142-176.  An entity that lost, or never got, a required    *)
(* relation in a transaction is in the data of its precommit operation.    *)
THEOREM BrokenIsCheckedHolds == Spec => []BrokenIsChecked
<1>1. PresentInv => BrokenIsChecked
  BY CheckEnough DEF PresentInv
<1> QED
  BY PresentInvariant, <1>1, PTL

--------------------------------------------------------------------------------
(* A batch of at most two pairs.                                           *)

ShortBatches == MaxBatch <= 2
OneSingle == \A card \in Cards : ~(Single(card[1]) /\ Single(card[2]))

\* Two pairs cannot be together.
Clash(p, q) ==
    /\ p # q
    /\ \/ Single(SubjectCard) /\ p[1] = q[1]
       \/ Single(ObjectCard) /\ p[2] = q[2]

Apart(pairs) == \A p, q \in pairs : ~Clash(p, q)

\* The batch is to be gone through, kept its first pair, or is ready to be inserted.
Untouched(b) ==
    /\ b.kept = <<>> /\ Len(b.todo) <= 2 /\ Injective(b.todo)
    /\ \A s \in Subject : b.subjects[s] = 0
    /\ \A o \in Object : b.objects[o] = 0

OneKept(b, k) ==
    /\ b.kept = <<k>> /\ Len(b.todo) <= 1 /\ (b.todo # <<>> => Head(b.todo) # k)
    /\ \A s \in Subject : b.subjects[s] = IF s = k[1] /\ Single(SubjectCard) THEN 1 ELSE 0
    /\ \A o \in Object : b.objects[o] = IF o = k[2] /\ Single(ObjectCard) THEN 2 ELSE 0

AllKept(b) == b.todo = <<>> /\ Apart(ToSet(b.kept))

\* Inductive.
Progress ==
    \A c \in Cnx : \/ Untouched(batch[c])
                   \/ \E k \in Pair : OneKept(batch[c], k)
                   \/ AllKept(batch[c])

LEMMA NothingKept == AllKept(NoBatch)
  BY NoBatchTyped, EmptySequence DEF AllKept, Apart

LEMMA ProgressApart ==
  ASSUME CardTypes, Progress, NEW c \in Cnx, batch[c].todo = <<>>
  PROVE  Apart(ToSet(batch[c].kept))
<1>1. CASE Untouched(batch[c])
  BY <1>1, EmptySequence DEF Untouched, Apart
<1>2. ASSUME NEW k \in Pair, OneKept(batch[c], k) PROVE Apart(ToSet(batch[c].kept))
  <2>1. ToSet(<<k>>) = {k}
    BY DEF ToSet
  <2> QED
    BY <1>2, <2>1 DEF OneKept, Apart, Clash
<1>3. CASE AllKept(batch[c])
  BY <1>3 DEF AllKept
<1> QED
  BY <1>1, <1>2, <1>3 DEF Progress

\* What is left of one or two pairs.
LEMMA TwoPairs ==
  ASSUME NEW k \in Pair, NEW p \in Pair
  PROVE  /\ Append(<<>>, p) = <<p>>
         /\ Append(<<k>>, p) \in Seq(Pair) /\ Len(Append(<<k>>, p)) = 2
         /\ ToSet(Append(<<k>>, p)) = {k, p}
         /\ ToSet(RemoveAt(Append(<<k>>, p), 1)) = {p}
         /\ ToSet(RemoveAt(Append(<<k>>, p), 2)) = {k}
<1>1. Append(<<>>, p) = <<p>>
  OBVIOUS
<1>2. PICK s \in Seq(Pair) : s = Append(<<k>>, p) /\ Len(s) = 2 /\ s[1] = k /\ s[2] = p
  <2>0. <<k>> \in Seq(Pair) /\ Len(<<k>>) = 1 /\ <<k>>[1] = k
    <3>1. Len(<<k>>) = 1
      OBVIOUS
    <3>2. <<k>>[1] = k
      OBVIOUS
    <3>3. <<k>> \in Seq(Pair)
      OBVIOUS
    <3> QED
      BY <3>1, <3>2, <3>3
  <2>1. PICK q \in Seq(Pair) : q = <<k>> /\ Len(q) = 1 /\ q[1] = k
    BY <2>0
  <2>2. Append(q, p) \in Seq(Pair) /\ Len(Append(q, p)) = 2
    BY <2>1
  <2>3. Append(q, p)[1] = k /\ Append(q, p)[2] = p
    BY <2>1
  <2> QED
    BY <2>1, <2>2, <2>3
<1>3. ASSUME NEW i \in 1..2, NEW r, r = RemoveAt(s, i)
      PROVE  ToSet(r) = {IF i = 1 THEN p ELSE k}
  <2>1. /\ r \in Seq(Pair) /\ Len(r) = 1
        /\ \A j \in 1..(Len(s) - 1) : r[j] = IF j < i THEN s[j] ELSE s[j + 1]
    <3>1. i \in 1..Len(s)
      BY <1>2
    <3>2. /\ RemoveAt(s, i) \in Seq(Pair) /\ Len(RemoveAt(s, i)) = Len(s) - 1
          /\ \A j \in 1..(Len(s) - 1) :
                RemoveAt(s, i)[j] = IF j < i THEN s[j] ELSE s[j + 1]
      BY <3>1, RemoveAtProperties
    <3>3. Len(s) - 1 = 1
      BY <1>2
    <3> QED
      BY <1>3, <3>2, <3>3
  <2>2. r[1] = IF i = 1 THEN p ELSE k
    BY <1>2, <1>3, <2>1
  <2>3. \A x : x \in ToSet(r) <=> \E j \in 1..Len(r) : r[j] = x
    BY <2>1, ToSetProperties
  <2> QED
    BY <2>1, <2>2, <2>3
<1>4. \A x : x \in ToSet(s) <=> \E j \in 1..Len(s) : s[j] = x
  BY ToSetProperties
<1>5. ToSet(s) = {k, p}
  BY <1>2, <1>4
<1> QED
  BY <1>1, <1>2, <1>3, <1>5

\* The single end of the relation type, if any.
LEMMA CardSingle == CardTypes /\ OneSingle => ~(Single(SubjectCard) /\ Single(ObjectCard))
  BY DEF CardTypes, OneSingle, SubjectCard, ObjectCard

LEMMA TailShort ==
  ASSUME NEW s \in Seq(Pair), s # <<>>, NEW n \in Nat, Len(s) <= n + 1
  PROVE  Tail(s) \in Seq(Pair) /\ Len(Tail(s)) <= n /\ (n = 0 => Tail(s) = <<>>)
<1>1. Len(s) \in Nat \ {0}
  BY EmptySeq
<1>2. Tail(s) \in Seq(Pair) /\ Len(Tail(s)) = Len(s) - 1
  BY <1>1
<1>3. n = 0 => Len(Tail(s)) = 0
  BY <1>1, <1>2
<1> QED
  BY <1>1, <1>2, <1>3, EmptySeq

LEMMA FirstKept ==
  ASSUME NEW b \in BatchRecord, Untouched(b), b.todo # <<>>, NEW p, p = Head(b.todo),
         NEW b2 \in BatchRecord,
         b2 = [todo |-> Tail(b.todo), kept |-> Append(b.kept, p),
               subjects |-> Position(SubjectCard, b.subjects, p[1], 1),
               objects |-> Position(ObjectCard, b.objects, p[2], 2)]
  PROVE  p \in Pair /\ OneKept(b2, p)
<1>1. b.todo \in Seq(Pair) /\ Len(b.todo) <= 1 + 1 /\ Injective(b.todo)
  BY DEF BatchRecord, Untouched
<1>2. p \in Pair /\ p \notin ToSet(Tail(b.todo))
  BY <1>1, PopProperties
<1>3. Tail(b.todo) \in Seq(Pair) /\ Len(Tail(b.todo)) <= 1
  BY <1>1, TailShort
<1>4. Tail(b.todo) # <<>> => Head(Tail(b.todo)) # p
  BY <1>2, <1>3, PopProperties
<1>5. Append(b.kept, p) = <<p>>
  BY <1>2, TwoPairs DEF Untouched
<1>6. p[1] \in Subject /\ p[2] \in Object
  BY <1>2, PairEnds
<1>7. b.subjects \in [Subject -> Nat] /\ b.objects \in [Object -> Nat]
  BY DEF BatchRecord
<1>8. /\ \A s \in Subject : b2.subjects[s] = IF s = p[1] /\ Single(SubjectCard) THEN 1 ELSE 0
      /\ \A o \in Object : b2.objects[o] = IF o = p[2] /\ Single(ObjectCard) THEN 2 ELSE 0
  BY <1>6, <1>7 DEF Position, Untouched
<1> QED
  BY <1>2, <1>3, <1>4, <1>5, <1>8 DEF OneKept

LEMMA ProgressAdd ==
  ASSUME CardTypes, Progress, NEW c \in Cnx, AddAgain(c) \/ AddPair(c)
  PROVE  \/ Untouched(batch'[c])
         \/ \E k \in Pair : OneKept(batch'[c], k)
         \/ AllKept(batch'[c])
<1>1. PICK b \in BatchRecord, d \in BatchRecord : b = batch[c] /\ d = batch'[c]
  BY AddBatch DEF CardTypes
<1>2. b.todo # <<>>
  BY <1>1 DEF AddAgain, AddPair, Drop
<1>3. PICK p \in Pair : p = Head(b.todo)
  BY <1>1, <1>2, NextPair
<1>4. p[1] \in Subject /\ p[2] \in Object
  BY <1>3, PairEnds
<1>5. ASSUME AddAgain(c)
      PROVE  /\ b.subjects[p[1]] # 0
             /\ d.todo = Tail(b.todo)
             /\ d.kept = RemoveAt(Append(b.kept, p), b.subjects[p[1]])
  <2>1. /\ b.subjects[p[1]] # 0
        /\ batch'[c] = [todo |-> Tail(b.todo),
                        kept |-> RemoveAt(Append(b.kept, p), b.subjects[p[1]]),
                        subjects |-> Position(SubjectCard, b.subjects, p[1], Len(b.kept)),
                        objects |-> b.objects]
    BY <1>1, <1>3, <1>5, AgainFields
  <2> QED
    BY <1>1, <2>1
<1>6. AddPair(c) => /\ b.subjects[p[1]] = 0
                    /\ d = [todo |-> Tail(b.todo),
                            kept |-> IF b.objects[p[2]] = 0 THEN Append(b.kept, p)
                                     ELSE RemoveAt(Append(b.kept, p), b.objects[p[2]]),
                            subjects |-> Position(SubjectCard, b.subjects, p[1], Len(b.kept) + 1),
                            objects |-> Position(ObjectCard, b.objects, p[2],
                                          IF b.objects[p[2]] = 0 THEN (Len(b.kept) + 1) + 1
                                          ELSE Len(b.kept) + 1)]
  BY <1>1, <1>3, PairFields
<1>7. CASE Untouched(b)
  <2>1. b.subjects[p[1]] = 0 /\ b.objects[p[2]] = 0 /\ Len(b.kept) = 0
    BY <1>4, <1>7, EmptySeq DEF Untouched
  <2>2. AddPair(c)
    BY <1>5, <2>1
  <2>3. d = [todo |-> Tail(b.todo), kept |-> Append(b.kept, p),
             subjects |-> Position(SubjectCard, b.subjects, p[1], 1),
             objects |-> Position(ObjectCard, b.objects, p[2], 2)]
    BY <1>6, <2>1, <2>2
  <2> QED
    BY <1>1, <1>2, <1>3, <1>7, <2>3, FirstKept
<1>8. ASSUME NEW k \in Pair, OneKept(b, k) PROVE AllKept(d)
  <2>1. Tail(b.todo) = <<>> /\ p # k
    <3>1. b.todo \in Seq(Pair) /\ Len(b.todo) <= 0 + 1
      BY <1>8 DEF OneKept, BatchRecord
    <3> QED
      BY <1>2, <1>3, <1>8, <3>1, TailShort DEF OneKept
  <2>2. b.kept = <<k>>
    BY <1>8 DEF OneKept
  <2>3. /\ b.subjects[p[1]] = IF p[1] = k[1] /\ Single(SubjectCard) THEN 1 ELSE 0
        /\ b.objects[p[2]] = IF p[2] = k[2] /\ Single(ObjectCard) THEN 2 ELSE 0
    BY <1>4, <1>8 DEF OneKept
  <2>4. /\ ToSet(Append(<<k>>, p)) = {k, p}
        /\ ToSet(RemoveAt(Append(<<k>>, p), 1)) = {p}
        /\ ToSet(RemoveAt(Append(<<k>>, p), 2)) = {k}
    BY TwoPairs
  <2>5. CASE AddAgain(c)
    <3>1. d.todo = <<>> /\ ToSet(d.kept) = {p}
      BY <1>5, <2>1, <2>2, <2>3, <2>4, <2>5
    <3> QED
      BY <3>1 DEF AllKept, Apart, Clash
  <2>6. CASE AddPair(c) /\ b.objects[p[2]] # 0
    <3>1. d.todo = <<>> /\ d.kept = RemoveAt(Append(<<k>>, p), 2)
      <4>1. b.objects[p[2]] = 2
        BY <2>3, <2>6
      <4>2. d.todo = Tail(b.todo) /\ d.kept = RemoveAt(Append(b.kept, p), b.objects[p[2]])
        BY <1>6, <2>6
      <4> QED
        BY <2>1, <2>2, <4>1, <4>2
    <3>2. ToSet(d.kept) = {k}
      BY <2>4, <3>1
    <3> QED
      BY <3>1, <3>2 DEF AllKept, Apart, Clash
  <2>7. CASE AddPair(c) /\ b.objects[p[2]] = 0
    <3>1. d.todo = <<>> /\ d.kept = Append(<<k>>, p)
      <4>1. d.todo = Tail(b.todo) /\ d.kept = Append(b.kept, p)
        BY <1>6, <2>7
      <4> QED
        BY <2>1, <2>2, <4>1
    <3>2. ToSet(d.kept) = {k, p}
      BY <2>4, <3>1
    <3>3. ~Clash(k, p) /\ ~Clash(p, k)
      BY <1>6, <2>3, <2>7 DEF Clash
    <3> QED
      BY <3>1, <3>2, <3>3 DEF AllKept, Apart, Clash
  <2> QED
    BY <2>5, <2>6, <2>7
<1>9. ~AllKept(b)
  BY <1>2 DEF AllKept
<1> QED
  BY <1>1, <1>7, <1>8, <1>9 DEF Progress

LEMMA ProgressStep ==
  ASSUME ShortBatches
  PROVE  CardTypes /\ Progress /\ [Next]_vars => Progress'
<1> SUFFICES ASSUME CardTypes, Progress, [Next]_vars PROVE Progress'
  OBVIOUS
<1>0. ASSUME cards' = cards
      PROVE  \A b : /\ Untouched(b)' <=> Untouched(b')
                    /\ \A k : OneKept(b, k)' <=> OneKept(b', k)
                    /\ AllKept(b)' <=> AllKept(b')
  BY <1>0 DEF Untouched, OneKept, AllKept, Apart, Clash, SubjectCard, ObjectCard
<1>1. CASE UNCHANGED vars
  BY <1>1, <1>0 DEF Progress, vars, transaction
<1>2. ASSUME NEW c \in Cnx, Step(c) PROVE Progress'
  <2>0. cards' = cards /\ \A d \in Cnx : d # c => batch'[d] = batch[d]
    BY <1>2, OthersSame
       DEF Same, Step, CreateEntity, DeleteEntity, DeleteRelation, BeginAdd, AddAgain, AddPair, Drop,
           InsertPairs, CheckRequired, DbCommit, Rollback
  <2>1. \/ batch'[c] = batch[c]
        \/ batch'[c] = NoBatch
        \/ \E pairs \in Batches : batch'[c] = Batch(pairs)
        \/ AddAgain(c) \/ AddPair(c)
    BY <1>2 DEF CardTypes, Step, CreateEntity, DeleteEntity, DeleteRelation, BeginAdd, InsertPairs,
                CheckRequired, DbCommit, Rollback, Over
  <2>2. ASSUME NEW pairs \in Batches PROVE Untouched(Batch(pairs))
    <3>1. /\ Len(pairs) \in 1..MaxBatch /\ Injective(pairs)
          /\ Batch(pairs).todo = pairs /\ Batch(pairs).kept = <<>>
      BY BatchesTyped
    <3>2. Len(pairs) <= 2
      BY <3>1, BoundsAssumption DEF ShortBatches
    <3>3. /\ \A s \in Subject : Batch(pairs).subjects[s] = 0
          /\ \A o \in Object : Batch(pairs).objects[o] = 0
      BY DEF Batch
    <3> QED
      BY <3>1, <3>2, <3>3 DEF Untouched
  <2>3. \/ Untouched(batch'[c])
        \/ \E k \in Pair : OneKept(batch'[c], k)
        \/ AllKept(batch'[c])
    <3>1. CASE batch'[c] = batch[c]
      BY <3>1 DEF Progress
    <3>2. CASE batch'[c] = NoBatch
      BY <3>2, NothingKept
    <3>3. CASE \E pairs \in Batches : batch'[c] = Batch(pairs)
      BY <3>3, <2>2
    <3>4. CASE AddAgain(c) \/ AddPair(c)
      BY <3>4, ProgressAdd
    <3> QED
      BY <2>1, <3>1, <3>2, <3>3, <3>4
  <2>4. \A d \in Cnx : \/ Untouched(batch'[d])
                       \/ \E k \in Pair : OneKept(batch'[d], k)
                       \/ AllKept(batch'[d])
    BY <2>0, <2>3 DEF Progress
  <2> QED
    BY <2>0, <2>4
       DEF Progress, Untouched, OneKept, AllKept, Apart, Clash, SubjectCard, ObjectCard
<1> QED
  BY <1>1, <1>2 DEF Next

--------------------------------------------------------------------------------
(* No second relation.                                                     *)

\* Two pairs that nothing excuses.
Bad(p, q) ==
    /\ p # q
    /\ \/ Single(SubjectCard) /\ p[1] = q[1] /\ p[1] \notin contested
       \/ Single(ObjectCard) /\ p[2] = q[2] /\ p[2] \notin contested

Alone(pairs, others) == \A p \in pairs : \A q \in others : ~Bad(p, q)

\* Inductive, with the progress of the batches.
AloneInv ==
    /\ Alone(related, related)
    /\ \A c \in Cnx : /\ Alone(Visible(c), Visible(c))
                      /\ Alone(ToSet(batch[c].kept), Visible(c))

LEMMA AloneIsOne == AtMostOne <=> Alone(related, related)
  BY DEF AtMostOne, Alone, Bad

LEMMA BadAgain == \A p, q : Bad(p, q) => Bad(q, p)
  BY DEF Bad

\* What follows of a step of c that neither commits nor rolls back.
LEMMA AloneWrites ==
  ASSUME CardTypes, AloneInv, NEW c \in Cnx, NEW V, NEW K,
         cards' = cards, contested \subseteq contested', related' = related,
         \A d \in Cnx : d # c => Same(d),
         Visible(c)' = V, ToSet(batch'[c].kept) = K, Alone(V, V), Alone(K, V)
  PROVE  AloneInv'
<1>1. \A p, q : Bad(p, q)' => Bad(p, q)
  BY DEF Bad, SubjectCard, ObjectCard
<1>2. \A P, Q : Alone(P, Q) => \A p \in P : \A q \in Q : ~Bad(p, q)'
  BY <1>1 DEF Alone
<1>3. Alone(related, related)'
  BY <1>2 DEF AloneInv, Alone
<1>4. ASSUME NEW d \in Cnx
      PROVE  /\ \A p \in Visible(d)' : \A q \in Visible(d)' : ~Bad(p, q)'
             /\ \A p \in ToSet(batch'[d].kept) : \A q \in Visible(d)' : ~Bad(p, q)'
  <2>1. CASE d = c
    BY <1>2, <2>1
  <2>2. CASE d # c
    <3>1. Visible(d)' = Visible(d) /\ batch'[d] = batch[d]
      BY <2>2 DEF Visible, Same
    <3> QED
      BY <1>2, <3>1 DEF AloneInv
  <2> QED
    BY <2>1, <2>2
<1>5. \A d \in Cnx : Alone(Visible(d), Visible(d))' /\ Alone(ToSet(batch[d].kept), Visible(d))'
  BY <1>4 DEF Alone, ToSet
<1> QED
  BY <1>3, <1>5 DEF AloneInv

(* A COMMIT of c.  What d reads now comes from d or from c; a pair of each *)
(* at one entity makes it contested.                                       *)
LEMMA AloneCommit ==
  ASSUME CardTypes, Contests, AloneInv, NEW c \in Cnx, DbCommit(c),
         \A d \in Cnx : d # c => Same(d)
  PROVE  AloneInv'
<1>1. /\ related' = Visible(c) /\ cards' = cards /\ contested' = contested
      /\ added'[c] = {} /\ removed'[c] = {} /\ batch'[c] = NoBatch
  BY DEF DbCommit, Over, Visible, CardTypes
<1>2. \A p, q : Bad(p, q)' <=> Bad(p, q)
  BY <1>1 DEF Bad, SubjectCard, ObjectCard
<1>3. Visible(c)' = Visible(c) /\ ToSet(batch'[c].kept) = {}
  BY <1>1, NoBatchTyped, EmptySequence DEF Visible
<1>4. ASSUME NEW d \in Cnx, d # c, NEW p \in Pair, p \in Changes(d), NEW q \in added[c]
      PROVE  ~Bad(p, q) /\ ~Bad(q, p)
  <2>1. q \in Changes(c) /\ q \in Pair
    BY DEF Changes, CardTypes
  <2>2. /\ p[1] \in Linked(Changes(d)) /\ p[2] \in Linked(Changes(d))
        /\ q[1] \in Linked(Changes(c)) /\ q[2] \in Linked(Changes(c))
        /\ p[1] \in Entity /\ p[2] \in Entity
    BY <1>4, <2>1, LinkedOf, PairEnds DEF Entity
  <2>3. ~Bad(p, q)
    BY <1>4, <2>2 DEF Bad, Contests
  <2> QED
    BY <2>3, BadAgain
<1>5. ASSUME NEW d \in Cnx, d # c
      PROVE  /\ \A p \in Visible(d)' : \A q \in Visible(d)' : ~Bad(p, q)
             /\ \A p \in ToSet(batch[d].kept) : \A q \in Visible(d)' : ~Bad(p, q)
  <2>1. Visible(d)' = (Visible(c) \ removed[d]) \cup added[d]
    BY <1>1, <1>5 DEF Visible, Same
  <2>2. added[d] \subseteq Visible(d) /\ added[d] \subseteq Changes(d) /\ added[d] \subseteq Pair
    BY DEF Visible, Changes, CardTypes
  <2>3. \A q \in Visible(c) \ removed[d] : q \in Visible(d) \/ q \in added[c]
    BY DEF Visible
  <2>4. ToSet(batch[d].kept) \subseteq Pair /\ ToSet(batch[d].kept) \subseteq Changes(d)
    BY ToSetProperties DEF Changes, CardTypes, BatchRecord
  <2>5. ASSUME NEW p \in Visible(d)', NEW q \in Visible(d)' PROVE ~Bad(p, q)
    <3>1. CASE p \in Visible(c) /\ q \in Visible(c)
      BY <3>1 DEF AloneInv, Alone
    <3>2. CASE p \in added[d]
      BY <1>4, <1>5, <2>1, <2>2, <2>3, <3>2 DEF AloneInv, Alone
    <3>3. CASE q \in added[d]
      BY <1>4, <1>5, <2>1, <2>2, <2>3, <3>3 DEF AloneInv, Alone
    <3> QED
      BY <2>1, <3>1, <3>2, <3>3
  <2>6. ASSUME NEW p \in ToSet(batch[d].kept), NEW q \in Visible(d)' PROVE ~Bad(p, q)
    <3>1. CASE q \in Visible(d)
      BY <3>1 DEF AloneInv, Alone
    <3>2. CASE q \in added[c]
      BY <1>4, <1>5, <2>4, <3>2
    <3> QED
      BY <2>1, <2>2, <2>3, <3>1, <3>2
  <2> QED
    BY <2>5, <2>6
<1>6. \A p \in related' : \A q \in related' : ~Bad(p, q)
  BY <1>1 DEF AloneInv, Alone
<1>7. \A d \in Cnx : /\ \A p \in Visible(d)' : \A q \in Visible(d)' : ~Bad(p, q)
                     /\ \A p \in ToSet(batch'[d].kept) : \A q \in Visible(d)' : ~Bad(p, q)
  <2>1. /\ \A p \in Visible(c)' : \A q \in Visible(c)' : ~Bad(p, q)
        /\ \A p \in ToSet(batch'[c].kept) : \A q \in Visible(c)' : ~Bad(p, q)
    BY <1>3 DEF AloneInv, Alone
  <2>2. \A d \in Cnx : d # c => batch'[d] = batch[d]
    BY DEF Same
  <2> QED
    BY <1>5, <2>1, <2>2
<1>8. Alone(related, related)'
  BY <1>2, <1>6 DEF Alone
<1>9. \A d \in Cnx : Alone(Visible(d), Visible(d))' /\ Alone(ToSet(batch[d].kept), Visible(d))'
  BY <1>2, <1>7 DEF Alone, ToSet
<1> QED
  BY <1>8, <1>9 DEF AloneInv

LEMMA AloneStep ==
  ASSUME OneSingle
  PROVE  CardTypes /\ Contests /\ Progress /\ AloneInv /\ [Next]_vars => AloneInv'
<1> SUFFICES ASSUME CardTypes, Contests, Progress, AloneInv, [Next]_vars PROVE AloneInv'
  OBVIOUS
<1>1. CASE UNCHANGED vars
  BY <1>1 DEF AloneInv, Alone, Bad, vars, transaction, Visible, SubjectCard, ObjectCard, ToSet
<1>2. ASSUME NEW c \in Cnx, Step(c) PROVE AloneInv'
  <2>0. \A d \in Cnx : d # c => Same(d)
    BY <1>2, OthersSame
  <2>1. contested \subseteq contested' /\ cards' = cards
    BY <1>2, ContestGrows
       DEF Step, CreateEntity, DeleteEntity, DeleteRelation, BeginAdd, AddAgain, AddPair, Drop, Write,
           InsertPairs, CheckRequired, DbCommit, Rollback
  <2>2. Alone(Visible(c), Visible(c)) /\ Alone(ToSet(batch[c].kept), Visible(c))
    BY DEF AloneInv
  <2>3. ASSUME related' = related, Visible(c)' \subseteq Visible(c),
               ToSet(batch'[c].kept) \subseteq ToSet(batch[c].kept)
        PROVE  AloneInv'
    <3>1. /\ Alone(Visible(c)', Visible(c)')
          /\ Alone(ToSet(batch'[c].kept), Visible(c)')
      BY <2>2, <2>3 DEF Alone
    <3> QED
      BY <2>0, <2>1, <2>3, <3>1, AloneWrites
  <2>4. ASSUME NEW gone, Write(c, gone, {}), related' = related, gone \subseteq Pair
        PROVE  Visible(c)' = Visible(c) \ gone
    <3>1. /\ added'[c] = added[c] \ gone
          /\ removed'[c] = removed[c] \cup (gone \cap related)
      BY <2>4 DEF CardTypes, Write
    <3> QED
      BY <2>4, <3>1 DEF Visible
  <2>5. ASSUME NEW e \in Entity, CreateEntity(c, e) PROVE AloneInv'
    BY <2>3, <2>5 DEF CreateEntity, Visible
  <2>6. ASSUME NEW e \in Entity, DeleteEntity(c, e) PROVE AloneInv'
    <3>1. PICK gone \in SUBSET Pair : gone = {p \in Visible(c) : e \in {p[1], p[2]}}
      BY VisibleTyped
    <3>2. Write(c, gone, {}) /\ related' = related /\ batch' = batch
      BY <2>6, <3>1 DEF DeleteEntity
    <3> QED
      BY <2>3, <2>4, <3>2
  <2>7. ASSUME NEW p \in Pair, DeleteRelation(c, p) PROVE AloneInv'
    <3>1. PICK gone \in SUBSET Pair : gone = {p}
      OBVIOUS
    <3>2. Write(c, gone, {}) /\ related' = related /\ batch' = batch
      BY <2>7, <3>1 DEF DeleteRelation
    <3> QED
      BY <2>3, <2>4, <3>2
  <2>8. ASSUME NEW pairs \in Batches, BeginAdd(c, pairs) PROVE AloneInv'
    <3>1. /\ batch'[c] = Batch(pairs) /\ added' = added /\ removed' = removed /\ related' = related
      BY <2>8 DEF BeginAdd, CardTypes
    <3>2. ToSet(batch'[c].kept) = {}
      BY <3>1, BatchesTyped, EmptySequence
    <3> QED
      BY <2>3, <3>1, <3>2 DEF Visible
  <2>9. CASE AddAgain(c) \/ AddPair(c)
    <3>1. PICK p : p = Head(batch[c].todo)
      OBVIOUS
    <3>2. p \in Pair /\ ToSet(batch'[c].kept) \subseteq ToSet(batch[c].kept) \cup {p}
      BY <2>9, <3>1, AddBatch
    <3>3. PICK gone \in SUBSET Pair : Drop(c, gone) /\ Siblings(c, p) \subseteq gone
                                      /\ (AddPair(c) => Rivals(c, p) \subseteq gone)
                                      /\ (AddAgain(c) => batch[c].subjects[p[1]] # 0)
      <4>1. Siblings(c, p) \subseteq Pair /\ Rivals(c, p) \subseteq Pair
        BY VisibleTyped DEF Siblings, Rivals
      <4>2. CASE AddPair(c)
        <5>1. Drop(c, Siblings(c, p) \cup Rivals(c, p)) /\ batch[c].subjects[p[1]] = 0
          BY <3>1, <4>2 DEF AddPair
        <5>2. ~AddAgain(c)
          BY <3>1, <5>1 DEF AddAgain
        <5> QED
          BY <4>1, <4>2, <5>1, <5>2
      <4>3. CASE AddAgain(c) /\ ~AddPair(c)
        <5>1. Drop(c, Siblings(c, p)) /\ batch[c].subjects[p[1]] # 0
          BY <3>1, <4>3 DEF AddAgain
        <5> QED
          BY <4>1, <4>3, <5>1
      <4> QED
        BY <2>9, <4>2, <4>3
    <3>4. related' = related /\ Visible(c)' = Visible(c) \ gone
      BY <2>4, <3>3 DEF Drop
    <3>5. AddAgain(c) => Single(SubjectCard)
      <4> SUFFICES ASSUME AddAgain(c) PROVE Single(SubjectCard)
        OBVIOUS
      <4>1. p[1] \in Subject /\ batch[c].subjects[p[1]] # 0 /\ batch[c].todo # <<>>
        BY <3>2, <3>3, PairEnds DEF Drop
      <4> QED
        BY <4>1 DEF Progress, Untouched, OneKept, AllKept
    <3>6. ~(Single(SubjectCard) /\ Single(ObjectCard))
      BY CardSingle
    <3>7. \A q \in Visible(c) \ gone : ~Bad(p, q)
      BY <2>9, <3>3, <3>5, <3>6 DEF Bad, Siblings, Rivals
    <3>8. /\ Alone(Visible(c)', Visible(c)')
          /\ Alone(ToSet(batch'[c].kept), Visible(c)')
      BY <2>2, <3>2, <3>4, <3>7 DEF Alone
    <3> QED
      BY <2>0, <2>1, <3>4, <3>8, AloneWrites
  <2>10. CASE InsertPairs(c)
    <3>1. PICK new \in SUBSET Pair : new = ToSet(batch[c].kept)
      BY ToSetProperties DEF CardTypes, BatchRecord
    <3>2. Write(c, {}, new) /\ related' = related /\ batch'[c] = NoBatch /\ batch[c].todo = <<>>
      BY <2>10, <3>1 DEF InsertPairs, CardTypes
    <3>3. Visible(c)' = Visible(c) \cup new
      <4>1. added'[c] = added[c] \cup new /\ removed'[c] = removed[c]
        BY <3>2 DEF Write, CardTypes
      <4> QED
        BY <3>2, <4>1 DEF Visible
    <3>4. Alone(new, new)
      <4>1. Apart(new)
        BY <3>1, <3>2, ProgressApart
      <4> QED
        BY <4>1 DEF Apart, Clash, Alone, Bad
    <3>5. Alone(Visible(c)', Visible(c)')
      BY <2>2, <3>1, <3>3, <3>4, BadAgain DEF Alone
    <3>6. ToSet(batch'[c].kept) = {}
      BY <3>2, NoBatchTyped, EmptySequence
    <3>7. Alone(ToSet(batch'[c].kept), Visible(c)')
      BY <3>6 DEF Alone
    <3> QED
      BY <2>0, <2>1, <3>2, <3>5, <3>7, AloneWrites
  <2>11. CASE CheckRequired(c)
    BY <2>3, <2>11 DEF CheckRequired, Visible
  <2>12. CASE DbCommit(c)
    BY <2>0, <2>12, AloneCommit
  <2>13. CASE Rollback(c)
    <3>1. /\ related' = related /\ added'[c] = {} /\ removed'[c] = {} /\ batch'[c] = NoBatch
      BY <2>13 DEF Rollback, Over, CardTypes
    <3>2. Visible(c)' = related /\ ToSet(batch'[c].kept) = {}
      BY <3>1, NoBatchTyped, EmptySequence DEF Visible
    <3>3. Alone(related, related) /\ Alone(ToSet(batch'[c].kept), related)
      BY <3>2 DEF AloneInv, Alone
    <3> QED
      BY <2>0, <2>1, <3>1, <3>2, <3>3, AloneWrites
  <2> QED
    BY <1>2, <2>5, <2>6, <2>7, <2>8, <2>9, <2>10, <2>11, <2>12, <2>13 DEF Step
<1> QED
  BY <1>1, <1>2 DEF Next

(* repository.py:75, 871-873.  Where at most one end of a relation type is *)
(* single and calls add at most two pairs, an end of cardinality "1" or    *)
(* "?" never has two committed relations, but for an entity whose          *)
(* relations two transactions changed at once.  BatchOfPairs refutes it    *)
(* for longer batches.                                                     *)
THEOREM AtMostOneHolds ==
  ASSUME ShortBatches, OneSingle
  PROVE  Spec => []AtMostOne
<1>1. Init => Progress /\ AloneInv
  <2> SUFFICES ASSUME Init PROVE Progress /\ AloneInv
    OBVIOUS
  <2>1. Progress
    BY NothingKept DEF Init, Progress
  <2>2. ToSet(NoBatch.kept) = {}
    BY NoBatchTyped, EmptySequence
  <2>3. AloneInv
    BY <2>2 DEF Init, AloneInv, Alone, Visible
  <2> QED
    BY <2>1, <2>3
<1>2. PresentInv /\ Progress /\ AloneInv /\ [Next]_vars => Progress' /\ AloneInv'
  BY ProgressStep, AloneStep DEF PresentInv
<1>3. AloneInv => AtMostOne
  BY AloneIsOne DEF AloneInv
<1> QED
  BY <1>1, <1>2, <1>3, PresentInvariant, PTL DEF Spec
================================================================================
