------------------------------ MODULE UndoProofs -------------------------------
(***************************************************************************)
(* What an undo that reaches the end of its record has done, and what it   *)
(* leaves behind, for any number of connections and entities.              *)
(*                                                                         *)
(* The invariant has four parts: TypeInv, the types and the place of each  *)
(* record; DatabaseInv, the rows in flux and the foreign keys; UndoingInv, *)
(* how far each undo has gone through its record; HistoryInv, what records *)
(* tell of the entities whose creation was undone.  For the way back there *)
(* are PairsInv and TellingInv, what a record tells of the rows it is      *)
(* about, and PastInv, how the committed states follow one another.        *)
(***************************************************************************)
EXTENDS Undo, SequenceLemmas, FiniteSetTheorems

\* The log holds a record for each transaction, with the actions it wrote.
Status == {"open", "committed", "gone"}
TransactionRecord == [status : Status, actions : Seq(Action)]
ActionsOf(l, t) == ToSet(l[t].actions)

\* Every variable has its type.
UndoTypes ==
    /\ now \in [Row -> Contents] /\ committed \in [Row -> Contents]
    /\ owner \in [Row -> Cnx \cup {Nobody}]
    /\ log \in Seq(TransactionRecord)
    /\ phase \in [Cnx -> Phases]
    /\ tx \in [Cnx -> Nat] /\ target \in [Cnx -> Nat]
    /\ statement \in [Cnx -> Action \cup {None}]
    /\ script \in [Cnx -> Seq(Action)]
    /\ reported \in [Cnx -> SUBSET Row] /\ overtaken \in [Cnx -> SUBSET Row]
    /\ missed \in [Cnx -> SUBSET Eid]
    /\ DOMAIN unborn \subseteq Eid /\ unborn \in [DOMAIN unborn -> Nat]

\* An open record belongs to one transaction; what is being undone is not open.
RecordsInv ==
    \A c \in Cnx :
        /\ tx[c] # 0 => /\ tx[c] \in 1 .. Len(log) /\ log[tx[c]].status = "open"
                        /\ phase[c] \in {"open", "failed"}
                        /\ \A d \in Cnx : tx[d] = tx[c] => c = d
        /\ target[c] # 0 => /\ target[c] \in 1 .. Len(log) /\ log[target[c]].status # "open"
                            /\ tx[c] = 0
                            /\ phase[c] \in {"undoing", "raised", "failed"}
        /\ phase[c] \in {"undoing", "raised"} => target[c] # 0
        /\ phase[c] = "idle" => tx[c] = 0 /\ \A r \in Row : owner[r] # c
        /\ phase[c] \in {"idle", "raised", "failed"} => statement[c] = None

\* What recording does to the log: the record of c, which is open, has the actions
\* S besides those it had, and no other record changes.
Grows(c, S) ==
    /\ tx' \in [Cnx -> Nat] /\ tx'[c] \in 1 .. Len(log')
    /\ \A d \in Cnx : d # c => tx'[d] = tx[d]
    /\ log' \in Seq(TransactionRecord)
    /\ 1 .. Len(log') = 1 .. Len(log) \cup {tx'[c]}
    /\ \A t \in 1 .. Len(log) : t # tx'[c] => log'[t] = log[t]
    /\ log'[tx'[c]].status = "open"
    /\ tx[c] # 0 => tx'[c] = tx[c]
    /\ tx[c] = 0 => tx'[c] \notin 1 .. Len(log)
    /\ ActionsOf(log', tx'[c]) = (IF tx[c] = 0 THEN {} ELSE ActionsOf(log, tx[c])) \cup S

\* Recording adds to the record of the transaction, which it opens when there is none
\* (native.py:1029-1037), and leaves the other records alone.
LEMMA LoggedGrows ==
  ASSUME UndoTypes, RecordsInv, NEW c \in Cnx, NEW as \in Seq(Action), Logged(c, as)
  PROVE  Grows(c, ToSet(as))
<1>0. log \in Seq(TransactionRecord) /\ tx \in [Cnx -> Nat]
  BY DEF UndoTypes
<1>1. PICK n \in Nat : n = Len(log) /\ DOMAIN log = 1 .. n
  BY <1>0, ToSetProperties
<1>2. CASE tx[c] = 0
  <2>1. tx' = [tx EXCEPT ![c] = n + 1] /\ log' = Append(log, [status |-> "open", actions |-> as])
    BY <1>1, <1>2 DEF Logged
  <2>2. PICK rec : rec = [status |-> "open", actions |-> as]
    OBVIOUS
  <2>3. rec \in TransactionRecord /\ rec.status = "open" /\ rec.actions = as
    BY <2>2 DEF TransactionRecord, Status
  <2>4. /\ log' \in Seq(TransactionRecord) /\ Len(log') = n + 1 /\ log'[n + 1] = rec
        /\ \A t \in 1 .. n : log'[t] = log[t]
    BY <1>0, <1>1, <2>1, <2>2, <2>3
  <2>5. tx'[c] = n + 1
    BY <1>0, <2>1
  <2>6. 1 .. n + 1 = 1 .. n \cup {n + 1} /\ n + 1 \in 1 .. n + 1 /\ n + 1 \notin 1 .. n
    BY <1>1
  <2>7. ActionsOf(log', tx'[c]) = {} \cup ToSet(as)
    BY <2>3, <2>4, <2>5 DEF ActionsOf
  <2>8. tx' \in [Cnx -> Nat] /\ \A d \in Cnx : d # c => tx'[d] = tx[d]
    BY <1>0, <1>1, <2>1
  <2> QED
    BY <1>1, <1>2, <2>1, <2>3, <2>4, <2>5, <2>6, <2>7, <2>8 DEF Grows
<1>3. CASE tx[c] # 0
  <2>1. PICK t : t = tx[c] /\ t \in 1 .. n /\ log[t].status = "open"
    BY <1>1, <1>3 DEF RecordsInv
  <2>2. tx' = [tx EXCEPT ![c] = t] /\ log' = [log EXCEPT ![t].actions = @ \o as]
    BY <1>3, <2>1 DEF Logged
  <2>3. tx'[c] = t
    BY <1>0, <2>2
  <2>4. log[t] \in TransactionRecord
    BY <1>0, <1>1, <2>1, ElementOfSeq
  <2>5. PICK old : old = log[t].actions /\ old \in Seq(Action)
    BY <2>4 DEF TransactionRecord
  <2>6. PICK rec : rec = [log[t] EXCEPT !.actions = old \o as]
    OBVIOUS
  <2>7. old \o as \in Seq(Action) /\ ToSet(old \o as) = ToSet(old) \cup ToSet(as)
    BY <2>5, ConcatDistinct
  <2>8. rec \in TransactionRecord /\ rec.status = "open" /\ rec.actions = old \o as
    BY <2>1, <2>4, <2>6, <2>7 DEF TransactionRecord
  <2>9. log' = [log EXCEPT ![t] = rec]
    BY <2>2, <2>5, <2>6
  <2>10. log' \in Seq(TransactionRecord) /\ Len(log') = n
    BY <1>0, <1>1, <2>1, <2>8, <2>9, ExceptSeq
  <2>11. log'[t] = rec /\ \A u \in 1 .. n : u # t => log'[u] = log[u]
    BY <1>1, <2>1, <2>9
  <2>12. ActionsOf(log', tx'[c]) = ActionsOf(log, tx[c]) \cup ToSet(as)
    BY <2>1, <2>3, <2>5, <2>7, <2>8, <2>11 DEF ActionsOf
  <2>13. 1 .. n = 1 .. n \cup {t}
    BY <2>1
  <2>14. tx' \in [Cnx -> Nat] /\ \A d \in Cnx : d # c => tx'[d] = tx[d]
    BY <1>0, <2>1, <2>2
  <2> QED
    BY <1>1, <1>3, <2>14, <2>1, <2>2, <2>3, <2>8, <2>10, <2>11, <2>12, <2>13 DEF Grows
<1> QED
  BY <1>2, <1>3

\* The same as sequences, where the order of the actions matters.
Appends(c, S) ==
    \E old \in Seq(Action), as \in Seq(Action) :
        /\ old = IF tx[c] = 0 THEN <<>> ELSE log[tx[c]].actions
        /\ ToSet(as) = S
        /\ log'[tx'[c]].actions = old \o as

\* What is recorded comes after what was.
LEMMA LoggedAppends ==
  ASSUME UndoTypes, RecordsInv, NEW c \in Cnx, NEW as \in Seq(Action), Logged(c, as)
  PROVE  Appends(c, ToSet(as))
<1>0. log \in Seq(TransactionRecord) /\ tx \in [Cnx -> Nat]
  BY DEF UndoTypes
<1>1. PICK n \in Nat : n = Len(log) /\ DOMAIN log = 1 .. n
  BY <1>0, ToSetProperties
<1>2. CASE tx[c] = 0
  <2>1. tx' = [tx EXCEPT ![c] = n + 1] /\ log' = Append(log, [status |-> "open", actions |-> as])
    BY <1>1, <1>2 DEF Logged
  <2>4. PICK rec : rec = [status |-> "open", actions |-> as]
    OBVIOUS
  <2>5. rec \in TransactionRecord /\ rec.actions = as
    BY <2>4 DEF TransactionRecord, Status
  <2>6. log'[n + 1] = rec
    BY <1>0, <1>1, <2>1, <2>4, <2>5
  <2>2. log'[n + 1].actions = as /\ tx'[c] = n + 1
    BY <1>0, <1>1, <2>1, <2>5, <2>6
  <2>3. <<>> \in Seq(Action) /\ <<>> \o as = as
    BY ConcatEmptySeq, EmptySeq
  <2> QED
    BY <1>2, <2>2, <2>3 DEF Appends
<1>3. CASE tx[c] # 0
  <2>1. PICK t : t = tx[c] /\ t \in 1 .. n
    BY <1>1, <1>3 DEF RecordsInv
  <2>2. tx' = [tx EXCEPT ![c] = t] /\ log' = [log EXCEPT ![t].actions = @ \o as]
    BY <1>3, <2>1 DEF Logged
  <2>3. log[t] \in TransactionRecord
    BY <1>0, <1>1, <2>1, ElementOfSeq
  <2>4. PICK old \in Seq(Action) : old = log[t].actions
    BY <2>3 DEF TransactionRecord
  <2>5. tx'[c] = t /\ log'[t] = [log[t] EXCEPT !.actions = old \o as]
    BY <1>0, <1>1, <2>1, <2>2, <2>4
  <2>6. log'[t].actions = old \o as
    BY <2>3, <2>5 DEF TransactionRecord
  <2> QED
    BY <1>3, <2>1, <2>4, <2>5, <2>6 DEF Appends
<1> QED
  BY <1>2, <1>3

\* One action, as a sequence.
LEMMA SingletonRecord ==
  ASSUME NEW a \in Action
  PROVE  <<a>> \in Seq(Action) /\ ToSet(<<a>>) = {a}
<1>1. PICK s : s = <<a>>
  OBVIOUS
<1>2. s \in Seq(Action) /\ Len(s) = 1 /\ s[1] = a
  BY <1>1
<1>3. 1 .. 1 = {1}
  OBVIOUS
<1>4. ToSet(s) = {a}
  BY <1>2, <1>3, ToSetProperties
<1> QED
  BY <1>1, <1>2, <1>4

\* A finite set in some order.
LEMMA SetToSeqProperties ==
  ASSUME NEW S, IsFiniteSet(S)
  PROVE  SetToSeq(S) \in Seq(S) /\ ToSet(SetToSeq(S)) = S
<1>1. PICK n \in Nat : n = Cardinality(S) /\ ExistsBijection(1 .. n, S)
  BY FS_CardinalityType
<1>2. PICK f \in Bijection(1 .. n, S) : TRUE
  BY <1>1 DEF ExistsBijection
<1>3. f \in [1 .. n -> S] /\ IsInjective(f)
  BY <1>2 DEF Bijection, Injection, IsInjective
<1>4. PICK g \in [1 .. n -> S] : g = SetToSeq(S) /\ IsInjective(g)
  BY <1>1, <1>3 DEF SetToSeq
<1>5. g \in Seq(S) /\ DOMAIN g = 1 .. n
  BY <1>4
<1>6. g \in Injection(1 .. n, S)
  BY <1>4, <1>5 DEF Injection, IsInjective
<1>7. Cardinality(1 .. n) = n
  BY FS_Interval
<1>8. g \in Surjection(1 .. n, S)
  BY <1>1, <1>6, <1>7, FS_Injection
<1>9. \A x \in S : \E i \in 1 .. n : g[i] = x
  BY <1>8 DEF Surjection
<1> QED
  BY <1>4, <1>5, <1>9, ToSetProperties DEF ToSet

\* What a deletion or an addition records of the pairs deleted with it.
Unlinking(gone) == {[row |-> p, old |-> Linked, new |-> Absent] : p \in gone}

\* A deletion finds finitely many pairs to record.
LEMMA UnlinkingIsFinite ==
  ASSUME NEW gone \in SUBSET Pair
  PROVE  IsFiniteSet(Unlinking(gone)) /\ Unlinking(gone) \subseteq Action
<1>1. IsFiniteSet(Subject) /\ IsFiniteSet(Object)
  BY EidsAssumption, FS_Subset DEF Eid
<1>2. IsFiniteSet(Pair)
  BY <1>1, FS_Product DEF Pair
<1>3. IsFiniteSet(gone)
  BY <1>2, FS_Subset
<1>4. PICK f : f = [p \in gone |-> [row |-> p, old |-> Linked, new |-> Absent]]
  OBVIOUS
<1>5. f \in Surjection(gone, Unlinking(gone))
  BY <1>4 DEF Surjection, Unlinking
<1>6. IsFiniteSet(Unlinking(gone))
  BY <1>3, <1>5, FS_Surjection
<1>7. ASSUME NEW p \in gone PROVE [row |-> p, old |-> Linked, new |-> Absent] \in Action
  BY <1>7 DEF Action, Row, Contents
<1> QED
  BY <1>6, <1>7 DEF Unlinking

\* What a deletion records: the pairs first, in any order, then the entity.
LEMMA DeletionRecord ==
  ASSUME NEW gone \in SUBSET Pair, NEW a \in Action
  PROVE  /\ SetToSeq(Unlinking(gone)) \o <<a>> \in Seq(Action)
         /\ ToSet(SetToSeq(Unlinking(gone)) \o <<a>>) = Unlinking(gone) \cup {a}
<1>1. PICK s : s = SetToSeq(Unlinking(gone))
  OBVIOUS
<1>2. IsFiniteSet(Unlinking(gone)) /\ Unlinking(gone) \subseteq Action
  BY UnlinkingIsFinite
<1>3. s \in Seq(Unlinking(gone)) /\ ToSet(s) = Unlinking(gone)
  BY <1>1, <1>2, SetToSeqProperties
<1>4. s \in Seq(Action)
  BY <1>2, <1>3, SeqMonotonic
<1>5. <<a>> \in Seq(Action) /\ ToSet(<<a>>) = {a}
  BY SingletonRecord
<1>6. s \o <<a>> \in Seq(Action) /\ ToSet(s \o <<a>>) = ToSet(s) \cup ToSet(<<a>>)
  BY <1>4, <1>5, ConcatDistinct
<1> QED
  BY <1>1, <1>3, <1>5, <1>6

\* No record tells anything about e itself.
Fresh(e) == \A t \in 1 .. Len(log) : \A x \in ActionsOf(log, t) : x.row # e

\* A pair is related or not, and an action changes something.
PairAction(a) == a.row \in Pair => a.old \in {Linked, Absent} /\ a.new \in {Linked, Absent}
Changes(a) == a.old # Absent \/ a.new # Absent

\* What is recorded with a: that the pairs gone were related.
Recording(c, a, S, gone) ==
    /\ S = Unlinking(gone) \cup {a} /\ Appends(c, S)
    /\ a.row \notin gone /\ PairAction(a) /\ Changes(a)

\* What adding and removing have in common: c deletes the pairs gone, records S,
\* which tells of them and of entities it sees or creates, and is about to execute a.
EditStep(c) ==
    \E a \in Action, S \in SUBSET Action, gone \in SUBSET Pair :
        /\ Recording(c, a, S, gone)
        /\ phase[c] \in {"idle", "open"} /\ statement[c] = None
        /\ Grows(c, S) /\ Execute(c, a) /\ a \in S
        /\ \A p \in gone : Mine(c, p) /\ Exists(c, p)
        /\ now' = [r \in Row |-> IF r \in gone THEN Absent ELSE now[r]]
        /\ owner' = [r \in Row |-> IF r \in gone THEN c ELSE owner[r]]
        /\ UNCHANGED <<committed, history, undo>>
        /\ \A x \in S : IsCreation(x) => Fresh(x.row)
        /\ \A x \in S, e \in Eid : Touches(x, e) =>
              \/ Exists(c, e)
              \/ IsCreation(x) /\ x.row = e
              \/ \E p \in gone : e \in {p[1], p[2]}

\* Adding an entity is such an edition.
LEMMA CreateIsEdit ==
  ASSUME UndoTypes, RecordsInv, NEW c \in Cnx, NEW e \in Eid, NEW v \in Values(e),
         Create(c, e, v)
  PROVE  EditStep(c)
<1>1. PICK a : a = [row |-> e, old |-> Absent, new |-> v]
  OBVIOUS
<1>2. a \in Action /\ a.row = e /\ a.old = Absent
  BY <1>1 DEF Action, Row, Contents, Values
<1>0. PICK S \in SUBSET Action, gone \in SUBSET Pair : S = {a} /\ gone = {}
  BY <1>2
<1>3. Grows(c, S)
  BY <1>0, <1>1, <1>2, LoggedGrows, SingletonRecord DEF Create, Record
<1>4. Fresh(e)
  <2>1. log \in Seq(TransactionRecord) /\ DOMAIN log = 1 .. Len(log)
    BY ToSetProperties DEF UndoTypes
  <2> QED
    BY <2>1 DEF Create, Fresh, ActionsOf, ToSet
<1>5. /\ now' = [r \in Row |-> IF r \in gone THEN Absent ELSE now[r]]
      /\ owner' = [r \in Row |-> IF r \in gone THEN c ELSE owner[r]]
      /\ UNCHANGED <<committed, history, undo>>
  BY <1>0 DEF Create, database, UndoTypes
<1>6. phase[c] \in {"idle", "open"} /\ statement[c] = None /\ Execute(c, a)
  BY <1>1 DEF Create, Editing
<1>7. ASSUME NEW f \in Eid, Touches(a, f) PROVE f = e
  BY <1>2, <1>7, EidsAssumption DEF Touches, PairsOf
<1>8. \A x \in S, f \in Eid : Touches(x, f) =>
        \/ Exists(c, f)
        \/ IsCreation(x) /\ x.row = f
        \/ \E p \in gone : f \in {p[1], p[2]}
  BY <1>0, <1>2, <1>7 DEF IsCreation
<1>9. \A x \in S : IsCreation(x) => Fresh(x.row)
  BY <1>0, <1>2, <1>4
<1>10. Recording(c, a, S, gone)
  <2>1. Appends(c, S)
    BY <1>0, <1>1, <1>2, LoggedAppends, SingletonRecord DEF Create, Record
  <2>2. a.row \notin Pair /\ Changes(a)
    BY <1>1, <1>2, EidsAssumption, ValuesAssumption DEF Changes, Values
  <2> QED
    BY <1>0, <2>1, <2>2 DEF Recording, Unlinking, PairAction
<1> QED
  BY <1>0, <1>2, <1>3, <1>5, <1>6, <1>8, <1>9, <1>10 DEF EditStep

\* So is updating it.
LEMMA UpdateIsEdit ==
  ASSUME UndoTypes, RecordsInv, NEW c \in Cnx, NEW e \in Eid, NEW v \in Values(e),
         Update(c, e, v)
  PROVE  EditStep(c)
<1>1. PICK a : a = [row |-> e, old |-> Seen(c, e), new |-> v]
  OBVIOUS
<1>2. a \in Action /\ a.row = e /\ a.old = Seen(c, e)
  BY <1>1 DEF Action, Row, Contents, Values, Seen, UndoTypes
<1>0. PICK S \in SUBSET Action, gone \in SUBSET Pair : S = {a} /\ gone = {}
  BY <1>2
<1>3. Grows(c, S)
  BY <1>0, <1>1, <1>2, LoggedGrows, SingletonRecord DEF Update, Record
<1>4. Exists(c, e) /\ ~IsCreation(a)
  BY <1>2 DEF Update, Exists, IsCreation
<1>5. /\ now' = [r \in Row |-> IF r \in gone THEN Absent ELSE now[r]]
      /\ owner' = [r \in Row |-> IF r \in gone THEN c ELSE owner[r]]
      /\ UNCHANGED <<committed, history, undo>>
  BY <1>0 DEF Update, database, UndoTypes
<1>6. phase[c] \in {"idle", "open"} /\ statement[c] = None /\ Execute(c, a)
  BY <1>1 DEF Update, Editing
<1>7. ASSUME NEW f \in Eid, Touches(a, f) PROVE f = e
  BY <1>2, <1>7, EidsAssumption DEF Touches, PairsOf
<1>8. \A x \in S, f \in Eid : Touches(x, f) =>
        \/ Exists(c, f)
        \/ IsCreation(x) /\ x.row = f
        \/ \E p \in gone : f \in {p[1], p[2]}
  BY <1>0, <1>4, <1>7
<1>9. \A x \in S : IsCreation(x) => Fresh(x.row)
  BY <1>0, <1>4
<1>10. Recording(c, a, S, gone)
  <2>1. Appends(c, S)
    BY <1>0, <1>1, <1>2, LoggedAppends, SingletonRecord DEF Update, Record
  <2>2. a.row \notin Pair /\ Changes(a)
    BY <1>1, <1>2, EidsAssumption, ValuesAssumption DEF Update, Exists, Changes
  <2> QED
    BY <1>0, <2>1, <2>2 DEF Recording, Unlinking, PairAction
<1> QED
  BY <1>0, <1>2, <1>3, <1>5, <1>6, <1>8, <1>9, <1>10 DEF EditStep

\* Recorded deletions of pairs touch the ends of these pairs only.
LEMMA UnlinkingTouches ==
  ASSUME NEW gone \in SUBSET Pair, NEW x \in Unlinking(gone)
  PROVE  /\ ~IsCreation(x)
         /\ \A e \in Eid : Touches(x, e) => \E p \in gone : e \in {p[1], p[2]}
<1>1. PICK p \in gone : x = [row |-> p, old |-> Linked, new |-> Absent]
  BY DEF Unlinking
<1>2. x.row = p /\ x.row \notin Eid
  BY <1>1, EidsAssumption
<1> QED
  BY <1>2 DEF Touches, PairsOf, IsCreation

\* So is deleting it, with the pairs it is in.
LEMMA DeleteIsEdit ==
  ASSUME UndoTypes, RecordsInv, NEW c \in Cnx, NEW e \in Eid, Delete(c, e)
  PROVE  EditStep(c)
<1>1. PICK a : a = [row |-> e, old |-> Seen(c, e), new |-> Absent]
  OBVIOUS
<1>2. a \in Action /\ a.row = e /\ a.old = Seen(c, e)
  BY <1>1 DEF Action, Row, Contents, Seen, UndoTypes
<1>3. PICK gone \in SUBSET Pair : gone = {p \in PairsOf(e) : Exists(c, p)}
  BY DEF PairsOf
<1>4. Exists(c, e) /\ ~IsCreation(a)
  BY <1>2 DEF Delete, Exists, IsCreation
<1>5. /\ \A p \in gone : Mine(c, p) /\ Exists(c, p)
      /\ now' = [r \in Row |-> IF r \in gone THEN Absent ELSE now[r]]
      /\ owner' = [r \in Row |-> IF r \in gone THEN c ELSE owner[r]]
      /\ UNCHANGED <<committed, history, undo>>
  BY <1>3 DEF Delete
<1>6. phase[c] \in {"idle", "open"} /\ statement[c] = None /\ Execute(c, a)
  BY <1>1 DEF Delete, Editing
<1>7. PICK as : as = SetToSeq(Unlinking(gone)) \o <<a>>
  OBVIOUS
<1>8. Logged(c, as)
  BY <1>1, <1>3, <1>7 DEF Delete, Record, Unlinking
<1>9. as \in Seq(Action) /\ ToSet(as) = Unlinking(gone) \cup {a}
  BY <1>2, <1>7, DeletionRecord
<1>10. Grows(c, ToSet(as)) /\ ToSet(as) \subseteq Action
  BY <1>8, <1>9, LoggedGrows, ToSetProperties
<1>11. ASSUME NEW f \in Eid, Touches(a, f) PROVE f = e
  BY <1>2, <1>11, EidsAssumption DEF Touches, PairsOf
<1>12. \A x \in ToSet(as), f \in Eid : Touches(x, f) =>
        \/ Exists(c, f)
        \/ IsCreation(x) /\ x.row = f
        \/ \E p \in gone : f \in {p[1], p[2]}
  BY <1>4, <1>9, <1>11, UnlinkingTouches
<1>13. \A x \in ToSet(as) : IsCreation(x) => Fresh(x.row)
  BY <1>4, <1>9, UnlinkingTouches
<1>14. Recording(c, a, ToSet(as), gone)
  <2>1. Appends(c, ToSet(as))
    BY <1>8, <1>9, LoggedAppends
  <2>2. a.row \notin gone /\ PairAction(a) /\ Changes(a)
    BY <1>2, <1>4, EidsAssumption DEF PairAction, Changes, Exists
  <2> QED
    BY <1>9, <2>1, <2>2 DEF Recording
<1> QED
  BY <1>2, <1>5, <1>6, <1>9, <1>10, <1>12, <1>13, <1>14 DEF EditStep

\* So is adding a relation, which may delete another pair first.
LEMMA RelateIsEdit ==
  ASSUME UndoTypes, RecordsInv, NEW c \in Cnx, NEW q \in Pair, Relate(c, q)
  PROVE  EditStep(c)
<1>1. PICK a : a = [row |-> q, old |-> Absent, new |-> Linked]
  OBVIOUS
<1>2. a \in Action /\ a.row = q /\ ~IsCreation(a)
  BY <1>1, EidsAssumption DEF Action, Row, Contents, IsCreation
<1>3. PICK gone \in SUBSET Pair : gone = {p \in Pair : p[1] = q[1] /\ Exists(c, p)}
  OBVIOUS
<1>4. Exists(c, q[1]) /\ Exists(c, q[2])
  BY DEF Relate
<1>5. /\ \A p \in gone : Mine(c, p) /\ Exists(c, p)
      /\ now' = [r \in Row |-> IF r \in gone THEN Absent ELSE now[r]]
      /\ owner' = [r \in Row |-> IF r \in gone THEN c ELSE owner[r]]
      /\ UNCHANGED <<committed, history, undo>>
  BY <1>3 DEF Relate
<1>6. phase[c] \in {"idle", "open"} /\ statement[c] = None /\ Execute(c, a)
  BY <1>1 DEF Relate, Editing
<1>7. PICK as : as = SetToSeq(Unlinking(gone)) \o <<a>>
  OBVIOUS
<1>8. Logged(c, as)
  BY <1>1, <1>3, <1>7 DEF Relate, Record, Unlinking
<1>9. as \in Seq(Action) /\ ToSet(as) = Unlinking(gone) \cup {a}
  BY <1>2, <1>7, DeletionRecord
<1>10. Grows(c, ToSet(as)) /\ ToSet(as) \subseteq Action
  BY <1>8, <1>9, LoggedGrows, ToSetProperties
<1>11. ASSUME NEW f \in Eid, Touches(a, f) PROVE f \in {q[1], q[2]}
  BY <1>2, <1>11, EidsAssumption DEF Touches, PairsOf
<1>12. \A x \in ToSet(as), f \in Eid : Touches(x, f) =>
        \/ Exists(c, f)
        \/ IsCreation(x) /\ x.row = f
        \/ \E p \in gone : f \in {p[1], p[2]}
  BY <1>4, <1>9, <1>11, UnlinkingTouches
<1>13. \A x \in ToSet(as) : IsCreation(x) => Fresh(x.row)
  BY <1>2, <1>9, UnlinkingTouches
<1>14. Recording(c, a, ToSet(as), gone)
  <2>1. Appends(c, ToSet(as))
    BY <1>8, <1>9, LoggedAppends
  <2>2. a.row \notin gone /\ PairAction(a) /\ Changes(a)
    BY <1>1, <1>3, ValuesAssumption DEF Relate, PairAction, Changes
  <2> QED
    BY <1>9, <2>1, <2>2 DEF Recording
<1> QED
  BY <1>2, <1>5, <1>6, <1>9, <1>10, <1>12, <1>13, <1>14 DEF EditStep

--------------------------------------------------------------------------------
\* The types and the place of each record.

\* Types and records together.
TypeInv == UndoTypes /\ RecordsInv

\* At first no transaction is recorded.
LEMMA TypesAtFirst ==
  Init => TypeInv
<1> SUFFICES ASSUME Init PROVE TypeInv
  OBVIOUS
<1>1. ASSUME NEW r \in Row, r \in Existing PROVE (CHOOSE v \in Values(r) : TRUE) \in Contents
  <2>1. \E v \in Values(r) : TRUE
    BY ValuesAssumption DEF Values
  <2> QED
    BY <2>1 DEF Values, Contents
<1>2. now \in [Row -> Contents]
  BY <1>1 DEF Init, Contents
<1>3. UndoTypes
  <2>1. /\ committed \in [Row -> Contents] /\ owner \in [Row -> Cnx \cup {Nobody}]
        /\ log \in Seq(TransactionRecord) /\ phase \in [Cnx -> Phases]
        /\ tx \in [Cnx -> Nat] /\ target \in [Cnx -> Nat]
        /\ statement \in [Cnx -> Action \cup {None}]
    BY <1>2 DEF Init, Phases
  <2>2. /\ script \in [Cnx -> Seq(Action)]
        /\ reported \in [Cnx -> SUBSET Row] /\ overtaken \in [Cnx -> SUBSET Row]
        /\ missed \in [Cnx -> SUBSET Eid]
    BY DEF Init
  <2>3. DOMAIN unborn \subseteq Eid /\ unborn \in [DOMAIN unborn -> Nat]
    BY DEF Init
  <2> QED
    BY <1>2, <2>1, <2>2, <2>3 DEF UndoTypes
<1>4. \A r \in Row : owner[r] = Nobody
  BY DEF Init
<1>5. RecordsInv
  BY <1>4, UndoNobodyAssumption DEF Init, RecordsInv
<1> QED
  BY <1>3, <1>5 DEF TypeInv

\* The record that c starts or continues is not that of another connection, nor is it
\* being undone.

\* The record that grows is neither another connection's nor one being undone.
LEMMA GrowsApart ==
  ASSUME TypeInv, NEW c \in Cnx, NEW S, Grows(c, S), NEW d \in Cnx
  PROVE  /\ d # c /\ tx[d] # 0 => tx[d] # tx'[c] /\ log'[tx[d]] = log[tx[d]]
         /\ target[d] # 0 => target[d] # tx'[c] /\ log'[target[d]] = log[target[d]]
         /\ d # c => tx'[d] = tx[d]
         /\ tx'[c] # 0
<1>1. PICK D, E : /\ D = 1 .. Len(log) /\ E = 1 .. Len(log') /\ 0 \notin E
  OBVIOUS
<1>2. PICK u \in E : u = tx'[c]
  BY <1>1 DEF Grows
<1>3. u # 0 /\ \A t \in D : t # u => log'[t] = log[t]
  BY <1>1, <1>2 DEF Grows
<1>4. ASSUME d # c, tx[d] # 0 PROVE tx[d] # u /\ tx[d] \in D
  <2>1. tx[d] \in D
    BY <1>1, <1>4 DEF TypeInv, RecordsInv
  <2>2. CASE tx[c] = 0
    BY <1>1, <1>2, <2>1, <2>2 DEF Grows
  <2>3. CASE tx[c] # 0
    BY <1>2, <1>4, <2>1, <2>3 DEF Grows, TypeInv, RecordsInv
  <2> QED
    BY <2>1, <2>2, <2>3
<1>5. ASSUME target[d] # 0 PROVE target[d] # u /\ target[d] \in D
  <2>1. target[d] \in D /\ log[target[d]].status # "open"
    BY <1>1, <1>5 DEF TypeInv, RecordsInv
  <2>2. CASE tx[c] = 0
    BY <1>1, <1>2, <2>1, <2>2 DEF Grows
  <2>3. CASE tx[c] # 0
    BY <1>2, <2>1, <2>3 DEF Grows, TypeInv, RecordsInv
  <2> QED
    BY <2>1, <2>2, <2>3
<1> QED
  BY <1>2, <1>3, <1>4, <1>5 DEF Grows

\* When the record of c grows, each record keeps its place.
LEMMA GrowsKeepsRecords ==
  ASSUME TypeInv, NEW c \in Cnx, NEW S, Grows(c, S), target[c] = 0, target' = target,
         phase' \in [Cnx -> Phases], phase'[c] = "open",
         \A d \in Cnx : d # c => phase'[d] = phase[d] /\ statement'[d] = statement[d],
         \A r \in Row : owner'[r] \in {owner[r], c}
  PROVE  RecordsInv'
<1>1. tx' \in [Cnx -> Nat] /\ 1 .. Len(log) \subseteq 1 .. Len(log')
  BY DEF Grows, TypeInv, UndoTypes
<1>2. ASSUME NEW d \in Cnx, d # c, tx[d] # 0
      PROVE  /\ tx[d] # tx'[c] /\ tx[d] \in 1 .. Len(log') /\ log'[tx[d]].status = "open"
             /\ phase[d] \in {"open", "failed"}
  BY <1>1, <1>2, GrowsApart DEF TypeInv, RecordsInv
<1>3. ASSUME NEW d \in Cnx, target[d] # 0
      PROVE  /\ target[d] \in 1 .. Len(log') /\ log'[target[d]].status # "open"
             /\ d # c /\ tx[d] = 0 /\ phase[d] \in {"undoing", "raised", "failed"}
  BY <1>1, <1>3, GrowsApart DEF TypeInv, RecordsInv
<1>4. /\ tx'[c] # 0 /\ tx'[c] \in 1 .. Len(log') /\ log'[tx'[c]].status = "open"
      /\ \A d \in Cnx : d # c => tx'[d] = tx[d]
  BY GrowsApart DEF Grows
<1>5. ASSUME NEW d \in Cnx, tx'[d] = tx'[c] PROVE d = c
  BY <1>2, <1>4, <1>5
<1>6. ASSUME NEW d \in Cnx, NEW b \in Cnx, tx'[d] # 0, tx'[b] = tx'[d] PROVE d = b
  BY <1>4, <1>5, <1>6 DEF TypeInv, RecordsInv
<1>7. ASSUME NEW d \in Cnx, tx'[d] # 0
      PROVE  /\ tx'[d] \in 1 .. Len(log') /\ log'[tx'[d]].status = "open"
             /\ phase'[d] \in {"open", "failed"}
  BY <1>2, <1>4, <1>7
<1>8. ASSUME NEW d \in Cnx, target'[d] # 0
      PROVE  /\ target'[d] \in 1 .. Len(log') /\ log'[target'[d]].status # "open"
             /\ tx'[d] = 0 /\ phase'[d] \in {"undoing", "raised", "failed"}
  BY <1>3, <1>4, <1>8
<1>9. ASSUME NEW d \in Cnx
      PROVE  /\ phase'[d] \in {"undoing", "raised"} => target'[d] # 0
             /\ phase'[d] = "idle" => tx'[d] = 0 /\ \A r \in Row : owner'[r] # d
             /\ phase'[d] \in {"idle", "raised", "failed"} => statement'[d] = None
  <2>1. CASE d = c
    BY <2>1
  <2>2. CASE d # c
    BY <2>2, <1>4 DEF TypeInv, RecordsInv
  <2> QED
    BY <2>1, <2>2
<1> QED
  BY <1>6, <1>7, <1>8, <1>9 DEF RecordsInv

\* The types after an edition,
LEMMA EditTypes ==
  ASSUME TypeInv, NEW c \in Cnx, EditStep(c)
  PROVE  TypeInv'
<1>1. PICK a \in Action, S \in SUBSET Action, gone \in SUBSET Pair :
        /\ phase[c] \in {"idle", "open"} /\ statement[c] = None
        /\ Grows(c, S) /\ Execute(c, a)
        /\ now' = [r \in Row |-> IF r \in gone THEN Absent ELSE now[r]]
        /\ owner' = [r \in Row |-> IF r \in gone THEN c ELSE owner[r]]
        /\ UNCHANGED <<committed, history, undo>>
  BY DEF EditStep
<1>2. now' \in [Row -> Contents] /\ owner' \in [Row -> Cnx \cup {Nobody}]
  BY <1>1 DEF TypeInv, UndoTypes, Contents
<1>3. log' \in Seq(TransactionRecord) /\ tx' \in [Cnx -> Nat]
  BY <1>1 DEF Grows, TypeInv, UndoTypes
<1>4. /\ phase' \in [Cnx -> Phases] /\ statement' \in [Cnx -> Action \cup {None}]
      /\ phase'[c] = "open"
      /\ \A d \in Cnx : d # c => phase'[d] = phase[d] /\ statement'[d] = statement[d]
  BY <1>1 DEF Execute, TypeInv, UndoTypes, Phases
<1>5. /\ UNCHANGED <<committed, target, script, reported, overtaken, missed, unborn>>
  BY <1>1 DEF history, undo
<1>6. UndoTypes'
  BY <1>2, <1>3, <1>4, <1>5 DEF TypeInv, UndoTypes
<1>7. target[c] = 0
  BY <1>1 DEF TypeInv, RecordsInv
<1>8. RecordsInv'
  BY <1>1, <1>4, <1>5, <1>7, GrowsKeepsRecords
<1> QED
  BY <1>6, <1>8 DEF TypeInv

\* after the preparation of a deletion,
LEMMA UnrelateTypes ==
  ASSUME TypeInv, NEW c \in Cnx, NEW p \in Pair, Unrelate(c, p)
  PROVE  TypeInv'
<1>1. [row |-> p, old |-> Linked, new |-> Absent] \in Action
  BY DEF Action, Row, Contents
<1>2. UndoTypes'
  BY <1>1 DEF Unrelate, Execute, TypeInv, UndoTypes, Phases, history, database, undo
<1>3. RecordsInv'
  BY DEF Unrelate, Editing, Execute, TypeInv, UndoTypes, RecordsInv, history, database, undo
<1> QED
  BY <1>2, <1>3 DEF TypeInv

\* The two ways a statement may be recorded, or not, by its execution.
LEMMA LateRecord ==
  ASSUME TypeInv, NEW c \in Cnx, Write(c)
  PROVE  \/ /\ UNCHANGED <<log, tx>>
            /\ ~(target[c] = 0 /\ statement[c].row \in Pair /\ statement[c].new = Absent)
         \/ /\ target[c] = 0 /\ phase[c] = "open"
            /\ Grows(c, {statement[c]}) /\ Appends(c, {statement[c]})
            /\ statement[c].row \in Pair
<1>1. CASE target[c] = 0 /\ statement[c].row \in Pair /\ statement[c].new = Absent
  <2>1. statement[c] \in Action /\ statement[c] # None
    BY DEF Write, TypeInv, UndoTypes
  <2>2. Logged(c, <<statement[c]>>)
    BY <1>1 DEF Write, RecordLate, Record
  <2>3. Grows(c, {statement[c]}) /\ Appends(c, {statement[c]})
    BY <2>1, <2>2, SingletonRecord, LoggedGrows, LoggedAppends DEF TypeInv
  <2>4. phase[c] = "open"
    BY <1>1, <2>1 DEF TypeInv, UndoTypes, RecordsInv, Phases
  <2> QED
    BY <1>1, <2>3, <2>4
<1> QED
  BY <1>1 DEF Write, RecordLate

\* after the execution of a statement,
LEMMA WriteTypes ==
  ASSUME TypeInv, NEW c \in Cnx, Write(c)
  PROVE  TypeInv'
<1>1. PICK s \in Action : s = statement[c]
  BY DEF Write, TypeInv, UndoTypes
<1>2. PICK v \in Contents : now' = [now EXCEPT ![s.row] = v]
  BY <1>1 DEF Write, Action, Contents
<1>3. s.row \in Row
  BY DEF Action
<1>4. /\ now' \in [Row -> Contents] /\ owner' \in [Row -> Cnx \cup {Nobody}]
      /\ \A r \in Row : owner'[r] \in {owner[r], c}
  BY <1>1, <1>2, <1>3 DEF Write, TypeInv, UndoTypes
<1>5. overtaken' \in [Cnx -> SUBSET Row]
  BY <1>1, <1>3 DEF Write, TypeInv, UndoTypes
<1>6. /\ statement' \in [Cnx -> Action \cup {None}]
      /\ UNCHANGED <<committed, phase, unborn, missed, target, script, reported>>
      /\ \A d \in Cnx : d # c => statement'[d] = statement[d]
      /\ statement'[c] = None
  BY DEF Write, TypeInv, UndoTypes, undo
<1>7. log' \in Seq(TransactionRecord) /\ tx' \in [Cnx -> Nat]
  BY LateRecord DEF TypeInv, UndoTypes, Grows
<1>8. UndoTypes'
  BY <1>4, <1>5, <1>6, <1>7 DEF TypeInv, UndoTypes
<1>9. RecordsInv'
  <2>1. CASE target[c] = 0 /\ phase[c] = "open" /\ Grows(c, {statement[c]})
    BY <2>1, <1>4, <1>6, GrowsKeepsRecords DEF TypeInv, UndoTypes
  <2>2. CASE UNCHANGED <<log, tx>>
    <3>1. phase[c] # "idle"
      BY <1>1, StatementAssumption DEF TypeInv, RecordsInv
    <3> QED
      BY <2>2, <3>1, <1>4, <1>6 DEF TypeInv, RecordsInv
  <2> QED
    BY <2>1, <2>2, LateRecord
<1> QED
  BY <1>8, <1>9 DEF TypeInv

\* after its failure,
LEMMA WriteFailsTypes ==
  ASSUME TypeInv, NEW c \in Cnx, WriteFails(c)
  PROVE  TypeInv'
<1>1. statement[c] # None
  BY DEF WriteFails
<1>2. UndoTypes'
  BY DEF WriteFails, TypeInv, UndoTypes, Phases, history, database, undo
<1>3. phase[c] \in {"open", "undoing"}
  BY <1>1 DEF TypeInv, UndoTypes, Phases, RecordsInv
<1>4. /\ UNCHANGED <<log, tx, target, owner>>
      /\ phase' = [phase EXCEPT ![c] = "failed"] /\ statement' = [statement EXCEPT ![c] = None]
  BY DEF WriteFails, undo, database
<1>5. RecordsInv'
  BY <1>3, <1>4 DEF TypeInv, UndoTypes, RecordsInv
<1> QED
  BY <1>2, <1>5 DEF TypeInv

\* A record is a sequence of actions.
LEMMA RecordedActions ==
  ASSUME TypeInv, NEW t \in 1 .. Len(log)
  PROVE  /\ log[t] \in TransactionRecord /\ log[t].actions \in Seq(Action)
         /\ ActionsOf(log, t) \subseteq Action
<1>1. log \in Seq(TransactionRecord)
  BY DEF TypeInv, UndoTypes
<1>2. log[t] \in TransactionRecord
  BY <1>1, ElementOfSeq
<1>3. log[t].actions \in Seq(Action)
  BY <1>2 DEF TransactionRecord
<1> QED
  BY <1>2, <1>3, ToSetProperties DEF ActionsOf

\* A sequence read backwards.
LEMMA ReverseProperties ==
  ASSUME NEW S, NEW s \in Seq(S)
  PROVE  /\ Reverse(s) \in Seq(S) /\ Len(Reverse(s)) = Len(s)
         /\ \A i \in 1 .. Len(s) : Reverse(s)[i] = s[Len(s) + 1 - i]
<1>1. PICK n \in Nat : n = Len(s)
  OBVIOUS
<1>2. PICK r : r = Reverse(s)
  OBVIOUS
<1>3. r = [i \in 1 .. n |-> s[(n - i) + 1]]
  BY <1>1, <1>2 DEF Reverse
<1>4. ASSUME NEW i \in 1 .. n
      PROVE  n - i + 1 \in 1 .. n /\ s[n - i + 1] \in S /\ (n - i) + 1 = n + 1 - i
  BY <1>1
<1>5. r \in [1 .. n -> S]
  BY <1>3, <1>4
<1>6. r \in Seq(S) /\ Len(r) = n
  BY <1>5
<1>7. \A i \in 1 .. n : r[i] = s[n + 1 - i]
  BY <1>3, <1>4
<1> QED
  BY <1>1, <1>2, <1>6, <1>7

\* The types after the beginning of an undo,
LEMMA UndoBeginsTypes ==
  ASSUME TypeInv, NEW c \in Cnx, NEW t \in DOMAIN log, Undo(c, t)
  PROVE  TypeInv'
<1>1. t \in 1 .. Len(log) /\ t # 0 /\ t \in Nat
  <2>1. DOMAIN log = 1 .. Len(log)
    BY ToSetProperties DEF TypeInv, UndoTypes
  <2> QED
    BY <2>1
<1>2. Reverse(log[t].actions) \in Seq(Action)
  BY <1>1, RecordedActions, ReverseProperties
<1>3. /\ UNCHANGED <<log, tx, statement, reported, history, database>>
      /\ phase[c] = "idle" /\ log[t].status = "committed"
      /\ phase' = [phase EXCEPT ![c] = "undoing"] /\ target' = [target EXCEPT ![c] = t]
      /\ script' = [script EXCEPT ![c] = Reverse(log[t].actions)]
  BY DEF Undo
<1>4. UndoTypes'
  BY <1>1, <1>2, <1>3 DEF TypeInv, UndoTypes, Phases, history, database
<1>5. RecordsInv'
  BY <1>1, <1>3 DEF TypeInv, UndoTypes, RecordsInv, database
<1> QED
  BY <1>4, <1>5 DEF TypeInv

\* The next action of a script, and what follows.
LEMMA HeadAndTail ==
  ASSUME TypeInv, NEW c \in Cnx, script[c] # <<>>
  PROVE  /\ Head(script[c]) \in Action /\ Tail(script[c]) \in Seq(Action)
         /\ Len(script[c]) \in Nat \ {0}
         /\ Head(script[c]) = script[c][1]
         /\ Len(Tail(script[c])) = Len(script[c]) - 1
         /\ \A i \in 1 .. Len(script[c]) - 1 : Tail(script[c])[i] = script[c][i + 1]
<1>1. PICK s \in Seq(Action) : s = script[c]
  BY DEF TypeInv, UndoTypes
<1>2. s # <<>>
  BY <1>1
<1>3. Len(s) \in Nat \ {0}
  BY <1>2, EmptySeq
<1>4. Head(s) \in Action /\ Tail(s) \in Seq(Action) /\ Head(s) = s[1]
  BY <1>2, PopProperties
<1>5. Len(Tail(s)) = Len(s) - 1 /\ \A i \in 1 .. Len(s) - 1 : Tail(s)[i] = s[i + 1]
  BY <1>2, <1>3
<1> QED
  BY <1>1, <1>3, <1>4, <1>5

\* and after each of its steps.
LEMMA UndoStepsTypes ==
  ASSUME TypeInv, NEW c \in Cnx, UndoReports(c) \/ UndoRaises(c) \/ UndoAction(c)
  PROVE  TypeInv'
<1>1. Head(script[c]) \in Action /\ Tail(script[c]) \in Seq(Action)
  BY HeadAndTail DEF UndoReports, UndoRaises, UndoAction
<1>2. CASE UndoReports(c)
  <2>1. UndoTypes'
    BY <1>1, <1>2 DEF UndoReports, TypeInv, UndoTypes, history, database, Action
  <2>2. RecordsInv'
    BY <1>2 DEF UndoReports, TypeInv, RecordsInv, database
  <2> QED
    BY <2>1, <2>2 DEF TypeInv
<1>3. CASE UndoRaises(c)
  <2>1. UndoTypes'
    BY <1>3 DEF UndoRaises, TypeInv, UndoTypes, history, database, undo, Phases
  <2>2. RecordsInv'
    BY <1>3 DEF UndoRaises, TypeInv, UndoTypes, RecordsInv, database, undo
  <2> QED
    BY <2>1, <2>2 DEF TypeInv
<1>4. CASE UndoAction(c)
  <2>1. PICK a \in Action : a = Head(script[c])
    BY <1>1
  <2>2. PICK v \in Contents : v = IF a.new = Absent THEN Absent ELSE Seen(c, a.row)
    BY DEF Seen, TypeInv, UndoTypes, Action, Contents
  <2>3. [row |-> a.row, new |-> a.old, old |-> v] \in Action
    BY DEF Action
  <2>4. statement' = [statement EXCEPT ![c] = [row |-> a.row, new |-> a.old, old |-> v]]
    BY <1>4, <2>1, <2>2 DEF UndoAction
  <2>5. /\ UNCHANGED <<log, phase, tx, target, reported, history, database>>
        /\ script' = [script EXCEPT ![c] = Tail(@)] /\ phase[c] = "undoing"
    BY <1>4 DEF UndoAction
  <2>6. UndoTypes'
    BY <1>1, <2>3, <2>4, <2>5 DEF TypeInv, UndoTypes, history, database
  <2>7. RecordsInv'
    BY <2>4, <2>5 DEF TypeInv, UndoTypes, RecordsInv, database
  <2> QED
    BY <2>6, <2>7 DEF TypeInv
<1> QED
  BY <1>2, <1>3, <1>4

\* The end of a transaction in the records: no record gains an action, the record of
\* c is open no more, and the others keep their place and, if open, their status.
EndsRecord(c) ==
    /\ log' \in Seq(TransactionRecord) /\ 1 .. Len(log') \subseteq 1 .. Len(log)
    /\ \A t \in 1 .. Len(log) : log[t].status # "open" => t \in 1 .. Len(log')
    /\ \A d \in Cnx : d # c /\ tx[d] # 0 =>
          tx[d] \in 1 .. Len(log') /\ log'[tx[d]] = log[tx[d]]
    /\ \A t \in 1 .. Len(log') : log'[t].status = "open" => log[t].status = "open" /\ t # tx[c]
    /\ \A t \in 1 .. Len(log') : t # tx[c] => log'[t].actions = log[t].actions

\* A commit closes the record of its transaction, or marks the one it undid, and
\* leaves all actions where they are.
LEMMA CommitEndsRecord ==
  ASSUME TypeInv, NEW c \in Cnx, Commit(c)
  PROVE  /\ EndsRecord(c) /\ Len(log') = Len(log)
         /\ \A t \in 1 .. Len(log) :
               /\ log'[t].actions = log[t].actions
               /\ log'[t].status \in {log[t].status, "committed", "gone"}
               /\ log'[t].status = "committed" => log[t].status = "committed" \/ t = tx[c]
<1>1. PICK n \in Nat : n = Len(log) /\ DOMAIN log = 1 .. n
  BY ToSetProperties DEF TypeInv, UndoTypes
<1>2. log' = [t \in 1 .. n |->
                 IF t = tx[c] THEN [log[t] EXCEPT !.status = "committed"]
                 ELSE IF t = target[c] /\ Undone(c)
                 THEN [log[t] EXCEPT !.status = "gone"]
                 ELSE log[t]]
  BY <1>1 DEF Commit
<1>3. ASSUME NEW t \in 1 .. n
      PROVE  /\ log'[t] \in TransactionRecord /\ log'[t].actions = log[t].actions
             /\ log'[t].status \in {log[t].status, "committed", "gone"}
             /\ log'[t].status = "committed" => log[t].status = "committed" \/ t = tx[c]
             /\ log'[t].status = "open" => log[t].status = "open" /\ t # tx[c]
  <2>1. log[t] \in TransactionRecord
    BY <1>1, RecordedActions
  <2>2. log[t].status \in Status
    BY <2>1 DEF TransactionRecord
  <2> QED
    BY <1>2, <2>1, <2>2 DEF TransactionRecord, Status
<1>4. log' \in [1 .. n -> TransactionRecord]
  BY <1>2, <1>3
<1>5. log' \in Seq(TransactionRecord) /\ Len(log') = n
  BY <1>4
<1>6. ASSUME NEW d \in Cnx, d # c, tx[d] # 0
      PROVE  tx[d] \in 1 .. n /\ log'[tx[d]] = log[tx[d]]
  <2>1. tx[d] \in 1 .. n /\ log[tx[d]].status = "open" /\ tx[d] # tx[c]
    BY <1>1, <1>6 DEF TypeInv, RecordsInv
  <2>2. target[c] # 0 => log[target[c]].status # "open"
    BY DEF TypeInv, RecordsInv
  <2>3. tx[d] # target[c]
    BY <1>6, <2>1, <2>2
  <2> QED
    BY <1>2, <2>1, <2>3
<1> QED
  BY <1>1, <1>3, <1>5, <1>6 DEF EndsRecord

\* A rollback empties the record of its transaction.
LEMMA RollbackEndsRecord ==
  ASSUME TypeInv, NEW c \in Cnx, Rollback(c)
  PROVE  /\ EndsRecord(c)
         /\ \A t \in 1 .. Len(log') :
               \/ log'[t] = log[t]
               \/ log'[t].actions = <<>> /\ log'[t].status # "committed"
<1>1. PICK n \in Nat : n = Len(log) /\ DOMAIN log = 1 .. n
  BY ToSetProperties DEF TypeInv, UndoTypes
<1>2. log \in Seq(TransactionRecord)
  BY DEF TypeInv, UndoTypes
<1>3. ASSUME NEW d \in Cnx, d # c, tx[d] # 0
      PROVE  tx[d] \in 1 .. n /\ tx[d] # tx[c]
  BY <1>1, <1>3 DEF TypeInv, RecordsInv
<1>4. CASE tx[c] = 0
  BY <1>1, <1>2, <1>3, <1>4 DEF Rollback, EndsRecord
<1>5. CASE tx[c] # 0 /\ tx[c] = Len(log)
  <2>1. n \in 1 .. n /\ log[n].status = "open"
    BY <1>1, <1>5 DEF TypeInv, RecordsInv
  <2>2. log' = Front(log)
    BY <1>5 DEF Rollback
  <2>3. \A i \in 1 .. n - 1 : log[i] \in TransactionRecord
    BY <1>1, <1>2, ElementOfSeq
  <2>4. /\ log' \in Seq(TransactionRecord) /\ Len(log') = n - 1
        /\ \A i \in 1 .. n - 1 : log'[i] = log[i]
    <3>1. log' = SubSeq(log, 1, n - 1)
      BY <1>1, <2>2 DEF Front
    <3>2. 1 <= n - 1 \/ n - 1 = 0
      BY <2>1
    <3>3. /\ SubSeq(log, 1, n - 1) \in Seq(TransactionRecord)
          /\ Len(SubSeq(log, 1, n - 1)) = IF 1 <= n - 1 THEN (n - 1) - 1 + 1 ELSE 0
          /\ \A i \in 1 .. (n - 1) - 1 + 1 : SubSeq(log, 1, n - 1)[i] = log[1 + i - 1]
      BY <2>3, SubSeqProperties
    <3> QED
      BY <2>1, <3>1, <3>2, <3>3
  <2>5. \A t \in 1 .. n : t = n \/ t \in 1 .. n - 1
    OBVIOUS
  <2>6. 1 .. n - 1 \subseteq 1 .. n /\ n \notin 1 .. n - 1
    OBVIOUS
  <2> QED
    BY <1>1, <1>3, <1>5, <2>1, <2>4, <2>5, <2>6 DEF EndsRecord
<1>6. CASE tx[c] # 0 /\ tx[c] # Len(log)
  <2>1. PICK t \in 1 .. n : t = tx[c] /\ log[t].status = "open"
    BY <1>1, <1>6 DEF TypeInv, RecordsInv
  <2>2. PICK rec : rec = [status |-> "gone", actions |-> <<>>]
    OBVIOUS
  <2>3. log' = [log EXCEPT ![t] = rec]
    BY <1>6, <2>1, <2>2 DEF Rollback
  <2>4. rec \in TransactionRecord /\ rec.actions = <<>> /\ rec.status = "gone"
    BY <2>2, EmptySequence DEF TransactionRecord, Status
  <2>5. /\ log' \in Seq(TransactionRecord) /\ Len(log') = n
        /\ log'[t] = rec /\ \A u \in 1 .. n : u # t => log'[u] = log[u]
    BY <1>1, <1>2, <2>1, <2>3, <2>4, ExceptSeq
  <2> QED
    BY <1>1, <1>3, <2>1, <2>4, <2>5 DEF EndsRecord
<1> QED
  BY <1>4, <1>5, <1>6

\* When c is idle again, the other records keep their place.
LEMMA EndKeepsRecords ==
  ASSUME TypeInv, NEW c \in Cnx, EndsRecord(c), Reset(c)
  PROVE  RecordsInv'
<1>1. /\ phase' = [phase EXCEPT ![c] = "idle"] /\ tx' = [tx EXCEPT ![c] = 0]
      /\ target' = [target EXCEPT ![c] = 0] /\ statement' = [statement EXCEPT ![c] = None]
      /\ owner' = [r \in Row |-> IF owner[r] = c THEN Nobody ELSE owner[r]]
  BY DEF Reset
<1>2. /\ phase'[c] = "idle" /\ tx'[c] = 0 /\ target'[c] = 0 /\ statement'[c] = None
      /\ \A d \in Cnx : d # c => /\ phase'[d] = phase[d] /\ tx'[d] = tx[d]
                                 /\ target'[d] = target[d] /\ statement'[d] = statement[d]
      /\ \A r \in Row : owner'[r] # c /\ owner'[r] \in {owner[r], Nobody}
  BY <1>1, UndoNobodyAssumption DEF TypeInv, UndoTypes
<1>3. ASSUME NEW d \in Cnx, tx'[d] # 0
      PROVE  /\ tx'[d] \in 1 .. Len(log') /\ log'[tx'[d]].status = "open"
             /\ phase'[d] \in {"open", "failed"}
             /\ \A b \in Cnx : tx'[b] = tx'[d] => d = b
  BY <1>2, <1>3 DEF EndsRecord, TypeInv, RecordsInv
<1>4. ASSUME NEW d \in Cnx, target'[d] # 0
      PROVE  /\ target'[d] \in 1 .. Len(log') /\ log'[target'[d]].status # "open"
             /\ tx'[d] = 0 /\ phase'[d] \in {"undoing", "raised", "failed"}
  BY <1>2, <1>4 DEF EndsRecord, TypeInv, RecordsInv
<1>5. ASSUME NEW d \in Cnx
      PROVE  /\ phase'[d] \in {"undoing", "raised"} => target'[d] # 0
             /\ phase'[d] = "idle" => tx'[d] = 0 /\ \A r \in Row : owner'[r] # d
             /\ phase'[d] \in {"idle", "raised", "failed"} => statement'[d] = None
  BY <1>2, UndoNobodyAssumption DEF TypeInv, RecordsInv
<1> QED
  BY <1>3, <1>4, <1>5 DEF RecordsInv

\* The history variables after a commit.
LEMMA CommitHistory ==
  ASSUME NEW c \in Cnx, Commit(c)
  PROVE  /\ unborn' = [e \in {x \in Vanished(c) \cup DOMAIN unborn : committed'[x] = Absent} |->
                          IF e \in Vanished(c) THEN target[c] ELSE unborn[e]]
         /\ missed' = [x \in Cnx |-> IF x = c THEN {}
                                    ELSE IF phase[x] = "idle" THEN {}
                                    ELSE missed[x] \cup Vanished(c)]
         /\ Vanished(c) \subseteq Eid
<1>1. Vanished(c) \subseteq Eid
  BY DEF Vanished, Created
<1> QED
  BY <1>1 DEF Commit, Vanished

\* The types after a commit,
LEMMA CommitTypes ==
  ASSUME TypeInv, NEW c \in Cnx, Commit(c)
  PROVE  TypeInv'
<1>1. EndsRecord(c) /\ Reset(c)
  BY CommitEndsRecord DEF Commit
<1>2. RecordsInv'
  BY <1>1, EndKeepsRecords
<1>3. now' \in [Row -> Contents] /\ committed' \in [Row -> Contents]
  BY DEF Commit, TypeInv, UndoTypes
<1>4. overtaken' \in [Cnx -> SUBSET Row]
  BY DEF Commit, TypeInv, UndoTypes
<1>5. missed' \in [Cnx -> SUBSET Eid]
  <2>1. PICK V \in SUBSET Eid : missed' = [x \in Cnx |-> IF x = c THEN {}
                                                ELSE IF phase[x] = "idle" THEN {}
                                                ELSE missed[x] \cup V]
    BY CommitHistory
  <2> QED
    BY <2>1 DEF TypeInv, UndoTypes
<1>6. DOMAIN unborn' \subseteq Eid /\ unborn' \in [DOMAIN unborn' -> Nat]
  <2>1. PICK V \in SUBSET Eid, D \in SUBSET Eid :
           /\ D \subseteq V \cup DOMAIN unborn
           /\ unborn' = [e \in D |-> IF e \in V THEN target[c] ELSE unborn[e]]
    <3>1. /\ unborn' = [e \in {x \in Vanished(c) \cup DOMAIN unborn : committed'[x] = Absent} |->
                          IF e \in Vanished(c) THEN target[c] ELSE unborn[e]]
          /\ Vanished(c) \subseteq Eid
      BY CommitHistory
    <3>2. {x \in Vanished(c) \cup DOMAIN unborn : committed'[x] = Absent}
             \in SUBSET (Vanished(c) \cup DOMAIN unborn)
      OBVIOUS
    <3> QED
      BY <3>1, <3>2 DEF TypeInv, UndoTypes
  <2> QED
    BY <2>1 DEF TypeInv, UndoTypes
<1>7. /\ phase' \in [Cnx -> Phases] /\ tx' \in [Cnx -> Nat] /\ target' \in [Cnx -> Nat]
      /\ statement' \in [Cnx -> Action \cup {None}] /\ reported' \in [Cnx -> SUBSET Row]
      /\ owner' \in [Row -> Cnx \cup {Nobody}]
  BY <1>1 DEF Reset, TypeInv, UndoTypes, Phases
<1>8. script' \in [Cnx -> Seq(Action)]
  BY <1>1, EmptySequence DEF Reset, TypeInv, UndoTypes
<1>9. log' \in Seq(TransactionRecord)
  BY <1>1 DEF EndsRecord
<1>10. UndoTypes'
  BY <1>3, <1>4, <1>5, <1>6, <1>7, <1>8, <1>9 DEF UndoTypes
<1> QED
  BY <1>2, <1>10 DEF TypeInv

\* after a rollback,
LEMMA RollbackTypes ==
  ASSUME TypeInv, NEW c \in Cnx, Rollback(c)
  PROVE  TypeInv'
<1>1. EndsRecord(c) /\ Reset(c)
  BY RollbackEndsRecord DEF Rollback
<1>2. RecordsInv'
  BY <1>1, EndKeepsRecords
<1>3. now' \in [Row -> Contents] /\ committed' \in [Row -> Contents]
  BY DEF Rollback, Restored, TypeInv, UndoTypes
<1>4. /\ overtaken' \in [Cnx -> SUBSET Row] /\ missed' \in [Cnx -> SUBSET Eid]
      /\ unborn' = unborn
  BY DEF Rollback, TypeInv, UndoTypes
<1>7. /\ phase' \in [Cnx -> Phases] /\ tx' \in [Cnx -> Nat] /\ target' \in [Cnx -> Nat]
      /\ statement' \in [Cnx -> Action \cup {None}] /\ reported' \in [Cnx -> SUBSET Row]
      /\ owner' \in [Row -> Cnx \cup {Nobody}]
  BY <1>1 DEF Reset, TypeInv, UndoTypes, Phases
<1>8. script' \in [Cnx -> Seq(Action)]
  BY <1>1, EmptySequence DEF Reset, TypeInv, UndoTypes
<1>9. log' \in Seq(TransactionRecord)
  BY <1>1 DEF EndsRecord
<1>10. UndoTypes'
  BY <1>3, <1>4, <1>7, <1>8, <1>9 DEF TypeInv, UndoTypes
<1> QED
  BY <1>2, <1>10 DEF TypeInv

\* The cleanup forgets committed transactions, not what they did.
LEMMA CleanupForgets ==
  ASSUME TypeInv, NEW t \in DOMAIN log, Cleanup(t)
  PROVE  /\ log' \in Seq(TransactionRecord) /\ Len(log') = Len(log)
         /\ \A u \in 1 .. Len(log) :
               /\ log'[u].actions = log[u].actions
               /\ log'[u] = log[u] \/ (log[u].status = "committed" /\ log'[u].status = "gone")
<1>1. PICK n \in Nat : n = Len(log) /\ DOMAIN log = 1 .. n
  BY ToSetProperties DEF TypeInv, UndoTypes
<1>2. log' = [u \in 1 .. n |-> IF u < t /\ log[u].status = "committed"
                               THEN [log[u] EXCEPT !.status = "gone"] ELSE log[u]]
  BY <1>1 DEF Cleanup
<1>3. ASSUME NEW u \in 1 .. n
      PROVE  /\ log'[u] \in TransactionRecord /\ log'[u].actions = log[u].actions
             /\ log'[u] = log[u] \/ (log[u].status = "committed" /\ log'[u].status = "gone")
  <2>1. log[u] \in TransactionRecord
    BY <1>1, RecordedActions
  <2> QED
    BY <1>2, <2>1 DEF TransactionRecord, Status
<1>4. log' \in [1 .. n -> TransactionRecord]
  BY <1>2, <1>3
<1>5. log' \in Seq(TransactionRecord) /\ Len(log') = n
  BY <1>4
<1> QED
  BY <1>1, <1>3, <1>5

\* after the cleanup,
LEMMA CleanupTypes ==
  ASSUME TypeInv, NEW t \in DOMAIN log, Cleanup(t)
  PROVE  TypeInv'
<1>1. UNCHANGED <<phase, tx, statement, history, database, undo>>
  BY DEF Cleanup
<1>2. UndoTypes'
  BY <1>1, CleanupForgets DEF TypeInv, UndoTypes, history, database, undo
<1>3. \A u \in 1 .. Len(log) : log'[u].status = "open" <=> log[u].status = "open"
  BY CleanupForgets
<1>4. RecordsInv'
  BY <1>1, <1>3, CleanupForgets DEF TypeInv, RecordsInv, database, undo
<1> QED
  BY <1>2, <1>4 DEF TypeInv

\* and after no step at all.
LEMMA StutterTypes ==
  ASSUME TypeInv, UNCHANGED vars
  PROVE  TypeInv'
<1>1. UndoTypes'
  BY DEF TypeInv, UndoTypes, vars, history, database, undo
<1>2. RecordsInv'
  BY DEF TypeInv, RecordsInv, vars, history, database, undo
<1> QED
  BY <1>1, <1>2 DEF TypeInv

\* The steps of the specification, with what adding and removing have in common.
Steps ==
    \/ UNCHANGED vars
    \/ \E c \in Cnx :
        \/ EditStep(c)
        \/ \E p \in Pair : Unrelate(c, p)
        \/ Write(c) \/ WriteFails(c)
        \/ \E t \in DOMAIN log : Undo(c, t)
        \/ UndoReports(c) \/ UndoRaises(c) \/ UndoAction(c)
        \/ Commit(c) \/ Rollback(c)
    \/ \E t \in DOMAIN log : Cleanup(t)

\* Each step of the specification is one of these.
LEMMA NextSteps ==
  ASSUME TypeInv, [Next]_vars
  PROVE  Steps
<1>1. ASSUME NEW c \in Cnx, NEW e \in Eid, NEW v \in Values(e), Create(c, e, v) \/ Update(c, e, v)
      PROVE  EditStep(c)
  BY <1>1, CreateIsEdit, UpdateIsEdit DEF TypeInv
<1>2. ASSUME NEW c \in Cnx, NEW e \in Eid, Delete(c, e) PROVE EditStep(c)
  BY <1>2, DeleteIsEdit DEF TypeInv
<1>3. ASSUME NEW c \in Cnx, NEW p \in Pair, Relate(c, p) PROVE EditStep(c)
  BY <1>3, RelateIsEdit DEF TypeInv
<1>4. Exhausted => UNCHANGED vars
  BY DEF Exhausted
<1> QED
  BY <1>1, <1>2, <1>3, <1>4 DEF Next, Steps

\* Every step keeps the types and the place of each record.
LEMMA TypesStay ==
  ASSUME TypeInv, Steps
  PROVE  TypeInv'
  BY StutterTypes, EditTypes, UnrelateTypes, WriteTypes, WriteFailsTypes, UndoBeginsTypes,
     UndoStepsTypes, CommitTypes, RollbackTypes, CleanupTypes DEF Steps

\* session.py:636-650, native.py:979-998: the variables keep their types; an open record
\* belongs to one transaction, and undo_transaction() works on one that is closed.
THEOREM UndoTypesHold == Spec => []TypeInv
<1>1. TypeInv /\ [Next]_vars => TypeInv'
  BY NextSteps, TypesStay
<1> QED
  BY TypesAtFirst, <1>1, PTL DEF Spec

--------------------------------------------------------------------------------
\* The rows and the foreign keys.

\* A row nobody is writing is what was committed.
RowsInv == \A r \in Row : owner[r] = Nobody => now[r] = committed[r]

\* A relation needs its ends.
Sound(db) == \A p \in Pair : db[p] # Absent => db[p[1]] # Absent /\ db[p[2]] # Absent

\* A row that an open transaction created or deleted; two such rows bound by a foreign
\* key are of one transaction.
InFlux(r) == owner[r] # Nobody /\ Absent \in {now[r], committed[r]}
OneFlux == \A p \in Pair : \A e \in {p[1], p[2]} : InFlux(p) /\ InFlux(e) => owner[p] = owner[e]

\* The foreign keys hold in both versions of the database.
KeysInv == Sound(now) /\ Sound(committed) /\ OneFlux

\* Rows and keys together.
DatabaseInv == RowsInv /\ KeysInv

\* An effect of a statement of c: it changes rows that are free or its own, which are
\* its own then.
Moves(c) ==
    /\ committed' = committed
    /\ \A r \in Row : \/ now'[r] = now[r] /\ owner'[r] = owner[r]
                      \/ Mine(c, r) /\ owner'[r] = c

\* Writing one's own rows changes nothing in what the others see.
LEMMA MovesOnly ==
  ASSUME TypeInv, RowsInv, NEW c \in Cnx, Moves(c)
  PROVE  /\ RowsInv'
         /\ \A d \in Cnx, r \in Row : d # c => Seen(d, r)' = Seen(d, r)
<1>1. RowsInv'
  BY UndoNobodyAssumption DEF Moves, RowsInv
<1>2. ASSUME NEW d \in Cnx, NEW r \in Row, d # c PROVE Seen(d, r)' = Seen(d, r)
  <2>1. CASE now'[r] = now[r] /\ owner'[r] = owner[r]
    BY <2>1 DEF Moves, Seen, Mine
  <2>2. CASE Mine(c, r) /\ owner'[r] = c
    <3>1. Seen(d, r)' = committed[r]
      BY <1>2, <2>2, UndoNobodyAssumption DEF Moves, Seen, Mine
    <3>2. Seen(d, r) = committed[r]
      BY <1>2, <2>2, UndoNobodyAssumption DEF Seen, Mine, RowsInv
    <3> QED
      BY <3>1, <3>2
  <2> QED
    BY <2>1, <2>2 DEF Moves
<1> QED
  BY <1>1, <1>2

\* The ends of a pair are entities.
LEMMA EndsOfPairs ==
  ASSUME NEW p \in Pair
  PROVE  /\ p[1] \in Eid /\ p[2] \in Eid /\ p \in Row
         /\ p[1] \in Row /\ p[2] \in Row /\ p \notin Eid
         /\ p[1] \notin Pair /\ p[2] \notin Pair
  BY EidsAssumption DEF Pair, Eid, Row

\* What a connection sees respects the foreign keys.
LEMMA ViewIsSound ==
  ASSUME TypeInv, DatabaseInv, NEW c \in Cnx, NEW p \in Pair, NEW e \in {p[1], p[2]},
         Exists(c, p)
  PROVE  Exists(c, e)
<1>0. e \in Row /\ p \in Row
  BY EndsOfPairs
<1>1. CASE Mine(c, p)
  <2>1. now[p] # Absent /\ now[e] # Absent
    BY <1>1 DEF Exists, Seen, DatabaseInv, KeysInv, Sound
  <2>2. CASE Mine(c, e)
    BY <2>1, <2>2 DEF Exists, Seen
  <2>3. CASE ~Mine(c, e)
    <3>1. SUFFICES ASSUME committed[e] = Absent PROVE FALSE
      BY <2>3 DEF Exists, Seen
    <3>2. InFlux(e) /\ owner[e] # c
      BY <2>3, <3>1 DEF InFlux, Mine
    <3>3. committed[p] = Absent
      BY <3>1 DEF DatabaseInv, KeysInv, Sound
    <3>4. InFlux(p) /\ owner[p] = c
      BY <1>0, <1>1, <2>1, <3>3 DEF InFlux, Mine, DatabaseInv, RowsInv
    <3> QED
      BY <3>2, <3>4 DEF DatabaseInv, KeysInv, OneFlux
  <2> QED
    BY <2>2, <2>3
<1>2. CASE ~Mine(c, p)
  <2>1. committed[p] # Absent /\ committed[e] # Absent
    BY <1>2 DEF Exists, Seen, DatabaseInv, KeysInv, Sound
  <2>2. CASE ~Mine(c, e)
    BY <2>1, <2>2 DEF Exists, Seen
  <2>3. CASE Mine(c, e)
    <3>1. SUFFICES ASSUME now[e] = Absent PROVE FALSE
      BY <2>3 DEF Exists, Seen
    <3>2. InFlux(e) /\ owner[e] = c
      BY <1>0, <2>1, <2>3, <3>1 DEF InFlux, Mine, DatabaseInv, RowsInv
    <3>3. now[p] = Absent
      BY <3>1 DEF DatabaseInv, KeysInv, Sound
    <3>4. InFlux(p) /\ owner[p] # c
      BY <1>2, <3>3 DEF InFlux, Mine
    <3> QED
      BY <3>2, <3>4 DEF DatabaseInv, KeysInv, OneFlux
  <2> QED
    BY <2>2, <2>3
<1> QED
  BY <1>1, <1>2

\* At first the database is what is committed, and has no relation.
LEMMA DatabaseAtFirst ==
  Init => DatabaseInv
<1> SUFFICES ASSUME Init PROVE DatabaseInv
  OBVIOUS
<1>1. committed = now /\ \A r \in Row : owner[r] = Nobody
  BY DEF Init
<1>2. ASSUME NEW p \in Pair PROVE now[p] = Absent
  BY EndsOfPairs, EidsAssumption DEF Init
<1>3. OneFlux
  BY <1>1, EndsOfPairs DEF OneFlux, InFlux
<1> QED
  BY <1>1, <1>2, <1>3 DEF DatabaseInv, RowsInv, KeysInv, Sound

\* An edition writes one's own rows, and keeps the foreign keys,
LEMMA EditDatabase ==
  ASSUME TypeInv, DatabaseInv, NEW c \in Cnx, EditStep(c)
  PROVE  Moves(c) /\ DatabaseInv'
<1>1. PICK gone \in SUBSET Pair :
        /\ \A p \in gone : Mine(c, p) /\ Exists(c, p)
        /\ now' = [r \in Row |-> IF r \in gone THEN Absent ELSE now[r]]
        /\ owner' = [r \in Row |-> IF r \in gone THEN c ELSE owner[r]]
        /\ committed' = committed
  BY DEF EditStep
<1>2. Moves(c)
  BY <1>1 DEF Moves
<1>3. RowsInv'
  BY <1>2, MovesOnly DEF DatabaseInv
<1>4. Sound(now')
  <2>1. ASSUME NEW p \in Pair, now'[p] # Absent, NEW e \in {p[1], p[2]} PROVE now'[e] # Absent
    <3>1. now[p] # Absent /\ e \notin gone /\ e \in Row
      BY <1>1, <2>1, EndsOfPairs
    <3> QED
      BY <1>1, <3>1 DEF DatabaseInv, KeysInv, Sound
  <2> QED
    BY <2>1 DEF Sound
<1>5. OneFlux'
  <2>1. ASSUME NEW p \in Pair, NEW e \in {p[1], p[2]}, InFlux(p)', InFlux(e)'
        PROVE  owner'[p] = owner'[e]
    <3>1. e \notin gone /\ e \in Row /\ p \in Row
      BY EndsOfPairs
    <3>2. owner'[e] = owner[e] /\ now'[e] = now[e] /\ InFlux(e)
      BY <1>1, <2>1, <3>1 DEF InFlux
    <3>3. CASE p \notin gone
      BY <1>1, <2>1, <3>1, <3>2, <3>3 DEF InFlux, DatabaseInv, KeysInv, OneFlux
    <3>4. CASE p \in gone
      <4>1. now[p] # Absent /\ owner[p] \in {c, Nobody}
        BY <1>1, <3>4 DEF Exists, Seen, Mine
      <4>2. now[e] # Absent
        BY <4>1 DEF DatabaseInv, KeysInv, Sound
      <4>3. committed[e] = Absent /\ committed[p] = Absent
        BY <3>2, <4>2 DEF InFlux, DatabaseInv, KeysInv, Sound
      <4>4. InFlux(p) /\ owner[p] = c
        BY <3>1, <4>1, <4>3 DEF InFlux, DatabaseInv, RowsInv
      <4>5. owner[e] = c
        BY <3>2, <4>4 DEF DatabaseInv, KeysInv, OneFlux
      <4> QED
        BY <1>1, <3>1, <3>2, <3>4, <4>5
    <3> QED
      BY <3>3, <3>4
  <2> QED
    BY <2>1 DEF OneFlux
<1> QED
  BY <1>1, <1>2, <1>3, <1>4, <1>5 DEF DatabaseInv, KeysInv

\* What the execution of a statement does to the rows.
LEMMA WriteMoves ==
  ASSUME TypeInv, NEW c \in Cnx, Write(c)
  PROVE  \E s \in Action, v \in Contents :
            /\ s = statement[c] /\ s # None /\ s.row \in Row
            /\ v = IF now[s.row] = Absent /\ s.old # Absent THEN Absent ELSE s.new
            /\ MayWrite(c, s.row, s.new) /\ ~Violates(s)
            /\ now'[s.row] = v /\ Moves(c)
            /\ \/ v = Absent /\ now[s.row] = Absent /\ owner' = owner
               \/ owner'[s.row] = c
            /\ v = Absent /\ now[s.row] = Absent => owner' = owner
            /\ \A r \in Row : r # s.row => now'[r] = now[r] /\ owner'[r] = owner[r]
<1>1. PICK s \in Action : s = statement[c] /\ s # None
  BY DEF Write, TypeInv, UndoTypes
<1>2. PICK v \in Contents : v = IF now[s.row] = Absent /\ s.old # Absent THEN Absent ELSE s.new
  BY DEF Action, Contents
<1>3. s.row \in Row
  BY DEF Action
<1>4. /\ MayWrite(c, s.row, s.new) /\ ~Violates(s)
      /\ now' = [now EXCEPT ![s.row] = v]
      /\ owner' = IF v = now[s.row] /\ v = Absent THEN owner ELSE [owner EXCEPT ![s.row] = c]
      /\ committed' = committed
  BY <1>1, <1>2 DEF Write
<1>5. /\ now'[s.row] = v
      /\ \A r \in Row : r # s.row => now'[r] = now[r] /\ owner'[r] = owner[r]
      /\ \/ v = Absent /\ now[s.row] = Absent /\ owner' = owner
         \/ owner'[s.row] = c
      /\ v = Absent /\ now[s.row] = Absent => owner' = owner
  BY <1>3, <1>4 DEF TypeInv, UndoTypes
<1>6. Mine(c, s.row)
  BY <1>4 DEF MayWrite
<1>7. Moves(c)
  BY <1>3, <1>4, <1>5, <1>6 DEF Moves
<1> QED
  BY <1>1, <1>2, <1>3, <1>4, <1>5, <1>7

\* as does the execution of a statement, which the constraints may refuse.
LEMMA WriteDatabase ==
  ASSUME TypeInv, DatabaseInv, NEW c \in Cnx, Write(c)
  PROVE  DatabaseInv'
<1>1. PICK s \in Action, v \in Contents :
            /\ s = statement[c] /\ s # None /\ s.row \in Row
            /\ v = IF now[s.row] = Absent /\ s.old # Absent THEN Absent ELSE s.new
            /\ MayWrite(c, s.row, s.new) /\ ~Violates(s)
            /\ now'[s.row] = v /\ Moves(c)
            /\ \/ v = Absent /\ now[s.row] = Absent /\ owner' = owner
               \/ owner'[s.row] = c
            /\ \A r \in Row : r # s.row => now'[r] = now[r] /\ owner'[r] = owner[r]
  BY WriteMoves
<1>2. committed' = committed /\ RowsInv'
  BY <1>1, MovesOnly DEF Moves, DatabaseInv
<1>3. ASSUME NEW p \in Pair, now'[p] # Absent, NEW e \in {p[1], p[2]} PROVE now'[e] # Absent
  <2>1. p \in Row /\ e \in Eid /\ e \in Row /\ e # p
    BY EndsOfPairs
  <2>2. CASE p = s.row
    <3>1. s.new # Absent /\ e \in Linking(s.row)
      BY <1>1, <1>3, <2>2 DEF Linking
    <3> QED
      BY <1>1, <2>1, <2>2, <3>1 DEF Violates
  <2>3. CASE e = s.row
    <3>1. p \in PairsOf(s.row) /\ now[p] # Absent
      BY <1>1, <1>3, <2>1, <2>3 DEF PairsOf
    <3>2. now[e] # Absent
      BY <3>1 DEF DatabaseInv, KeysInv, Sound
    <3>3. s.new # Absent
      BY <1>1, <2>1, <2>3, <3>1 DEF Violates
    <3> QED
      BY <1>1, <2>3, <3>2, <3>3
  <2>4. CASE p # s.row /\ e # s.row
    BY <1>1, <1>3, <2>1, <2>4 DEF DatabaseInv, KeysInv, Sound
  <2> QED
    BY <2>2, <2>3, <2>4
\* A row bound to the one written that is in flux is of c.
<1>4. ASSUME NEW x \in Row, x # s.row, x \in Linking(s.row), InFlux(x), InFlux(s.row)',
             InFlux(s.row) => owner[x] = owner[s.row]
      PROVE  owner'[s.row] = owner'[x]
  <2>1. owner'[x] = owner[x]
    BY <1>1, <1>4
  <2>2. CASE v = Absent /\ now[s.row] = Absent /\ owner' = owner
    <3>1. InFlux(s.row)
      BY <1>1, <1>4, <2>2 DEF InFlux
    <3> QED
      BY <1>4, <2>1, <2>2, <3>1
  <2>3. CASE owner'[s.row] = c
    <3>1. CASE Absent \in {now[s.row], s.new}
      <4>1. Mine(c, x) \/ Absent \notin {now[x], committed[x]}
        BY <1>1, <1>4, <3>1 DEF MayWrite
      <4> QED
        BY <1>4, <2>1, <2>3, <4>1 DEF InFlux, Mine
    <3>2. CASE Absent \notin {now[s.row], s.new}
      <4>1. v # Absent
        BY <1>1, <3>2
      <4>2. committed[s.row] = Absent
        BY <1>1, <1>2, <1>4, <4>1 DEF InFlux
      <4>3. InFlux(s.row) /\ owner[s.row] = c
        BY <1>1, <3>2, <4>2 DEF InFlux, MayWrite, Mine, DatabaseInv, RowsInv
      <4> QED
        BY <1>4, <2>1, <2>3, <4>3
    <3> QED
      BY <3>1, <3>2
  <2> QED
    BY <1>1, <2>2, <2>3
<1>5. OneFlux'
  <2>1. ASSUME NEW p \in Pair, NEW e \in {p[1], p[2]}, InFlux(p)', InFlux(e)'
        PROVE  owner'[p] = owner'[e]
    <3>1. p \in Row /\ e \in Eid /\ e \in Row /\ e # p /\ e \notin Pair
      BY EndsOfPairs
    <3>2. InFlux(p) /\ InFlux(e) => owner[p] = owner[e]
      BY DEF DatabaseInv, KeysInv, OneFlux
    <3>3. \A r \in Row : r # s.row /\ InFlux(r)' => InFlux(r)
      BY <1>1, <1>2 DEF InFlux
    <3>4. CASE p = s.row
      <4>1. e \in Linking(s.row) /\ InFlux(e) /\ e # s.row
        BY <2>1, <3>1, <3>3, <3>4 DEF Linking
      <4>2. InFlux(s.row) => owner[e] = owner[s.row]
        BY <3>2, <3>4, <4>1
      <4>3. InFlux(s.row)'
        BY <2>1, <3>4 DEF InFlux
      <4>4. owner'[s.row] = owner'[e]
        BY <1>4, <3>1, <4>1, <4>2, <4>3
      <4> QED
        BY <3>4, <4>4
    <3>5. CASE e = s.row
      <4>1. p \in Linking(s.row) /\ InFlux(p) /\ p # s.row
        BY <2>1, <3>1, <3>3, <3>5 DEF Linking, PairsOf
      <4>2. InFlux(s.row) => owner[p] = owner[s.row]
        BY <3>2, <3>5, <4>1
      <4>3. InFlux(s.row)'
        BY <2>1, <3>5 DEF InFlux
      <4>4. owner'[s.row] = owner'[p]
        BY <1>4, <3>1, <4>1, <4>2, <4>3
      <4> QED
        BY <3>5, <4>4
    <3>6. CASE p # s.row /\ e # s.row
      BY <1>1, <2>1, <3>1, <3>2, <3>3, <3>6
    <3> QED
      BY <3>4, <3>5, <3>6
  <2> QED
    BY <2>1 DEF OneFlux
<1>6. Sound(now') /\ Sound(committed')
  BY <1>2, <1>3 DEF Sound, DatabaseInv, KeysInv
<1> QED
  BY <1>2, <1>5, <1>6 DEF DatabaseInv, KeysInv

\* A commit makes what its connection sees what is committed,
LEMMA CommitDatabase ==
  ASSUME TypeInv, DatabaseInv, NEW c \in Cnx, Commit(c)
  PROVE  /\ DatabaseInv'
         /\ \A r \in Row : committed'[r] = Seen(c, r)
<1>1. /\ committed' = [r \in Row |-> IF owner[r] = c THEN now[r] ELSE committed[r]]
      /\ owner' = [r \in Row |-> IF owner[r] = c THEN Nobody ELSE owner[r]]
      /\ now' = now
  BY DEF Commit, Reset
<1>2. \A r \in Row : committed'[r] = Seen(c, r)
  BY <1>1, UndoNobodyAssumption DEF Seen, Mine, DatabaseInv, RowsInv
<1>3. RowsInv'
  BY <1>1, UndoNobodyAssumption DEF DatabaseInv, RowsInv
<1>4. Sound(committed')
  <2>1. ASSUME NEW p \in Pair, committed'[p] # Absent, NEW e \in {p[1], p[2]}
        PROVE  committed'[e] # Absent
    <3>1. p \in Row /\ e \in Row
      BY EndsOfPairs
    <3>2. Exists(c, p)
      BY <1>2, <2>1, <3>1 DEF Exists
    <3>3. Exists(c, e)
      BY <3>2, ViewIsSound
    <3> QED
      BY <1>2, <3>1, <3>3 DEF Exists
  <2> QED
    BY <2>1 DEF Sound
<1>5. ASSUME NEW r \in Row, InFlux(r)' PROVE InFlux(r) /\ owner'[r] = owner[r]
  BY <1>1, <1>5 DEF InFlux
<1>6. OneFlux'
  <2>1. ASSUME NEW p \in Pair, NEW e \in {p[1], p[2]}, InFlux(p)', InFlux(e)'
        PROVE  owner'[p] = owner'[e]
    <3>1. p \in Row /\ e \in Row
      BY EndsOfPairs
    <3> QED
      BY <1>5, <2>1, <3>1 DEF DatabaseInv, KeysInv, OneFlux
  <2> QED
    BY <2>1 DEF OneFlux
<1> QED
  BY <1>1, <1>2, <1>3, <1>4, <1>6 DEF DatabaseInv, KeysInv

\* a rollback takes its rows back to it.
LEMMA RollbackDatabase ==
  ASSUME TypeInv, DatabaseInv, NEW c \in Cnx, Rollback(c)
  PROVE  DatabaseInv'
<1>1. /\ now' = [r \in Row |-> IF owner[r] = c THEN committed[r] ELSE now[r]]
      /\ owner' = [r \in Row |-> IF owner[r] = c THEN Nobody ELSE owner[r]]
      /\ committed' = committed
  BY DEF Rollback, Reset, Restored
<1>2. RowsInv'
  BY <1>1, UndoNobodyAssumption DEF DatabaseInv, RowsInv
<1>3. Sound(now')
  <2>1. ASSUME NEW p \in Pair, now'[p] # Absent, NEW e \in {p[1], p[2]}, now'[e] = Absent
        PROVE  FALSE
    <3>1. p \in Row /\ e \in Row
      BY EndsOfPairs
    <3>2. CASE owner[p] = c
      <4>1. committed[p] # Absent /\ committed[e] # Absent
        BY <1>1, <2>1, <3>1, <3>2 DEF DatabaseInv, KeysInv, Sound
      <4>2. owner[e] # c /\ now[e] = Absent
        BY <1>1, <2>1, <3>1, <4>1
      <4>3. InFlux(e) /\ now[p] = Absent
        BY <3>1, <4>1, <4>2 DEF InFlux, DatabaseInv, RowsInv, KeysInv, Sound
      <4>4. InFlux(p)
        BY <3>2, <4>3, UndoNobodyAssumption DEF InFlux
      <4> QED
        BY <3>2, <4>2, <4>3, <4>4 DEF DatabaseInv, KeysInv, OneFlux
    <3>3. CASE owner[p] # c
      <4>1. now[p] # Absent /\ now[e] # Absent
        BY <1>1, <2>1, <3>1, <3>3 DEF DatabaseInv, KeysInv, Sound
      <4>2. owner[e] = c /\ committed[e] = Absent
        BY <1>1, <2>1, <3>1, <4>1
      <4>3. InFlux(e) /\ committed[p] = Absent
        BY <3>1, <4>1, <4>2, UndoNobodyAssumption DEF InFlux, DatabaseInv, KeysInv, Sound
      <4>4. InFlux(p)
        BY <3>1, <4>1, <4>3 DEF InFlux, DatabaseInv, RowsInv
      <4> QED
        BY <3>3, <4>2, <4>3, <4>4 DEF DatabaseInv, KeysInv, OneFlux
    <3> QED
      BY <3>2, <3>3
  <2> QED
    BY <2>1 DEF Sound
<1>4. ASSUME NEW r \in Row, InFlux(r)' PROVE InFlux(r) /\ owner'[r] = owner[r]
  BY <1>1, <1>4 DEF InFlux
<1>5. OneFlux'
  <2>1. ASSUME NEW p \in Pair, NEW e \in {p[1], p[2]}, InFlux(p)', InFlux(e)'
        PROVE  owner'[p] = owner'[e]
    <3>1. p \in Row /\ e \in Row
      BY EndsOfPairs
    <3> QED
      BY <1>4, <2>1, <3>1 DEF DatabaseInv, KeysInv, OneFlux
  <2> QED
    BY <2>1 DEF OneFlux
<1> QED
  BY <1>1, <1>2, <1>3, <1>5 DEF DatabaseInv, KeysInv

\* The rest leaves the database alone.
LEMMA SameDatabase ==
  ASSUME DatabaseInv, UNCHANGED database
  PROVE  DatabaseInv'
  BY DEF DatabaseInv, RowsInv, KeysInv, Sound, OneFlux, InFlux, database

\* Every step keeps the rows and the foreign keys.
LEMMA DatabaseStays ==
  ASSUME TypeInv, DatabaseInv, Steps
  PROVE  DatabaseInv'
<1>1. CASE UNCHANGED vars
  BY <1>1, SameDatabase DEF vars
<1>2. ASSUME NEW c \in Cnx, NEW p \in Pair, Unrelate(c, p) PROVE DatabaseInv'
  BY <1>2, SameDatabase DEF Unrelate
<1>3. ASSUME NEW c \in Cnx, NEW t \in DOMAIN log, Undo(c, t) PROVE DatabaseInv'
  BY <1>3, SameDatabase DEF Undo
<1>4. ASSUME NEW c \in Cnx,
             WriteFails(c) \/ UndoReports(c) \/ UndoRaises(c) \/ UndoAction(c)
      PROVE  DatabaseInv'
  BY <1>4, SameDatabase DEF WriteFails, UndoReports, UndoRaises, UndoAction
<1>5. ASSUME NEW t \in DOMAIN log, Cleanup(t) PROVE DatabaseInv'
  BY <1>5, SameDatabase DEF Cleanup
<1> QED
  BY <1>1, <1>2, <1>3, <1>4, <1>5, EditDatabase, WriteDatabase, CommitDatabase,
     RollbackDatabase DEF Steps

--------------------------------------------------------------------------------
\* How far an undo has gone.

\* The actions of the record that are left to undo.
Left(c) == Len(script[c])
Recorded(c) == log[target[c]].actions

\* The script is what is left of the record, backwards.
ScriptOf(c) ==
    /\ Left(c) <= Len(Recorded(c))
    /\ \A j \in 1 .. Left(c) : script[c][j] = Recorded(c)[Left(c) + 1 - j]

\* The statement about to be executed reverses the action taken last.
Reverses(c) ==
    statement[c] # None =>
        /\ Left(c) < Len(Recorded(c))
        /\ statement[c].row = Recorded(c)[Left(c) + 1].row
        /\ statement[c].new = Recorded(c)[Left(c) + 1].old

\* Of the actions taken, i is the first on its row.
First(c, i) == \A j \in Left(c) + 1 .. i - 1 : Recorded(c)[j].row # Recorded(c)[i].row

\* The row is what it was before the action, or will be, or was reported.
Back(c, a) ==
    \/ a.row \in reported[c] \cup overtaken[c]
    \/ statement[c] # None /\ statement[c].row = a.row
    \/ Seen(c, a.row) = a.old

\* Each row went back to what it was before the first of the actions taken on it.
WentBack(c) ==
    \A i \in Left(c) + 1 .. Len(Recorded(c)) : First(c, i) => Back(c, Recorded(c)[i])

\* An undo is somewhere in its script.
UndoingOf(c) ==
    /\ phase[c] \in {"undoing", "raised"} => ScriptOf(c)
    /\ phase[c] = "undoing" => Reverses(c) /\ WentBack(c)

\* So are all.
UndoingInv == \A c \in Cnx : UndoingOf(c)

\* What another connection does leaves an undo where it is.
LEMMA UndoingKept ==
  ASSUME NEW c \in Cnx, UndoingOf(c),
         phase'[c] = phase[c], script'[c] = script[c], statement'[c] = statement[c],
         target'[c] = target[c], reported'[c] = reported[c],
         overtaken[c] \subseteq overtaken'[c],
         phase[c] \in {"undoing", "raised"} => log'[target[c]].actions = log[target[c]].actions,
         phase[c] \in {"undoing", "raised"} =>
            \A i \in 1 .. Len(Recorded(c)) : Recorded(c)[i].row \in Row,
         \A r \in Row : Seen(c, r)' = Seen(c, r) \/ r \in overtaken'[c],
         Left(c) \in Nat
  PROVE  UndoingOf(c)'
<1> SUFFICES ASSUME phase[c] \in {"undoing", "raised"} PROVE UndoingOf(c)'
  BY DEF UndoingOf
<1>1. Left(c)' = Left(c) /\ Recorded(c)' = Recorded(c)
  BY DEF Left, Recorded
<1>2. ScriptOf(c)'
  BY <1>1 DEF ScriptOf, UndoingOf
<1>3. ASSUME phase[c] = "undoing" PROVE Reverses(c)' /\ WentBack(c)'
  <2>1. Reverses(c)'
    BY <1>1, <1>3 DEF Reverses, UndoingOf
  <2>2. ASSUME NEW i \in Left(c) + 1 .. Len(Recorded(c)), First(c, i)'
        PROVE  Back(c, Recorded(c)[i])'
    <3>1. First(c, i)
      BY <1>1, <2>2 DEF First
    <3>2. Back(c, Recorded(c)[i])
      BY <1>3, <3>1 DEF UndoingOf, WentBack
    <3>3. PICK a : a = Recorded(c)[i]
      OBVIOUS
    <3>4. a.row \in Row
      BY <3>3
    <3>5. Back(c, a)'
      BY <3>2, <3>3, <3>4 DEF Back
    <3> QED
      BY <1>1, <3>3, <3>5
  <2>3. WentBack(c)'
    BY <1>1, <2>2 DEF WentBack
  <2> QED
    BY <2>1, <2>3
<1> QED
  BY <1>2, <1>3 DEF UndoingOf

\* A record being undone is closed, and about rows.
LEMMA RecordedRows ==
  ASSUME TypeInv, NEW c \in Cnx, phase[c] \in {"undoing", "raised"}
  PROVE  /\ target[c] \in 1 .. Len(log) /\ log[target[c]].status # "open"
         /\ Recorded(c) \in Seq(Action) /\ Len(Recorded(c)) \in Nat /\ Left(c) \in Nat
         /\ \A i \in 1 .. Len(Recorded(c)) : Recorded(c)[i] \in Action /\ Recorded(c)[i].row \in Row
<1>1. target[c] \in 1 .. Len(log) /\ log[target[c]].status # "open"
  BY DEF TypeInv, RecordsInv
<1>2. Recorded(c) \in Seq(Action)
  BY <1>1, RecordedActions DEF Recorded
<1>3. Left(c) \in Nat
  BY DEF Left, TypeInv, UndoTypes
<1>4. PICK s \in Seq(Action) : s = Recorded(c)
  BY <1>2
<1>5. Len(s) \in Nat /\ \A i \in 1 .. Len(s) : s[i] \in Action
  BY ElementOfSeq
<1>6. \A x \in Action : x.row \in Row
  BY DEF Action
<1> QED
  BY <1>1, <1>2, <1>3, <1>4, <1>5, <1>6

\* Taking the next action off the script.
LEMMA NextAction ==
  ASSUME TypeInv, UndoingInv, NEW c \in Cnx, phase[c] = "undoing", script[c] # <<>>,
         script'[c] = Tail(script[c]), target'[c] = target[c], log' = log
  PROVE  \E a \in Action, k \in 1 .. Len(Recorded(c)) :
            /\ a = Head(script[c]) /\ k = Left(c) /\ Left(c)' = k - 1
            /\ a = Recorded(c)[k] /\ Recorded(c)' = Recorded(c)
            /\ ScriptOf(c)'
<1>1. PICK n \in Nat, R \in Seq(Action) : n = Len(R) /\ R = Recorded(c)
  BY RecordedRows
<1>2. PICK k \in Nat : k = Len(script[c]) /\ k # 0
  BY HeadAndTail
<1>3. k <= n /\ \A j \in 1 .. k : script[c][j] = R[k + 1 - j]
  BY <1>1, <1>2 DEF UndoingInv, UndoingOf, ScriptOf, Left
<1>4. /\ Head(script[c]) = script[c][1] /\ Head(script[c]) \in Action
      /\ Len(script'[c]) = k - 1
      /\ \A j \in 1 .. k - 1 : script'[c][j] = script[c][j + 1]
  BY <1>2, HeadAndTail
<1>5. Recorded(c)' = R
  BY <1>1 DEF Recorded
<1>6. Left(c)' = k - 1 /\ Left(c) = k
  BY <1>2, <1>4 DEF Left
<1>7. Head(script[c]) = R[k]
  <2>1. 1 \in 1 .. k /\ k + 1 - 1 = k
    BY <1>2
  <2> QED
    BY <1>3, <1>4, <2>1
<1>8. ASSUME NEW j \in 1 .. k - 1 PROVE script'[c][j] = R[(k - 1) + 1 - j]
  <2>1. j + 1 \in 1 .. k /\ k + 1 - (j + 1) = (k - 1) + 1 - j
    OBVIOUS
  <2> QED
    BY <1>3, <1>4, <2>1
<1>9. k - 1 <= n
  BY <1>2, <1>3
<1>10. ScriptOf(c)'
  BY <1>1, <1>5, <1>6, <1>8, <1>9 DEF ScriptOf
<1>11. k \in 1 .. Len(Recorded(c))
  BY <1>1, <1>2, <1>3
<1> QED
  BY <1>1, <1>4, <1>5, <1>6, <1>7, <1>10, <1>11

\* An action that is reported, or whose reversal is prepared, was the last one left.
LEMMA ReportsUndoing ==
  ASSUME TypeInv, UndoingInv, NEW c \in Cnx, UndoReports(c) \/ UndoAction(c)
  PROVE  UndoingOf(c)'
<1>1. /\ phase[c] = "undoing" /\ phase'[c] = "undoing" /\ script[c] # <<>>
      /\ script'[c] = Tail(script[c]) /\ target'[c] = target[c] /\ log' = log
      /\ statement[c] = None /\ UNCHANGED <<now, committed, owner, overtaken>>
  BY DEF UndoReports, UndoAction, TypeInv, UndoTypes, database, history
<1>2. PICK a \in Action, k \in 1 .. Len(Recorded(c)) :
            /\ a = Head(script[c]) /\ k = Left(c) /\ Left(c)' = k - 1
            /\ a = Recorded(c)[k] /\ Recorded(c)' = Recorded(c)
            /\ ScriptOf(c)'
  BY <1>1, NextAction
<1>3. PICK n \in Nat, R \in Seq(Action) : n = Len(R) /\ R = Recorded(c) /\ k \in 1 .. n
  BY <1>1, RecordedRows
<1>4. /\ reported[c] \subseteq reported'[c]
      /\ \/ a.row \in reported'[c] /\ statement'[c] = None
         \/ statement'[c] # None /\ statement'[c].row = a.row /\ statement'[c].new = a.old
  <2>1. CASE UndoReports(c)
    BY <1>1, <1>2, <2>1 DEF UndoReports, TypeInv, UndoTypes
  <2>2. CASE UndoAction(c)
    <3>1. PICK st : st = [row |-> a.row, new |-> a.old,
                          old |-> IF a.new = Absent THEN Absent ELSE Seen(c, a.row)]
      OBVIOUS
    <3>2. statement'[c] = st /\ reported'[c] = reported[c]
      BY <1>2, <2>2, <3>1 DEF UndoAction, TypeInv, UndoTypes
    <3>3. st \in Action
      BY <3>1 DEF Action, Seen, TypeInv, UndoTypes, Contents
    <3> QED
      BY <3>1, <3>2, <3>3, StatementAssumption
  <2> QED
    BY <2>1, <2>2
<1>5. Reverses(c)'
  <2>1. k - 1 < n /\ (k - 1) + 1 = k
    BY <1>3
  <2>2. statement'[c] # None => statement'[c].row = R[k].row /\ statement'[c].new = R[k].old
    BY <1>2, <1>3, <1>4
  <2> QED
    BY <1>2, <1>3, <2>1, <2>2 DEF Reverses
<1>6. ASSUME NEW i \in (k - 1) + 1 .. n, First(c, i)' PROVE Back(c, R[i])'
  <2>1. CASE i = k
    BY <1>2, <1>3, <1>4, <2>1 DEF Back
  <2>2. CASE i # k
    <3>1. i \in k + 1 .. n /\ k + 1 .. i - 1 \subseteq (k - 1) + 1 .. i - 1
      BY <1>3, <2>2
    <3>2. First(c, i)
      BY <1>2, <1>3, <1>6, <3>1 DEF First
    <3>3. Back(c, R[i])
      BY <1>1, <1>2, <1>3, <3>1, <3>2 DEF UndoingInv, UndoingOf, WentBack
    <3> QED
      BY <1>1, <1>4, <3>3 DEF Back, Seen, Mine
  <2> QED
    BY <2>1, <2>2
<1>7. WentBack(c)'
  BY <1>2, <1>3, <1>6 DEF WentBack
<1> QED
  BY <1>1, <1>2, <1>5, <1>7 DEF UndoingOf

\* The statement of an undo sets its row back, or finds it gone.
LEMMA WriteUndoing ==
  ASSUME TypeInv, UndoingInv, NEW c \in Cnx, Write(c)
  PROVE  UndoingOf(c)'
<1>0. PICK s \in Action, v \in Contents :
            /\ s = statement[c] /\ s # None /\ s.row \in Row
            /\ v = IF now[s.row] = Absent /\ s.old # Absent THEN Absent ELSE s.new
            /\ MayWrite(c, s.row, s.new)
            /\ now'[s.row] = v /\ Moves(c)
            /\ \/ v = Absent /\ now[s.row] = Absent /\ owner' = owner
               \/ owner'[s.row] = c
            /\ \A r \in Row : r # s.row => now'[r] = now[r] /\ owner'[r] = owner[r]
  BY WriteMoves
<1>1. /\ phase' = phase /\ target' = target /\ script' = script /\ reported' = reported
      /\ statement'[c] = None /\ committed' = committed
      /\ overtaken'[c] = IF now[s.row] = s.old THEN overtaken[c] ELSE overtaken[c] \cup {s.row}
  BY <1>0 DEF Write, TypeInv, UndoTypes, undo
<1>2. SUFFICES ASSUME phase[c] = "undoing" PROVE UndoingOf(c)'
  <2>1. phase[c] # "raised"
    BY <1>0, StatementAssumption DEF TypeInv, RecordsInv
  <2> QED
    BY <1>1, <2>1 DEF UndoingOf
<1>3. UNCHANGED <<log, tx>>
  <2>1. target[c] # 0
    BY <1>2 DEF TypeInv, RecordsInv
  <2> QED
    BY <2>1, LateRecord
<1>4. Left(c)' = Left(c) /\ Recorded(c)' = Recorded(c)
  BY <1>1, <1>3 DEF Left, Recorded
<1>5. PICK n \in Nat, R \in Seq(Action), k \in Nat :
        n = Len(R) /\ R = Recorded(c) /\ k = Left(c)
  BY <1>2, RecordedRows
<1>6. k < n /\ s.row = R[k + 1].row /\ s.new = R[k + 1].old
  BY <1>0, <1>2, <1>5 DEF UndoingInv, UndoingOf, Reverses
<1>7. ASSUME NEW i \in k + 1 .. n, First(c, i)' PROVE Back(c, R[i])'
  <2>1. First(c, i)
    BY <1>4, <1>7 DEF First
  <2>2. Back(c, R[i]) /\ R[i].row \in Row
    <3>1. i \in 1 .. n
      BY <1>5
    <3> QED
      BY <1>2, <1>5, <2>1, <3>1, RecordedRows DEF UndoingInv, UndoingOf, WentBack
  <2>3. PICK a : a = R[i] /\ a.row \in Row
    BY <2>2
  <2>4. CASE a.row = s.row
    <3>1. i = k + 1
      <4>1. SUFFICES ASSUME i # k + 1 PROVE FALSE
        OBVIOUS
      <4>2. k + 1 \in k + 1 .. i - 1
        BY <1>5, <4>1
      <4> QED
        BY <1>5, <1>6, <2>1, <2>3, <2>4, <4>2 DEF First
    <3>2. a.old = s.new
      BY <1>6, <2>3, <3>1
    <3>3. CASE v = s.new
      <4>1. Mine(c, s.row)'
        BY <1>0 DEF Mine, MayWrite
      <4>2. Seen(c, s.row)' = v
        BY <1>0, <4>1 DEF Seen, Mine
      <4> QED
        BY <2>3, <2>4, <3>2, <3>3, <4>2 DEF Back
    <3>4. CASE v # s.new
      <4>1. now[s.row] # s.old
        BY <1>0, <3>4
      <4> QED
        BY <1>1, <2>3, <2>4, <4>1 DEF Back
    <3> QED
      BY <3>3, <3>4
  <2>5. CASE a.row # s.row
    <3>1. Seen(c, a.row)' = Seen(c, a.row)
      BY <1>0, <1>1, <2>3, <2>5 DEF Seen, Mine
    <3>2. a.row \in reported[c] \cup overtaken[c] \/ Seen(c, a.row) = a.old
      BY <1>0, <2>2, <2>3, <2>5 DEF Back
    <3> QED
      BY <1>1, <2>3, <3>1, <3>2 DEF Back
  <2> QED
    BY <2>4, <2>5
<1>8. WentBack(c)'
  BY <1>4, <1>5, <1>7 DEF WentBack
<1>9. Reverses(c)' /\ ScriptOf(c)'
  BY <1>1, <1>2, <1>4 DEF Reverses, ScriptOf, UndoingInv, UndoingOf
<1> QED
  BY <1>8, <1>9 DEF UndoingOf

\* At the beginning of an undo the script is the whole record, backwards.
LEMMA BeginsUndoing ==
  ASSUME TypeInv, NEW c \in Cnx, NEW t \in DOMAIN log, Undo(c, t)
  PROVE  UndoingOf(c)'
<1>1. /\ log' = log /\ phase'[c] = "undoing" /\ target'[c] = t
      /\ script'[c] = Reverse(log[t].actions) /\ statement'[c] = None
  BY DEF Undo, TypeInv, UndoTypes, RecordsInv
<1>2. PICK R \in Seq(Action) : R = log[t].actions
  <2>1. t \in 1 .. Len(log)
    BY ToSetProperties DEF TypeInv, UndoTypes
  <2> QED
    BY <2>1, RecordedActions
<1>3. PICK n \in Nat : n = Len(R)
  OBVIOUS
<1>4. Len(script'[c]) = n /\ \A i \in 1 .. n : script'[c][i] = R[n + 1 - i]
  BY <1>1, <1>2, <1>3, ReverseProperties
<1>5. Left(c)' = n /\ Recorded(c)' = R
  BY <1>1, <1>2, <1>4 DEF Left, Recorded
<1>6. ScriptOf(c)'
  BY <1>3, <1>4, <1>5 DEF ScriptOf
<1>7. WentBack(c)'
  <2>1. \A i \in n + 1 .. n : FALSE
    BY <1>3
  <2> QED
    BY <1>3, <1>5, <2>1 DEF WentBack
<1> QED
  BY <1>1, <1>6, <1>7 DEF UndoingOf, Reverses

\* What c keeps while another connection acts.
Untouched(c) ==
    /\ phase'[c] = phase[c] /\ script'[c] = script[c] /\ statement'[c] = statement[c]
    /\ target'[c] = target[c] /\ tx'[c] = tx[c] /\ reported'[c] = reported[c]
    /\ overtaken[c] \subseteq overtaken'[c]
    /\ \A r \in Row : Seen(c, r)' = Seen(c, r) \/ (target[c] # 0 => r \in overtaken'[c])
    /\ target[c] # 0 => log'[target[c]].actions = log[target[c]].actions
    /\ tx[c] # 0 => log'[tx[c]] = log[tx[c]]
    /\ \A r \in Row : owner'[r] = c =>
          owner[r] = c /\ now'[r] = now[r] /\ committed'[r] = committed[r]
    /\ \A r \in Row : owner[r] = c => owner'[r] = c
    /\ phase[c] # "idle" =>
          missed[c] \subseteq missed'[c] /\ DOMAIN unborn' \subseteq DOMAIN unborn \cup missed'[c]

\* What c keeps while another connection prepares and edits,
LEMMA EditElsewhere ==
  ASSUME TypeInv, DatabaseInv, NEW c \in Cnx, NEW d \in Cnx, c # d, EditStep(d)
  PROVE  Untouched(c)
<1>1. Moves(d)
  BY EditDatabase
<1>2. PICK S \in SUBSET Action, a \in Action :
        Grows(d, S) /\ Execute(d, a) /\ UNCHANGED <<history, undo>>
  BY DEF EditStep
<1>3. \A r \in Row : Seen(c, r)' = Seen(c, r)
  BY <1>1, MovesOnly DEF DatabaseInv
<1>4. target[c] # 0 => log'[target[c]] = log[target[c]]
  BY <1>2, GrowsApart
<1>5. tx'[c] = tx[c] /\ (tx[c] # 0 => log'[tx[c]] = log[tx[c]])
  BY <1>2, GrowsApart
<1>7. \A r \in Row : owner'[r] = c =>
          owner[r] = c /\ now'[r] = now[r] /\ committed'[r] = committed[r]
  BY <1>1 DEF Moves
<1>8. \A r \in Row : owner[r] = c => owner'[r] = c
  BY <1>1, UndoNobodyAssumption DEF Moves, Mine
<1>6. phase'[c] = phase[c] /\ statement'[c] = statement[c]
  BY <1>2 DEF Execute, TypeInv, UndoTypes
<1> QED
  BY <1>2, <1>3, <1>4, <1>5, <1>6, <1>7, <1>8 DEF Untouched, history, undo

\* executes a statement,
LEMMA WriteElsewhere ==
  ASSUME TypeInv, DatabaseInv, NEW c \in Cnx, NEW d \in Cnx, c # d, Write(d)
  PROVE  Untouched(c)
<1>1. Moves(d)
  BY WriteMoves
<1>2. \A r \in Row : Seen(c, r)' = Seen(c, r)
  BY <1>1, MovesOnly DEF DatabaseInv
<1>3. /\ phase' = phase /\ script' = script /\ target' = target /\ reported' = reported
      /\ statement'[c] = statement[c] /\ overtaken'[c] = overtaken[c]
      /\ missed' = missed /\ unborn' = unborn
  BY DEF Write, TypeInv, UndoTypes, undo
<1>4. /\ target[c] # 0 => log'[target[c]] = log[target[c]]
      /\ tx'[c] = tx[c] /\ (tx[c] # 0 => log'[tx[c]] = log[tx[c]])
  BY LateRecord, GrowsApart
<1>5. \A r \in Row : owner'[r] = c =>
          owner[r] = c /\ now'[r] = now[r] /\ committed'[r] = committed[r]
  BY <1>1 DEF Moves
<1>6. \A r \in Row : owner[r] = c => owner'[r] = c
  BY <1>1, UndoNobodyAssumption DEF Moves, Mine
<1> QED
  BY <1>2, <1>3, <1>4, <1>5, <1>6 DEF Untouched

\* does anything that writes nothing,
LEMMA QuietElsewhere ==
  ASSUME TypeInv, NEW c \in Cnx, NEW d \in Cnx, c # d,
         \/ \E p \in Pair : Unrelate(d, p)
         \/ \E t \in DOMAIN log : Undo(d, t)
         \/ WriteFails(d) \/ UndoReports(d) \/ UndoRaises(d) \/ UndoAction(d)
  PROVE  Untouched(c)
<1>1. UNCHANGED <<log, tx, database, history>>
  BY DEF Unrelate, Undo, WriteFails, UndoReports, UndoRaises, UndoAction
<1>2. \A r \in Row : Seen(c, r)' = Seen(c, r)
  BY <1>1 DEF database, Seen, Mine
<1>3. /\ phase'[c] = phase[c] /\ script'[c] = script[c] /\ target'[c] = target[c]
      /\ reported'[c] = reported[c] /\ statement'[c] = statement[c]
  <2>1. CASE \E p \in Pair : Unrelate(d, p)
    BY <2>1 DEF Unrelate, Execute, TypeInv, UndoTypes, undo
  <2>2. CASE \E t \in DOMAIN log : Undo(d, t)
    BY <2>2 DEF Undo, TypeInv, UndoTypes
  <2>3. CASE WriteFails(d) \/ UndoReports(d)
    BY <2>3 DEF WriteFails, UndoReports, TypeInv, UndoTypes, undo
  <2>4. CASE UndoRaises(d) \/ UndoAction(d)
    BY <2>4 DEF UndoRaises, UndoAction, TypeInv, UndoTypes, undo
  <2> QED
    BY <2>1, <2>2, <2>3, <2>4
<1> QED
  BY <1>1, <1>2, <1>3 DEF Untouched, history, database

\* ends its transaction - what that one changed, c was overtaken on,
LEMMA EndElsewhere ==
  ASSUME TypeInv, DatabaseInv, NEW c \in Cnx, NEW d \in Cnx, c # d, Commit(d) \/ Rollback(d)
  PROVE  Untouched(c)
<1>1. EndsRecord(d) /\ Reset(d)
  BY CommitEndsRecord, RollbackEndsRecord DEF Commit, Rollback
<1>2. /\ phase'[c] = phase[c] /\ script'[c] = script[c] /\ target'[c] = target[c]
      /\ tx'[c] = tx[c] /\ reported'[c] = reported[c] /\ statement'[c] = statement[c]
      /\ owner' = [r \in Row |-> IF owner[r] = d THEN Nobody ELSE owner[r]]
  BY <1>1 DEF Reset, TypeInv, UndoTypes
<1>3. ASSUME target[c] # 0 PROVE log'[target[c]].actions = log[target[c]].actions
  <2>1. target[c] \in 1 .. Len(log) /\ log[target[c]].status # "open"
    BY <1>3 DEF TypeInv, RecordsInv
  <2>2. target[c] \in 1 .. Len(log') /\ target[c] # tx[d]
    BY <1>1, <2>1 DEF EndsRecord, TypeInv, RecordsInv
  <2> QED
    BY <1>1, <2>2 DEF EndsRecord
<1>4. tx[c] # 0 => log'[tx[c]] = log[tx[c]]
  BY <1>1 DEF EndsRecord
<1>5. CASE Commit(d)
  <2>1. /\ now' = now /\ committed' = [r \in Row |-> IF owner[r] = d THEN now[r] ELSE committed[r]]
        /\ overtaken'[c] = IF target[c] = 0 THEN overtaken[c]
                           ELSE overtaken[c] \cup {r \in Row : owner[r] = d}
    BY <1>5 DEF Commit
  <2>3. phase[c] # "idle" =>
          missed[c] \subseteq missed'[c] /\ DOMAIN unborn' \subseteq DOMAIN unborn \cup missed'[c]
    <3>1. PICK V, D : /\ unborn' = [e \in D |-> IF e \in V THEN target[d] ELSE unborn[e]]
                      /\ D \subseteq V \cup DOMAIN unborn
                      /\ missed' = [x \in Cnx |-> IF x = d THEN {}
                                                  ELSE IF phase[x] = "idle" THEN {}
                                                  ELSE missed[x] \cup V]
      <4>1. {x \in Vanished(d) \cup DOMAIN unborn : committed'[x] = Absent}
               \subseteq Vanished(d) \cup DOMAIN unborn
        OBVIOUS
      <4>2. /\ unborn' = [e \in {x \in Vanished(d) \cup DOMAIN unborn : committed'[x] = Absent} |->
                              IF e \in Vanished(d) THEN target[d] ELSE unborn[e]]
            /\ missed' = [x \in Cnx |-> IF x = d THEN {}
                                        ELSE IF phase[x] = "idle" THEN {}
                                        ELSE missed[x] \cup Vanished(d)]
        BY <1>5, CommitHistory
      <4> QED
        BY <4>1, <4>2
    <3> QED
      BY <3>1
  <2>2. ASSUME NEW r \in Row, owner[r] # d PROVE Seen(c, r)' = Seen(c, r)
    BY <1>2, <2>1, <2>2 DEF Seen, Mine
  <2> QED
    BY <1>2, <1>3, <1>4, <2>1, <2>2, <2>3, UndoNobodyAssumption DEF Untouched
<1>6. CASE Rollback(d)
  <2>1. /\ committed' = committed /\ overtaken'[c] = overtaken[c]
        /\ missed'[c] = missed[c] /\ unborn' = unborn
        /\ now' = [r \in Row |-> IF owner[r] = d THEN committed[r] ELSE now[r]]
    BY <1>6 DEF Rollback, Restored, TypeInv, UndoTypes
  <2>2. ASSUME NEW r \in Row PROVE Seen(c, r)' = Seen(c, r)
    BY <1>2, <2>1, UndoNobodyAssumption DEF Seen, Mine
  <2> QED
    BY <1>2, <1>3, <1>4, <2>1, <2>2, UndoNobodyAssumption DEF Untouched
<1> QED
  BY <1>5, <1>6

\* or while the old records are cleaned up.
LEMMA CleanupElsewhere ==
  ASSUME TypeInv, NEW c \in Cnx, NEW t \in DOMAIN log, Cleanup(t)
  PROVE  Untouched(c)
<1>4. tx[c] # 0 => log'[tx[c]] = log[tx[c]]
  BY CleanupForgets DEF TypeInv, RecordsInv
<1>1. UNCHANGED <<phase, tx, statement, history, database, undo>>
  BY DEF Cleanup
<1>2. ASSUME target[c] # 0 PROVE log'[target[c]].actions = log[target[c]].actions
  BY <1>2, CleanupForgets DEF TypeInv, RecordsInv
<1>3. \A r \in Row : Seen(c, r)' = Seen(c, r)
  BY <1>1 DEF database, Seen, Mine
<1> QED
  BY <1>1, <1>2, <1>3, <1>4 DEF Untouched, history, undo, database

\* So an undo is where it was after such a step,
LEMMA UntouchedUndoing ==
  ASSUME TypeInv, UndoingInv, NEW c \in Cnx, Untouched(c)
  PROVE  UndoingOf(c)'
<1>1. CASE phase[c] \in {"undoing", "raised"}
  <2>1. target[c] # 0
    BY <1>1 DEF TypeInv, RecordsInv
  <2> QED
    BY <1>1, <2>1, RecordedRows, UndoingKept DEF Untouched, UndoingInv
<1>2. CASE phase[c] \notin {"undoing", "raised"}
  BY <1>2 DEF Untouched, UndoingOf
<1> QED
  BY <1>1, <1>2

\* What c itself does.

\* and where it should be after a step of its own.
LEMMA OwnUndoing ==
  ASSUME TypeInv, UndoingInv, NEW c \in Cnx,
         \/ EditStep(c)
         \/ \E p \in Pair : Unrelate(c, p)
         \/ Write(c) \/ WriteFails(c)
         \/ \E t \in DOMAIN log : Undo(c, t)
         \/ UndoReports(c) \/ UndoRaises(c) \/ UndoAction(c)
         \/ Commit(c) \/ Rollback(c)
  PROVE  UndoingOf(c)'
<1>1. CASE EditStep(c) \/ \E p \in Pair : Unrelate(c, p)
  <2>1. phase'[c] = "open"
    BY <1>1 DEF EditStep, Unrelate, Execute, TypeInv, UndoTypes
  <2> QED
    BY <2>1 DEF UndoingOf
<1>2. CASE WriteFails(c) \/ Commit(c) \/ Rollback(c)
  <2>1. phase'[c] \in {"failed", "idle"}
    BY <1>2 DEF WriteFails, Commit, Rollback, Reset, TypeInv, UndoTypes
  <2> QED
    BY <2>1 DEF UndoingOf
<1>3. CASE UndoRaises(c)
  <2>1. phase[c] = "undoing" /\ phase'[c] = "raised" /\ UNCHANGED <<log, script, target>>
    BY <1>3 DEF UndoRaises, TypeInv, UndoTypes, undo
  <2>2. ScriptOf(c)'
    BY <2>1 DEF UndoingInv, UndoingOf, ScriptOf, Left, Recorded
  <2> QED
    BY <2>1, <2>2 DEF UndoingOf
<1> QED
  BY <1>1, <1>2, <1>3, WriteUndoing, BeginsUndoing, ReportsUndoing

\* Every step is the step of one connection, which leaves the others, or of none.

\* A step is one of c, or leaves it alone.
LEMMA StepsElsewhere ==
  ASSUME TypeInv, DatabaseInv, Steps, NEW c \in Cnx
  PROVE  \/ UNCHANGED vars
         \/ Untouched(c)
         \/ EditStep(c)
         \/ \E p \in Pair : Unrelate(c, p)
         \/ Write(c) \/ WriteFails(c)
         \/ \E t \in DOMAIN log : Undo(c, t)
         \/ UndoReports(c) \/ UndoRaises(c) \/ UndoAction(c)
         \/ Commit(c) \/ Rollback(c)
  BY EditElsewhere, WriteElsewhere, QuietElsewhere, EndElsewhere, CleanupElsewhere DEF Steps

\* Every step keeps what is known of each undo.
LEMMA UndoingStays ==
  ASSUME TypeInv, DatabaseInv, UndoingInv, Steps
  PROVE  UndoingInv'
<1>1. ASSUME NEW c \in Cnx, UNCHANGED vars PROVE UndoingOf(c)'
  <2>1. UNCHANGED <<now, committed, owner, log, phase, statement, target, script,
                    reported, overtaken>>
    BY <1>1 DEF vars, undo, history, database
  <2>2. (ScriptOf(c) => ScriptOf(c)') /\ (Reverses(c) => Reverses(c)')
    BY <2>1 DEF ScriptOf, Reverses, Left, Recorded
  <2>3. \A a : Back(c, a) => Back(c, a)'
    BY <2>1 DEF Back, Seen, Mine
  <2>4. WentBack(c) => WentBack(c)'
    BY <2>1, <2>3 DEF WentBack, First, Left, Recorded
  <2> QED
    BY <2>1, <2>2, <2>4 DEF UndoingInv, UndoingOf
<1>2. ASSUME NEW c \in Cnx PROVE UndoingOf(c)'
  <2>1. CASE Untouched(c)
    BY <2>1, UntouchedUndoing
  <2>2. CASE \/ EditStep(c)
             \/ \E p \in Pair : Unrelate(c, p)
             \/ Write(c) \/ WriteFails(c)
             \/ \E t \in DOMAIN log : Undo(c, t)
             \/ UndoReports(c) \/ UndoRaises(c) \/ UndoAction(c)
             \/ Commit(c) \/ Rollback(c)
    BY <2>2, OwnUndoing
  <2> QED
    BY <1>1, <2>1, <2>2, StepsElsewhere
<1> QED
  BY <1>2 DEF UndoingInv

\* An undo that came to the end of its script set every row back, or reported it.
LEMMA UndoingRestores ==
  TypeInv /\ UndoingInv => RestoredOrReported
<1> SUFFICES ASSUME TypeInv, UndoingInv, NEW c \in Cnx, Undone(c), NEW r \in RowsOf(target[c])
             PROVE  \/ r \in reported[c] \cup overtaken[c]
                    \/ Seen(c, r) = Before(target[c], r)
  BY DEF RestoredOrReported
<1>1. phase[c] = "undoing" /\ statement[c] = None /\ script[c] = <<>>
  BY DEF Undone
<1>2. Left(c) = 0
  BY <1>1 DEF Left
<1>3. PICK n \in Nat, R \in Seq(Action) : n = Len(R) /\ R = Recorded(c) /\ DOMAIN R = 1 .. n
  BY <1>1, RecordedRows, ToSetProperties
<1>4. PICK I : I = {i \in 1 .. n : R[i].row = r}
  OBVIOUS
<1>5. I # {} /\ I \subseteq 1 .. n
  BY <1>3, <1>4 DEF RowsOf, Recorded
<1>6. PICK m \in I : \A j \in I : m <= j
  BY <1>5, MinBounded
<1>7. m \in 1 .. n /\ R[m].row = r /\ \A j \in 1 .. m - 1 : R[j].row # r
  BY <1>4, <1>5, <1>6
<1>8. PICK i \in 1 .. n : /\ R[i].row = r /\ \A j \in 1 .. i - 1 : R[j].row # r
                          /\ Before(target[c], r) = R[i].old
  <2>1. Before(target[c], r) = R[CHOOSE i \in 1 .. n :
                   R[i].row = r /\ \A j \in 1 .. i - 1 : R[j].row # r].old
    BY <1>3 DEF Before, Recorded
  <2> QED
    BY <1>7, <2>1
<1>9. First(c, i)
  BY <1>2, <1>3, <1>8 DEF First
<1>10. Back(c, R[i])
  BY <1>1, <1>2, <1>3, <1>9 DEF UndoingInv, UndoingOf, WentBack
<1> QED
  BY <1>1, <1>8, <1>10 DEF Back

--------------------------------------------------------------------------------
\* The records left about entities whose creation was undone.

\* What the record t of the log l tells of: the entities created, and those touched.
CreatedIn(l, t) == {e \in Eid : \E x \in ActionsOf(l, t) : x.row = e /\ IsCreation(x)}
TouchedIn(l, t, e) == \E x \in ActionsOf(l, t) : Touches(x, e)

\* An entity unborn does not exist; the record of its creation is not open.
UnbornInv ==
    \A e \in DOMAIN unborn :
        /\ committed[e] = Absent
        /\ unborn[e] \in 1 .. Len(log) /\ log[unborn[e]].status # "open"
        /\ e \in CreatedIn(log, unborn[e])

\* The record of c tells of each entity its transaction added, or is about to.
AddedOf(c) ==
    target[c] = 0 =>
        /\ \A e \in Eid : owner[e] = c /\ now[e] # Absent /\ committed[e] = Absent =>
              tx[c] # 0 /\ e \in CreatedIn(log, tx[c])
        /\ statement[c] # None /\ statement[c].row \in Eid /\ statement[c].old = Absent =>
              tx[c] # 0 /\ statement[c].row \in CreatedIn(log, tx[c])

\* What the transaction of c records about an entity unborn, it missed the undo of.
MissedOf(c) ==
    \A e \in DOMAIN unborn :
        /\ tx[c] # 0 /\ TouchedIn(log, tx[c], e) => e \in missed[c]
        /\ target[c] = 0 /\ statement[c] # None /\ Touches(statement[c], e) => e \in missed[c]

\* The creations the undo of c has reversed, or is about to.
Uncreated(c) ==
    {e \in Eid : \E i \in Left(c) + 1 .. Len(Recorded(c)) :
                    IsCreation(Recorded(c)[i]) /\ Recorded(c)[i].row = e}

\* It deletes no other entity, and, unless the record it undoes is gone, nothing later is
\* committed about these but what ran meanwhile.
UncreatedOf(c) ==
    phase[c] \in {"undoing", "raised"} =>
        /\ \A e \in Eid : owner[e] = c /\ now[e] = Absent => e \in Uncreated(c)
        /\ log[target[c]].status = "committed" =>
              \A e \in Uncreated(c), t \in 1 .. Len(log) :
                 log[t].status = "committed" /\ t > target[c] /\ TouchedIn(log, t, e)
                 => <<t, e>> \in excused

\* What is committed about an entity unborn is older, or excused.
OrphansInv ==
    \A e \in DOMAIN unborn : \A t \in 1 .. Len(log) :
        log[t].status = "committed" /\ TouchedIn(log, t, e)
        => t <= unborn[e] \/ <<t, e>> \in excused

\* The history and what each transaction adds to it.
HistoryInv ==
    /\ UnbornInv /\ OrphansInv
    /\ \A c \in Cnx : AddedOf(c) /\ MissedOf(c) /\ UncreatedOf(c)

\* The operator of the model, for a given log.
LEMMA CreatedInRecord ==
  ASSUME NEW t
  PROVE  Created(t) = CreatedIn(log, t)
  BY DEF Created, CreatedIn, ActionsOf, ToSet

\* A creation tells of the entity created.
LEMMA CreationTouches ==
  ASSUME NEW l, NEW t, NEW e \in CreatedIn(l, t)
  PROVE  TouchedIn(l, t, e)
  BY DEF CreatedIn, TouchedIn, Touches

\* What the history variables say implies the property.
LEMMA OrphansInvImplies ==
  TypeInv /\ OrphansInv => NoOrphanRecord
<1> SUFFICES ASSUME TypeInv, OrphansInv PROVE NoOrphanRecord
  OBVIOUS
<1>1. DOMAIN log = 1 .. Len(log)
  BY ToSetProperties DEF TypeInv, UndoTypes
<1>2. ASSUME NEW e \in DOMAIN unborn, NEW t \in DOMAIN log, log[t].status = "committed",
             \E i \in DOMAIN log[t].actions : Touches(log[t].actions[i], e)
      PROVE  t <= unborn[e] \/ <<t, e>> \in excused
  <2>1. TouchedIn(log, t, e)
    BY <1>2 DEF TouchedIn, ActionsOf, ToSet
  <2> QED
    BY <1>1, <1>2, <2>1 DEF OrphansInv
<1> QED
  BY <1>2 DEF NoOrphanRecord

\* A closed record persists and keeps its actions; a record committed now was, or
\* just has been.
LEMMA RecordsPersist ==
  ASSUME TypeInv, Steps
  PROVE  /\ \A t \in 1 .. Len(log) : log[t].status # "open" =>
               t \in 1 .. Len(log') /\ ActionsOf(log', t) = ActionsOf(log, t)
               /\ log'[t].status # "open" /\ log'[t].actions = log[t].actions
         /\ \A t \in 1 .. Len(log') : log'[t].status = "committed" =>
               /\ t \in 1 .. Len(log) /\ ActionsOf(log', t) = ActionsOf(log, t)
               /\ \/ log[t].status = "committed"
                  \/ \E d \in Cnx : Commit(d) /\ t = tx[d]
<1> DEFINE Persists ==
      \A t \in 1 .. Len(log) : log[t].status # "open" =>
         t \in 1 .. Len(log') /\ ActionsOf(log', t) = ActionsOf(log, t)
         /\ log'[t].status # "open" /\ log'[t].actions = log[t].actions
           Nothing ==
      \A t \in 1 .. Len(log') : log'[t].status = "committed" =>
         t \in 1 .. Len(log) /\ ActionsOf(log', t) = ActionsOf(log, t)
         /\ log[t].status = "committed"
<1>1. ASSUME log' = log PROVE Persists /\ Nothing
  BY <1>1 DEF ActionsOf
<1>2. ASSUME NEW c \in Cnx, NEW S, Grows(c, S) PROVE Persists /\ Nothing
  <2>1. ASSUME NEW t \in 1 .. Len(log), log[t].status # "open"
        PROVE  t \in 1 .. Len(log') /\ t # tx'[c] /\ log'[t] = log[t]
    BY <1>2, <2>1 DEF Grows, TypeInv, RecordsInv
  <2>2. ASSUME NEW t \in 1 .. Len(log'), log'[t].status = "committed"
        PROVE  t \in 1 .. Len(log) /\ log'[t] = log[t]
    BY <1>2, <2>2 DEF Grows
  <2> QED
    BY <2>1, <2>2 DEF ActionsOf
<1>3. ASSUME NEW c \in Cnx, Commit(c)
      PROVE  /\ Persists
             /\ \A t \in 1 .. Len(log') : log'[t].status = "committed" =>
                   t \in 1 .. Len(log) /\ ActionsOf(log', t) = ActionsOf(log, t)
                   /\ (log[t].status = "committed" \/ t = tx[c])
  BY <1>3, CommitEndsRecord DEF ActionsOf
<1>4. ASSUME NEW c \in Cnx, Rollback(c) PROVE Persists /\ Nothing
  <2>1. ASSUME NEW t \in 1 .. Len(log), log[t].status # "open"
        PROVE  /\ t \in 1 .. Len(log') /\ log'[t].actions = log[t].actions
               /\ log'[t].status # "open"
    <3>1. t \in 1 .. Len(log') /\ t # tx[c]
      BY <1>4, <2>1, RollbackEndsRecord DEF EndsRecord, TypeInv, RecordsInv
    <3> QED
      BY <1>4, <2>1, <3>1, RollbackEndsRecord DEF EndsRecord
  <2>2. ASSUME NEW t \in 1 .. Len(log'), log'[t].status = "committed"
        PROVE  t \in 1 .. Len(log) /\ log'[t] = log[t]
    BY <1>4, <2>2, RollbackEndsRecord DEF EndsRecord
  <2> QED
    BY <2>1, <2>2 DEF ActionsOf
<1>5. ASSUME NEW u \in DOMAIN log, Cleanup(u) PROVE Persists /\ Nothing
  BY <1>5, CleanupForgets DEF ActionsOf
<1>6. ASSUME NEW c \in Cnx, EditStep(c) PROVE Persists /\ Nothing
  BY <1>2, <1>6 DEF EditStep
<1>7. ASSUME NEW c \in Cnx, Write(c) PROVE Persists /\ Nothing
  BY <1>1, <1>2, <1>7, LateRecord
<1>8. ASSUME NEW c \in Cnx,
             \/ \E p \in Pair : Unrelate(c, p)
             \/ \E t \in DOMAIN log : Undo(c, t)
             \/ WriteFails(c) \/ UndoReports(c) \/ UndoRaises(c) \/ UndoAction(c)
      PROVE  log' = log
  BY <1>8 DEF Unrelate, Undo, WriteFails, UndoReports, UndoRaises, UndoAction
<1>9. UNCHANGED vars => log' = log
  BY DEF vars
<1>10. \/ Persists /\ Nothing
       \/ \E c \in Cnx : Commit(c)
  <2> HIDE DEF Persists, Nothing
  <2> QED
    BY <1>1, <1>4, <1>5, <1>6, <1>7, <1>8, <1>9 DEF Steps
<1> QED
  BY <1>3, <1>10

\* Only a commit changes what is committed, unborn or excused.
LEMMA HistoryKept ==
  ASSUME TypeInv, Steps, ~\E c \in Cnx : Commit(c)
  PROVE  UNCHANGED <<past, stale, unborn, excused, committed>>
<1>1. ASSUME NEW c \in Cnx, EditStep(c) PROVE UNCHANGED <<history, committed>>
  BY <1>1 DEF EditStep
<1>2. ASSUME NEW c \in Cnx,
             \/ \E p \in Pair : Unrelate(c, p)
             \/ \E t \in DOMAIN log : Undo(c, t)
             \/ WriteFails(c) \/ UndoReports(c) \/ UndoRaises(c) \/ UndoAction(c)
      PROVE  UNCHANGED <<history, database>>
  BY <1>2 DEF Unrelate, Undo, WriteFails, UndoReports, UndoRaises, UndoAction
<1>3. ASSUME NEW c \in Cnx, Write(c) \/ Rollback(c)
      PROVE  UNCHANGED <<past, stale, unborn, excused, committed>>
  BY <1>3 DEF Write, Rollback
<1>4. ASSUME NEW t \in DOMAIN log, Cleanup(t) PROVE UNCHANGED <<history, database>>
  BY <1>4 DEF Cleanup
<1>5. UNCHANGED vars => UNCHANGED <<history, database>>
  BY DEF vars
<1> QED
  BY <1>1, <1>2, <1>3, <1>4, <1>5 DEF Steps, history, database

\* What records tell depends on their actions alone.
LEMMA SameActions ==
  ASSUME NEW l, NEW m, NEW t, ActionsOf(l, t) = ActionsOf(m, t), NEW e
  PROVE  /\ CreatedIn(l, t) = CreatedIn(m, t)
         /\ TouchedIn(l, t, e) = TouchedIn(m, t, e)
  BY DEF CreatedIn, TouchedIn

\* The commit of an undo.
LEMMA VanishedEntity ==
  ASSUME TypeInv, NEW c \in Cnx, Commit(c), NEW e \in Vanished(c)
  PROVE  /\ target[c] # 0 /\ tx[c] = 0 /\ phase[c] \in {"undoing", "raised"}
         /\ target[c] \in 1 .. Len(log) /\ log[target[c]].status # "open"
         /\ e \in CreatedIn(log, target[c]) /\ e \in Eid
         /\ owner[e] = c /\ now[e] = Absent
<1>1. target[c] # 0 /\ e \in Created(target[c]) /\ owner[e] = c /\ now[e] = Absent
  BY DEF Vanished
<1>2. e \in CreatedIn(log, target[c]) /\ e \in Eid
  BY <1>1, CreatedInRecord DEF Created
<1>3. phase[c] \in {"undoing", "raised"}
  BY <1>1 DEF Commit, Undone, TypeInv, RecordsInv
<1> QED
  BY <1>1, <1>2, <1>3 DEF TypeInv, RecordsInv

\* Every step keeps what is known of the entities unborn.
LEMMA UnbornStays ==
  ASSUME TypeInv, Steps, UnbornInv
  PROVE  UnbornInv'
<1>1. CASE ~\E c \in Cnx : Commit(c)
  <2>1. UNCHANGED <<unborn, committed>>
    BY <1>1, HistoryKept
  <2>2. ASSUME NEW e \in DOMAIN unborn
        PROVE  /\ committed[e] = Absent
               /\ unborn[e] \in 1 .. Len(log') /\ log'[unborn[e]].status # "open"
               /\ e \in CreatedIn(log', unborn[e])
    <3>1. PICK t : t = unborn[e]
      OBVIOUS
    <3>2. /\ committed[e] = Absent /\ t \in 1 .. Len(log)
          /\ log[t].status # "open" /\ e \in CreatedIn(log, t)
      BY <3>1 DEF UnbornInv
    <3>3. t \in 1 .. Len(log') /\ log'[t].status # "open" /\ ActionsOf(log', t) = ActionsOf(log, t)
      BY <3>2, RecordsPersist
    <3>4. e \in CreatedIn(log', t)
      BY <3>2, <3>3, SameActions
    <3> QED
      BY <3>1, <3>2, <3>3, <3>4
  <2> QED
    BY <2>1, <2>2 DEF UnbornInv
<1>2. ASSUME NEW c \in Cnx, Commit(c) PROVE UnbornInv'
  <2>1. unborn' = [e \in {x \in Vanished(c) \cup DOMAIN unborn : committed'[x] = Absent} |->
                          IF e \in Vanished(c) THEN target[c] ELSE unborn[e]]
    BY <1>2, CommitHistory
  <2>2. ASSUME NEW e \in DOMAIN unborn'
        PROVE  /\ committed'[e] = Absent
               /\ unborn'[e] \in 1 .. Len(log') /\ log'[unborn'[e]].status # "open"
               /\ e \in CreatedIn(log', unborn'[e])
    <3>1. PICK t : t = unborn'[e]
      OBVIOUS
    <3>2. t \in 1 .. Len(log) /\ log[t].status # "open" /\ e \in CreatedIn(log, t)
      <4>1. CASE e \in Vanished(c)
        BY <1>2, <2>1, <3>1, <4>1, VanishedEntity
      <4>2. CASE e \notin Vanished(c)
        BY <2>1, <3>1, <4>2 DEF UnbornInv
      <4> QED
        BY <4>1, <4>2
    <3>3. t \in 1 .. Len(log') /\ log'[t].status # "open" /\ ActionsOf(log', t) = ActionsOf(log, t)
      BY <3>2, RecordsPersist
    <3>4. e \in CreatedIn(log', t)
      BY <3>2, <3>3, SameActions
    <3>5. committed'[e] = Absent
      BY <2>1
    <3> QED
      BY <3>1, <3>3, <3>4, <3>5
  <2> QED
    BY <2>2 DEF UnbornInv
<1> QED
  BY <1>1, <1>2

\* Every step keeps what is known of the records about them: a transaction that
\* commits one either missed the undo, and is excused, or is undone.
LEMMA OrphansStay ==
  ASSUME TypeInv, Steps, HistoryInv
  PROVE  OrphansInv'
<1>1. CASE ~\E c \in Cnx : Commit(c)
  <2>1. UNCHANGED <<unborn, excused>>
    BY <1>1, HistoryKept
  <2>2. ASSUME NEW e \in DOMAIN unborn, NEW t \in 1 .. Len(log'),
               log'[t].status = "committed", TouchedIn(log', t, e)
        PROVE  t <= unborn[e] \/ <<t, e>> \in excused
    <3>1. /\ t \in 1 .. Len(log) /\ ActionsOf(log', t) = ActionsOf(log, t)
          /\ log[t].status = "committed"
      BY <1>1, <2>2, RecordsPersist
    <3>2. TouchedIn(log, t, e)
      BY <2>2, <3>1, SameActions
    <3> QED
      BY <3>1, <3>2 DEF HistoryInv, OrphansInv
  <2> QED
    BY <2>1, <2>2 DEF OrphansInv
<1>2. ASSUME NEW c \in Cnx, Commit(c) PROVE OrphansInv'
  <2>1. unborn' = [e \in {x \in Vanished(c) \cup DOMAIN unborn : committed'[x] = Absent} |->
                          IF e \in Vanished(c) THEN target[c] ELSE unborn[e]]
    BY <1>2, CommitHistory
  <2>2. /\ excused \subseteq excused'
        /\ tx[c] # 0 => \A e \in missed[c] : <<tx[c], e>> \in excused'
        /\ \A t \in DOMAIN log, e \in Blind(c) :
              log[t].status = "committed" => <<t, e>> \in excused'
    BY <1>2 DEF Commit
  <2>3. ASSUME NEW e \in DOMAIN unborn', NEW t \in 1 .. Len(log'),
               log'[t].status = "committed", TouchedIn(log', t, e)
        PROVE  t <= unborn'[e] \/ <<t, e>> \in excused'
    <3>1. /\ t \in 1 .. Len(log) /\ log'[t].actions = log[t].actions
          /\ log[t].status = "committed" \/ t = tx[c]
      BY <1>2, <2>3, CommitEndsRecord
    <3>2. ActionsOf(log', t) = ActionsOf(log, t)
      BY <3>1 DEF ActionsOf
    <3>3. TouchedIn(log, t, e)
      BY <2>3, <3>2, SameActions
    <3>4. CASE e \in Vanished(c)
      <4>1. /\ target[c] \in 1 .. Len(log) /\ tx[c] = 0 /\ e \in Eid
            /\ phase[c] \in {"undoing", "raised"} /\ owner[e] = c /\ now[e] = Absent
        BY <1>2, <3>4, VanishedEntity
      <4>2. e \in Uncreated(c)
        BY <4>1 DEF HistoryInv, UncreatedOf
      <4>3. log[t].status = "committed" /\ t \in Nat /\ target[c] \in Nat
        BY <3>1, <4>1
      <4>4. t > target[c] => <<t, e>> \in excused'
        <5>1. CASE log[target[c]].status = "committed"
          BY <2>2, <3>1, <3>3, <4>1, <4>2, <4>3, <5>1 DEF HistoryInv, UncreatedOf
        <5>2. CASE log[target[c]].status # "committed"
          <6>1. e \in Blind(c) /\ t \in DOMAIN log
            BY <3>1, <3>4, <5>2, ToSetProperties DEF Blind, TypeInv, UndoTypes
          <6> QED
            BY <2>2, <4>3, <6>1
        <5> QED
          BY <5>1, <5>2
      <4>5. unborn'[e] = target[c]
        BY <2>1, <3>4
      <4>6. t > target[c] \/ t <= target[c]
        BY <4>3
      <4> QED
        BY <2>2, <4>4, <4>5, <4>6
    <3>5. CASE e \notin Vanished(c)
      <4>1. e \in DOMAIN unborn /\ unborn'[e] = unborn[e]
        BY <2>1, <3>5
      <4>2. CASE log[t].status = "committed"
        BY <2>2, <3>1, <3>3, <4>1, <4>2 DEF HistoryInv, OrphansInv
      <4>3. CASE t = tx[c]
        <5>1. e \in missed[c] /\ tx[c] # 0
          BY <3>1, <3>3, <4>1, <4>3 DEF HistoryInv, MissedOf
        <5> QED
          BY <2>2, <4>3, <5>1
      <4> QED
        BY <3>1, <4>2, <4>3
    <3> QED
      BY <3>4, <3>5
  <2> QED
    BY <2>3 DEF OrphansInv
<1> QED
  BY <1>1, <1>2

\* The record of c tells of what it adds after a step of another connection,
LEMMA UntouchedAdded ==
  ASSUME NEW c \in Cnx, Untouched(c), AddedOf(c)
  PROVE  AddedOf(c)'
<1>1. /\ statement'[c] = statement[c] /\ target'[c] = target[c] /\ tx'[c] = tx[c]
      /\ tx[c] # 0 => log'[tx[c]] = log[tx[c]]
      /\ \A e \in Eid : owner'[e] = c =>
          owner[e] = c /\ now'[e] = now[e] /\ committed'[e] = committed[e]
  BY DEF Untouched, Row
<1>2. tx[c] # 0 => CreatedIn(log', tx[c]) = CreatedIn(log, tx[c])
  BY <1>1 DEF CreatedIn, ActionsOf
<1> QED
  BY <1>1, <1>2 DEF AddedOf

\* A record that grows tells of what it told before.

\* What a record tells once it has grown.
LEMMA GrowsTells ==
  ASSUME NEW c \in Cnx, NEW S, Grows(c, S), NEW e
  PROVE  /\ tx[c] # 0 => CreatedIn(log, tx[c]) \subseteq CreatedIn(log', tx'[c])
         /\ \A x \in S : x.row \in Eid /\ x.old = Absent => x.row \in CreatedIn(log', tx'[c])
         /\ TouchedIn(log', tx'[c], e) =>
               (tx[c] # 0 /\ TouchedIn(log, tx[c], e)) \/ \E x \in S : Touches(x, e)
<1>1. ActionsOf(log', tx'[c]) = (IF tx[c] = 0 THEN {} ELSE ActionsOf(log, tx[c])) \cup S
  BY DEF Grows
<1> QED
  BY <1>1 DEF CreatedIn, TouchedIn, IsCreation

\* after an edition,
LEMMA EditAdded ==
  ASSUME TypeInv, NEW c \in Cnx, AddedOf(c), EditStep(c)
  PROVE  AddedOf(c)'
<1>1. PICK a \in Action, S \in SUBSET Action, gone \in SUBSET Pair :
        /\ phase[c] \in {"idle", "open"} /\ statement[c] = None
        /\ Grows(c, S) /\ Execute(c, a) /\ a \in S
        /\ now' = [r \in Row |-> IF r \in gone THEN Absent ELSE now[r]]
        /\ owner' = [r \in Row |-> IF r \in gone THEN c ELSE owner[r]]
        /\ UNCHANGED <<committed, history, undo>>
  BY DEF EditStep
<1>2. target[c] = 0 /\ target' = target /\ tx'[c] # 0
  BY <1>1, GrowsApart DEF TypeInv, RecordsInv, undo
<1>3. ASSUME NEW e \in Eid PROVE now'[e] = now[e] /\ owner'[e] = owner[e]
  <2>1. e \notin gone /\ e \in Row
    BY EidsAssumption DEF Row
  <2> QED
    BY <1>1, <2>1
<1>4. ASSUME NEW e \in Eid, owner'[e] = c, now'[e] # Absent, committed'[e] = Absent
      PROVE  e \in CreatedIn(log', tx'[c])
  <2>1. tx[c] # 0 /\ e \in CreatedIn(log, tx[c])
    BY <1>1, <1>2, <1>3, <1>4 DEF AddedOf
  <2> QED
    BY <1>1, <2>1, GrowsTells
<1>5. statement'[c] = a
  BY <1>1 DEF Execute, TypeInv, UndoTypes
<1>6. a.row \in Eid /\ a.old = Absent => a.row \in CreatedIn(log', tx'[c])
  BY <1>1, GrowsTells
<1> QED
  BY <1>2, <1>4, <1>5, <1>6 DEF AddedOf

\* after the execution of a statement,
LEMMA WriteAdded ==
  ASSUME TypeInv, DatabaseInv, NEW c \in Cnx, AddedOf(c), Write(c)
  PROVE  AddedOf(c)'
<1>0. PICK s \in Action, v \in Contents :
            /\ s = statement[c] /\ s # None /\ s.row \in Row
            /\ v = IF now[s.row] = Absent /\ s.old # Absent THEN Absent ELSE s.new
            /\ MayWrite(c, s.row, s.new)
            /\ now'[s.row] = v /\ Moves(c)
            /\ \A r \in Row : r # s.row => now'[r] = now[r] /\ owner'[r] = owner[r]
  BY WriteMoves
<1>1. target' = target /\ statement'[c] = None /\ committed' = committed
  BY DEF Write, TypeInv, UndoTypes, undo
<1>2. /\ tx[c] # 0 => tx'[c] = tx[c]
      /\ tx[c] # 0 => CreatedIn(log, tx[c]) \subseteq CreatedIn(log', tx[c])
  <2>1. CASE UNCHANGED <<log, tx>>
    BY <2>1
  <2>2. CASE Grows(c, {statement[c]})
    BY <2>2, GrowsTells DEF Grows
  <2> QED
    BY <2>1, <2>2, LateRecord
<1>3. SUFFICES ASSUME target[c] = 0, NEW e \in Eid,
                      owner'[e] = c, now'[e] # Absent, committed[e] = Absent
               PROVE  tx[c] # 0 /\ e \in CreatedIn(log, tx[c])
  BY <1>1, <1>2 DEF AddedOf
<1>4. e \in Row
  BY DEF Row
<1>5. CASE e # s.row
  BY <1>0, <1>3, <1>4, <1>5 DEF AddedOf
<1>6. CASE e = s.row /\ s.old = Absent
  BY <1>0, <1>3, <1>6 DEF AddedOf
<1>7. CASE e = s.row /\ s.old # Absent
  <2>1. now[e] # Absent
    BY <1>0, <1>3, <1>7
  <2>2. owner[e] = c
    BY <1>0, <1>3, <1>4, <1>7, <2>1 DEF MayWrite, Mine, DatabaseInv, RowsInv
  <2> QED
    BY <1>3, <2>1, <2>2 DEF AddedOf
<1> QED
  BY <1>5, <1>6, <1>7

\* and so after each step of its own.
LEMMA OwnAdded ==
  ASSUME TypeInv, DatabaseInv, NEW c \in Cnx, AddedOf(c),
         \/ EditStep(c)
         \/ \E p \in Pair : Unrelate(c, p)
         \/ Write(c) \/ WriteFails(c)
         \/ \E t \in DOMAIN log : Undo(c, t)
         \/ UndoReports(c) \/ UndoRaises(c) \/ UndoAction(c)
         \/ Commit(c) \/ Rollback(c)
  PROVE  AddedOf(c)'
<1>1. ASSUME NEW p \in Pair, Unrelate(c, p) PROVE AddedOf(c)'
  <2>1. PICK a : a = [row |-> p, old |-> Linked, new |-> Absent]
    OBVIOUS
  <2>2. /\ statement'[c] = a /\ a.row \notin Eid
        /\ UNCHANGED <<log, tx, target, now, committed, owner>>
    BY <1>1, <2>1, EidsAssumption DEF Unrelate, Execute, TypeInv, UndoTypes, database, undo
  <2> QED
    BY <2>2 DEF AddedOf, CreatedIn, ActionsOf
<1>2. CASE WriteFails(c)
  <2>1. statement'[c] = None /\ UNCHANGED <<log, tx, target, now, committed, owner>>
    BY <1>2 DEF WriteFails, TypeInv, UndoTypes, database, undo
  <2> QED
    BY <2>1 DEF AddedOf, CreatedIn, ActionsOf
<1>3. ASSUME NEW t \in DOMAIN log, Undo(c, t) PROVE AddedOf(c)'
  <2>1. t # 0
    BY ToSetProperties DEF TypeInv, UndoTypes
  <2>2. target'[c] = t
    BY <1>3 DEF Undo, TypeInv, UndoTypes
  <2> QED
    BY <2>1, <2>2 DEF AddedOf
<1>4. CASE UndoReports(c) \/ UndoRaises(c) \/ UndoAction(c)
  <2>1. phase[c] = "undoing" /\ target' = target
    BY <1>4 DEF UndoReports, UndoRaises, UndoAction, undo
  <2>2. target[c] # 0
    BY <2>1 DEF TypeInv, RecordsInv
  <2> QED
    BY <2>1, <2>2 DEF AddedOf
<1>5. CASE Commit(c) \/ Rollback(c)
  <2>1. Reset(c)
    BY <1>5 DEF Commit, Rollback
  <2>2. statement'[c] = None /\ \A r \in Row : owner'[r] # c
    BY <2>1, UndoNobodyAssumption DEF Reset, TypeInv, UndoTypes
  <2> QED
    BY <2>2 DEF AddedOf, Row
<1> QED
  BY <1>1, <1>2, <1>3, <1>4, <1>5, EditAdded, WriteAdded

--------------------------------------------------------------------------------
\* What a transaction records about an entity unborn.

\* A transaction that sees an entity unborn began before the undo was committed.
LEMMA SeenIsMissed ==
  ASSUME TypeInv, DatabaseInv, HistoryInv, NEW c \in Cnx, target[c] = 0,
         NEW e \in DOMAIN unborn, Exists(c, e)
  PROVE  e \in missed[c]
<1>1. e \in Eid /\ e \in Row /\ committed[e] = Absent
  BY DEF TypeInv, UndoTypes, HistoryInv, UnbornInv, Row
<1>2. Mine(c, e) /\ now[e] # Absent
  BY <1>1 DEF Exists, Seen
<1>3. owner[e] = c
  BY <1>1, <1>2 DEF Mine, DatabaseInv, RowsInv
<1>4. tx[c] # 0 /\ e \in CreatedIn(log, tx[c])
  BY <1>1, <1>2, <1>3 DEF HistoryInv, AddedOf
<1> QED
  BY <1>4, CreationTouches DEF HistoryInv, MissedOf

\* What c records about an entity unborn, it missed, after a step of another connection,
LEMMA UntouchedMissed ==
  ASSUME TypeInv, NEW c \in Cnx, Untouched(c), MissedOf(c)
  PROVE  MissedOf(c)'
<1>1. /\ statement'[c] = statement[c] /\ target'[c] = target[c] /\ tx'[c] = tx[c]
      /\ tx[c] # 0 => log'[tx[c]] = log[tx[c]]
      /\ phase[c] # "idle" =>
            missed[c] \subseteq missed'[c] /\ DOMAIN unborn' \subseteq DOMAIN unborn \cup missed'[c]
  BY DEF Untouched
<1>2. ASSUME NEW e, tx[c] # 0 PROVE TouchedIn(log', tx[c], e) = TouchedIn(log, tx[c], e)
  BY <1>1, <1>2 DEF TouchedIn, ActionsOf
<1>3. CASE phase[c] = "idle"
  BY <1>1, <1>3 DEF MissedOf, TypeInv, RecordsInv
<1>4. CASE phase[c] # "idle"
  BY <1>1, <1>2, <1>4 DEF MissedOf
<1> QED
  BY <1>3, <1>4

\* after an edition, which tells of what c sees,
LEMMA EditMissed ==
  ASSUME TypeInv, DatabaseInv, HistoryInv, NEW c \in Cnx, EditStep(c)
  PROVE  MissedOf(c)'
<1>1. PICK a \in Action, S \in SUBSET Action, gone \in SUBSET Pair :
        /\ phase[c] \in {"idle", "open"} /\ statement[c] = None
        /\ Grows(c, S) /\ Execute(c, a) /\ a \in S
        /\ \A p \in gone : Mine(c, p) /\ Exists(c, p)
        /\ UNCHANGED <<committed, history, undo>>
        /\ \A x \in S : IsCreation(x) => Fresh(x.row)
        /\ \A x \in S, e \in Eid : Touches(x, e) =>
              \/ Exists(c, e)
              \/ IsCreation(x) /\ x.row = e
              \/ \E p \in gone : e \in {p[1], p[2]}
  BY DEF EditStep
<1>2. target[c] = 0 /\ tx'[c] # 0 /\ missed' = missed /\ unborn' = unborn
  BY <1>1, GrowsApart DEF TypeInv, RecordsInv, history
<1>3. ASSUME NEW e \in DOMAIN unborn, NEW x \in S, Touches(x, e) PROVE e \in missed[c]
  <2>1. e \in Eid
    BY DEF TypeInv, UndoTypes
  <2>2. CASE Exists(c, e)
    BY <1>2, <2>2, SeenIsMissed
  <2>3. CASE IsCreation(x) /\ x.row = e
    <3>1. Fresh(e)
      BY <1>1, <2>3
    <3>2. unborn[e] \in 1 .. Len(log) /\ e \in CreatedIn(log, unborn[e])
      BY DEF HistoryInv, UnbornInv
    <3> QED
      BY <3>1, <3>2 DEF Fresh, CreatedIn
  <2>4. CASE \E p \in gone : e \in {p[1], p[2]}
    <3>1. Exists(c, e)
      BY <1>1, <2>4, ViewIsSound
    <3> QED
      BY <1>2, <3>1, SeenIsMissed
  <2> QED
    BY <1>1, <1>3, <2>1, <2>2, <2>3, <2>4
<1>4. statement'[c] = a
  BY <1>1 DEF Execute, TypeInv, UndoTypes
<1>5. ASSUME NEW e \in DOMAIN unborn, TouchedIn(log', tx'[c], e) PROVE e \in missed[c]
  <2>1. (tx[c] # 0 /\ TouchedIn(log, tx[c], e)) \/ \E x \in S : Touches(x, e)
    BY <1>1, <1>5, GrowsTells
  <2> QED
    BY <1>3, <2>1 DEF HistoryInv, MissedOf
<1>6. ASSUME NEW e \in DOMAIN unborn, Touches(a, e) PROVE e \in missed[c]
  BY <1>1, <1>3, <1>6
<1> QED
  BY <1>2, <1>4, <1>5, <1>6 DEF MissedOf

\* and so after each step of its own.
LEMMA OwnMissed ==
  ASSUME TypeInv, DatabaseInv, HistoryInv, NEW c \in Cnx,
         \/ EditStep(c)
         \/ \E p \in Pair : Unrelate(c, p)
         \/ Write(c) \/ WriteFails(c)
         \/ \E t \in DOMAIN log : Undo(c, t)
         \/ UndoReports(c) \/ UndoRaises(c) \/ UndoAction(c)
         \/ Commit(c) \/ Rollback(c)
  PROVE  MissedOf(c)'
<1>0. MissedOf(c)
  BY DEF HistoryInv
<1>1. ASSUME NEW p \in Pair, Unrelate(c, p) PROVE MissedOf(c)'
  <2>1. PICK a : a = [row |-> p, old |-> Linked, new |-> Absent]
    OBVIOUS
  <2>2. /\ statement'[c] = a /\ a.row = p /\ Exists(c, p)
        /\ UNCHANGED <<log, tx, target, unborn, missed>> /\ phase[c] \in {"idle", "open"}
    BY <1>1, <2>1 DEF Unrelate, Editing, Execute, TypeInv, UndoTypes, history, undo
  <2>3. target[c] = 0
    BY <2>2 DEF TypeInv, RecordsInv
  <2>4. ASSUME NEW e \in DOMAIN unborn, Touches(a, e) PROVE e \in missed[c]
    <3>1. e \in Eid
      BY DEF TypeInv, UndoTypes
    <3>2. e \in {p[1], p[2]}
      BY <2>2, <2>4, <3>1, EndsOfPairs DEF Touches, PairsOf
    <3> QED
      BY <2>2, <2>3, <3>2, ViewIsSound, SeenIsMissed
  <2> QED
    BY <1>0, <2>2, <2>4 DEF MissedOf, TouchedIn, ActionsOf
<1>2. CASE WriteFails(c)
  <2>1. statement'[c] = None /\ UNCHANGED <<log, tx, target, unborn, missed>>
    BY <1>2 DEF WriteFails, TypeInv, UndoTypes, history, undo
  <2> QED
    BY <1>0, <2>1 DEF MissedOf, TouchedIn, ActionsOf
<1>3. ASSUME NEW t \in DOMAIN log, Undo(c, t) PROVE MissedOf(c)'
  <2>1. t # 0
    BY ToSetProperties DEF TypeInv, UndoTypes
  <2>2. target'[c] = t /\ tx' = tx /\ tx[c] = 0
    BY <1>3 DEF Undo, TypeInv, UndoTypes, RecordsInv
  <2> QED
    BY <2>1, <2>2 DEF MissedOf
<1>4. CASE UndoReports(c) \/ UndoRaises(c) \/ UndoAction(c)
  <2>1. phase[c] = "undoing" /\ target' = target /\ tx' = tx
    BY <1>4 DEF UndoReports, UndoRaises, UndoAction, undo
  <2>2. target[c] # 0 /\ tx[c] = 0
    BY <2>1 DEF TypeInv, RecordsInv
  <2> QED
    BY <2>1, <2>2 DEF MissedOf
<1>5. CASE Commit(c) \/ Rollback(c)
  <2>1. Reset(c)
    BY <1>5 DEF Commit, Rollback
  <2>2. statement'[c] = None /\ tx'[c] = 0
    BY <2>1 DEF Reset, TypeInv, UndoTypes
  <2> QED
    BY <2>2 DEF MissedOf
<1>6. CASE Write(c)
  <2>1. statement'[c] = None /\ missed' = missed /\ unborn' = unborn /\ target' = target
    BY <1>6 DEF Write, TypeInv, UndoTypes, undo
  <2>2. CASE UNCHANGED <<log, tx>>
    BY <1>0, <2>1, <2>2 DEF MissedOf, TouchedIn, ActionsOf
  <2>3. CASE target[c] = 0 /\ Grows(c, {statement[c]})
    <3>1. statement[c] # None
      BY <1>6 DEF Write
    <3>2. ASSUME NEW e \in DOMAIN unborn, TouchedIn(log', tx'[c], e) PROVE e \in missed[c]
      <4>1. (tx[c] # 0 /\ TouchedIn(log, tx[c], e)) \/ Touches(statement[c], e)
        BY <2>3, <3>2, GrowsTells
      <4> QED
        BY <1>0, <2>3, <3>1, <4>1 DEF MissedOf
    <3> QED
      BY <2>1, <3>2 DEF MissedOf
  <2> QED
    BY <1>6, <2>2, <2>3, LateRecord
<1> QED
  BY <1>1, <1>2, <1>3, <1>4, <1>5, <1>6, EditMissed

--------------------------------------------------------------------------------
\* What is left about the entities whose creation is being undone.

\* Who is excused stays so.
LEMMA ExcusesStay ==
  ASSUME TypeInv, Steps
  PROVE  excused \subseteq excused'
<1>1. ASSUME NEW c \in Cnx, Commit(c) PROVE excused \subseteq excused'
  BY <1>1 DEF Commit
<1> QED
  BY <1>1, HistoryKept

\* What is committed about the entities whose creation is being undone, after a step
\* of another connection,
LEMMA UntouchedUncreated ==
  ASSUME TypeInv, Steps, NEW c \in Cnx, Untouched(c), UncreatedOf(c)
  PROVE  UncreatedOf(c)'
<1>1. SUFFICES ASSUME phase[c] \in {"undoing", "raised"} PROVE UncreatedOf(c)'
  BY DEF UncreatedOf, Untouched
<1>2. target[c] # 0 /\ target'[c] = target[c] /\ script'[c] = script[c]
  BY <1>1 DEF Untouched, TypeInv, RecordsInv
<1>3. Recorded(c)' = Recorded(c) /\ Left(c)' = Left(c)
  BY <1>2 DEF Untouched, Recorded, Left
<1>4. Uncreated(c)' = Uncreated(c)
  BY <1>3 DEF Uncreated
<1>5. ASSUME NEW e \in Eid, owner'[e] = c, now'[e] = Absent PROVE e \in Uncreated(c)
  BY <1>1, <1>5 DEF Untouched, UncreatedOf, Row
<1>6. ASSUME log'[target[c]].status = "committed",
             NEW e \in Uncreated(c), NEW t \in 1 .. Len(log'), log'[t].status = "committed",
             t > target[c], TouchedIn(log', t, e)
      PROVE  <<t, e>> \in excused'
  <2>0. log[target[c]].status = "committed"
    <3>1. target[c] \in 1 .. Len(log) /\ log[target[c]].status # "open"
      BY <1>2 DEF TypeInv, RecordsInv
    <3>2. target[c] \in 1 .. Len(log')
      BY <3>1, RecordsPersist
    <3>3. \/ log[target[c]].status = "committed"
          \/ \E d \in Cnx : Commit(d) /\ target[c] = tx[d]
      BY <1>6, <3>2, RecordsPersist
    <3>4. ASSUME NEW d \in Cnx, target[c] = tx[d] PROVE FALSE
      BY <1>2, <3>1, <3>4 DEF TypeInv, RecordsInv
    <3> QED
      BY <3>3, <3>4
  <2>1. /\ t \in 1 .. Len(log) /\ ActionsOf(log', t) = ActionsOf(log, t)
        /\ \/ log[t].status = "committed"
           \/ \E d \in Cnx : Commit(d) /\ t = tx[d]
    BY <1>6, RecordsPersist
  <2>2. TouchedIn(log, t, e)
    BY <1>6, <2>1, SameActions
  <2>3. CASE log[t].status = "committed"
    BY <1>1, <1>6, <2>0, <2>1, <2>2, <2>3, ExcusesStay DEF UncreatedOf
  <2>4. ASSUME NEW d \in Cnx, Commit(d), t = tx[d] PROVE <<t, e>> \in excused'
    <3>1. t # 0
      BY <2>1
    <3>2. DOMAIN Recorded(c) = 1 .. Len(Recorded(c)) /\ Left(c) \in Nat
      BY <1>1, RecordedRows, ToSetProperties
    <3>3. e \in Created(target[c])
      BY <3>2 DEF Uncreated, Created, Recorded
    <3>4. e \in UNION {Created(target[x]) : x \in {y \in Cnx : target[y] # 0}}
      BY <1>2, <3>3
    <3>5. ({tx[d]} \ {0}) \X (missed[d] \cup
                UNION {Created(target[x]) : x \in {y \in Cnx : target[y] # 0}}) \subseteq excused'
      BY <2>4 DEF Commit
    <3> QED
      BY <2>4, <3>1, <3>4, <3>5
  <2> QED
    BY <2>1, <2>3, <2>4
<1> QED
  BY <1>2, <1>4, <1>5, <1>6 DEF UncreatedOf

\* What is committed about these entities, as the undo takes its next action,
LEMMA ReportsUncreated ==
  ASSUME TypeInv, UndoingInv, NEW c \in Cnx, UncreatedOf(c), UndoReports(c) \/ UndoAction(c)
  PROVE  UncreatedOf(c)'
<1>1. /\ phase[c] = "undoing" /\ phase'[c] = "undoing" /\ script[c] # <<>>
      /\ script'[c] = Tail(script[c]) /\ target'[c] = target[c] /\ log' = log
      /\ UNCHANGED <<now, committed, owner, excused>>
  BY DEF UndoReports, UndoAction, TypeInv, UndoTypes, database, history
<1>2. PICK a \in Action, k \in 1 .. Len(Recorded(c)) :
            /\ a = Head(script[c]) /\ k = Left(c) /\ Left(c)' = k - 1
            /\ a = Recorded(c)[k] /\ Recorded(c)' = Recorded(c)
  BY <1>1, NextAction
<1>3. PICK n \in Nat, R \in Seq(Action) : n = Len(R) /\ R = Recorded(c) /\ k \in 1 .. n
  BY <1>1, <1>2, RecordedRows
<1>4. (k - 1) + 1 .. n = {k} \cup k + 1 .. n
  BY <1>3
<1>5. Uncreated(c)' = Uncreated(c) \cup {e \in Eid : IsCreation(a) /\ a.row = e}
  BY <1>2, <1>3, <1>4 DEF Uncreated
<1>6. ASSUME log[target[c]].status = "committed",
             IsCreation(a), NEW t \in 1 .. Len(log), log[t].status = "committed",
             t > target[c], TouchedIn(log, t, a.row)
      PROVE  FALSE
  <2>1. HasLater(target[c], a.row)
    <3>1. DOMAIN log = 1 .. Len(log)
      BY ToSetProperties DEF TypeInv, UndoTypes
    <3> QED
      BY <1>6, <3>1 DEF HasLater, TouchedIn, ActionsOf, ToSet
  <2>2. ~UndoAction(c)
    BY <1>2, <1>6, <2>1 DEF UndoAction
  <2>3. ~Hopeless(c, a)
    BY <1>6, EidsAssumption DEF Hopeless, IsCreation
  <2> QED
    BY <1>2, <2>2, <2>3 DEF UndoReports
<1> QED
  BY <1>1, <1>5, <1>6 DEF UncreatedOf, TouchedIn, ActionsOf

\* as it deletes one, which no pair may hold any more,
LEMMA WriteUncreated ==
  ASSUME TypeInv, UndoingInv, NEW c \in Cnx, UncreatedOf(c), Write(c)
  PROVE  UncreatedOf(c)'
<1>0. PICK s \in Action, v \in Contents :
            /\ s = statement[c] /\ s # None /\ s.row \in Row
            /\ v = IF now[s.row] = Absent /\ s.old # Absent THEN Absent ELSE s.new
            /\ now'[s.row] = v
            /\ v = Absent /\ now[s.row] = Absent => owner' = owner
            /\ \A r \in Row : r # s.row => now'[r] = now[r] /\ owner'[r] = owner[r]
  BY WriteMoves
<1>1. phase' = phase /\ target' = target /\ script' = script /\ excused' = excused
  BY DEF Write, undo
<1>2. SUFFICES ASSUME phase[c] = "undoing" PROVE UncreatedOf(c)'
  <2>1. phase[c] # "raised"
    BY <1>0, StatementAssumption DEF TypeInv, RecordsInv
  <2> QED
    BY <1>1, <2>1 DEF UncreatedOf
<1>3. log' = log
  <2>1. target[c] # 0
    BY <1>2 DEF TypeInv, RecordsInv
  <2> QED
    BY <2>1, LateRecord
<1>4. Uncreated(c)' = Uncreated(c)
  BY <1>1, <1>3 DEF Uncreated, Left, Recorded
<1>5. ASSUME NEW e \in Eid, owner'[e] = c, now'[e] = Absent PROVE e \in Uncreated(c)
  <2>1. e \in Row
    BY DEF Row
  <2>2. CASE e # s.row
    BY <1>0, <1>2, <1>5, <2>1, <2>2 DEF UncreatedOf
  <2>3. CASE e = s.row /\ now[e] = Absent
    BY <1>0, <1>2, <1>5, <2>3 DEF UncreatedOf
  <2>4. CASE e = s.row /\ now[e] # Absent
    <3>1. PICK n \in Nat, R \in Seq(Action), k \in Nat :
             n = Len(R) /\ R = Recorded(c) /\ k = Left(c)
      BY <1>2, RecordedRows
    <3>2. k < n /\ s.row = R[k + 1].row /\ s.new = R[k + 1].old
      BY <1>0, <1>2, <3>1 DEF UndoingInv, UndoingOf, Reverses
    <3>3. s.new = Absent
      BY <1>0, <1>5, <2>4
    <3>4. k + 1 \in k + 1 .. n /\ IsCreation(R[k + 1]) /\ R[k + 1].row = e
      BY <2>4, <3>1, <3>2, <3>3 DEF IsCreation
    <3> QED
      BY <3>1, <3>4 DEF Uncreated
  <2> QED
    BY <2>2, <2>3, <2>4
<1> QED
  BY <1>1, <1>2, <1>3, <1>4, <1>5 DEF UncreatedOf

\* and so after each step of its own.
LEMMA OwnUncreated ==
  ASSUME TypeInv, UndoingInv, NEW c \in Cnx, UncreatedOf(c),
         \/ EditStep(c)
         \/ \E p \in Pair : Unrelate(c, p)
         \/ Write(c) \/ WriteFails(c)
         \/ \E t \in DOMAIN log : Undo(c, t)
         \/ UndoReports(c) \/ UndoRaises(c) \/ UndoAction(c)
         \/ Commit(c) \/ Rollback(c)
  PROVE  UncreatedOf(c)'
<1>1. CASE EditStep(c) \/ \E p \in Pair : Unrelate(c, p)
  <2>1. phase'[c] = "open"
    BY <1>1 DEF EditStep, Unrelate, Execute, TypeInv, UndoTypes
  <2> QED
    BY <2>1 DEF UncreatedOf
<1>2. CASE WriteFails(c) \/ Commit(c) \/ Rollback(c)
  <2>1. phase'[c] \in {"failed", "idle"}
    BY <1>2 DEF WriteFails, Commit, Rollback, Reset, TypeInv, UndoTypes
  <2> QED
    BY <2>1 DEF UncreatedOf
<1>3. CASE UndoRaises(c)
  <2>1. /\ phase[c] = "undoing" /\ UNCHANGED <<log, script, target, now, owner, excused>>
    BY <1>3 DEF UndoRaises, TypeInv, UndoTypes, undo, database, history
  <2> QED
    BY <2>1 DEF UncreatedOf, Uncreated, Left, Recorded, TouchedIn, ActionsOf
<1>4. ASSUME NEW t \in DOMAIN log, Undo(c, t) PROVE UncreatedOf(c)'
  <2>1. /\ phase[c] = "idle" /\ owner' = owner /\ log' = log /\ target'[c] = t
        /\ script'[c] = Reverse(log[t].actions)
    BY <1>4 DEF Undo, database, TypeInv, UndoTypes
  <2>2. PICK R \in Seq(Action), n \in Nat : R = log[t].actions /\ n = Len(R)
    <3>1. t \in 1 .. Len(log)
      BY ToSetProperties DEF TypeInv, UndoTypes
    <3> QED
      BY <3>1, RecordedActions, ToSetProperties
  <2>3. Left(c)' = n /\ Recorded(c)' = R
    BY <2>1, <2>2, ReverseProperties DEF Left, Recorded
  <2>4. n + 1 .. n = {}
    BY <2>2
  <2>5. Uncreated(c)' = {}
    BY <2>2, <2>3, <2>4 DEF Uncreated
  <2>6. \A e \in Eid : owner'[e] # c
    BY <2>1 DEF TypeInv, RecordsInv, Row
  <2> QED
    BY <2>5, <2>6 DEF UncreatedOf
<1> QED
  BY <1>1, <1>2, <1>3, <1>4, ReportsUncreated, WriteUncreated

--------------------------------------------------------------------------------
\* What a record tells of the rows before its transaction.

\* The rows a sequence of actions is about, and what it tells a row was before.
RowsIn(as) == {as[i].row : i \in DOMAIN as}
BeforeIn(as, r) == as[CHOOSE i \in DOMAIN as :
                         as[i].row = r /\ \A j \in 1 .. i - 1 : as[j].row # r].old

\* The operators of the model, for a given record.
LEMMA RecordOperators ==
  ASSUME NEW t
  PROVE  /\ RowsOf(t) = RowsIn(log[t].actions)
         /\ \A r : Before(t, r) = BeforeIn(log[t].actions, r)
  BY DEF RowsOf, RowsIn, Before, BeforeIn

\* The first action on a row tells.
LEMMA FirstTells ==
  ASSUME NEW as \in Seq(Action), NEW i \in 1 .. Len(as),
         \A j \in 1 .. i - 1 : as[j].row # as[i].row
  PROVE  BeforeIn(as, as[i].row) = as[i].old
<1>0. PICK r : r = as[i].row
  OBVIOUS
<1>1. PICK n \in Nat : n = Len(as) /\ DOMAIN as = 1 .. n /\ r = as[i].row
  BY <1>0, ToSetProperties
<1>2. PICK k : k = CHOOSE x \in 1 .. n : as[x].row = r /\ \A j \in 1 .. x - 1 : as[j].row # r
  OBVIOUS
<1>3. k \in 1 .. n /\ as[k].row = r /\ \A j \in 1 .. k - 1 : as[j].row # r
  BY <1>1, <1>2
<1>5. k \in Int /\ i \in Int /\ 1 <= k /\ 1 <= i
  BY <1>1, <1>3
<1>6. ~(k < i)
  <2>1. k < i => k \in 1 .. i - 1
    BY <1>5
  <2> QED
    BY <1>0, <1>3, <2>1
<1>7. ~(i < k)
  <2>1. i < k => i \in 1 .. k - 1
    BY <1>5
  <2> QED
    BY <1>0, <1>3, <2>1
<1>4. k = i
  BY <1>5, <1>6, <1>7
<1> QED
  BY <1>1, <1>2, <1>4 DEF BeforeIn

\* There is a first action on each row of a record.
LEMMA FirstAction ==
  ASSUME NEW as \in Seq(Action), NEW r \in RowsIn(as)
  PROVE  \E i \in 1 .. Len(as) : /\ as[i].row = r /\ BeforeIn(as, r) = as[i].old
                                 /\ \A j \in 1 .. i - 1 : as[j].row # r
<1>1. PICK n \in Nat : n = Len(as) /\ DOMAIN as = 1 .. n
  BY ToSetProperties
<1>2. PICK I : I = {i \in 1 .. n : as[i].row = r}
  OBVIOUS
<1>3. I # {} /\ I \subseteq 1 .. n
  BY <1>1, <1>2 DEF RowsIn
<1>4. PICK m \in I : \A j \in I : m <= j
  BY <1>3, MinBounded
<1>5. m \in 1 .. n /\ as[m].row = r
  BY <1>2, <1>3, <1>4
<1>6. ASSUME NEW j \in 1 .. m - 1 PROVE as[j].row # r
  <2>2. m \in 1 .. n
    BY <1>5
  <2>1. j \in 1 .. n /\ ~(m <= j)
    BY <2>2
  <2> QED
    BY <1>2, <1>4, <2>1
<1> QED
  BY <1>1, <1>5, <1>6, FirstTells

\* Recorded after: what is told of a row is told by the first that tells of it.
LEMMA JoinedRecords ==
  ASSUME NEW as \in Seq(Action), NEW bs \in Seq(Action), NEW r
  PROVE  /\ r \in RowsIn(as \o bs) <=> r \in RowsIn(as) \/ \E x \in ToSet(bs) : x.row = r
         /\ r \in RowsIn(as) => BeforeIn(as \o bs, r) = BeforeIn(as, r)
         /\ \A v : /\ r \in RowsIn(as \o bs) /\ r \notin RowsIn(as)
                   /\ \A x \in ToSet(bs) : x.row = r => x.old = v
                   => BeforeIn(as \o bs, r) = v
<1>1. PICK m \in Nat, n \in Nat : /\ m = Len(as) /\ DOMAIN as = 1 .. m
                                  /\ n = Len(bs) /\ DOMAIN bs = 1 .. n
  BY ToSetProperties
<1>12. /\ as \o bs \in Seq(Action) /\ Len(as \o bs) = Len(as) + Len(bs)
       /\ \A i \in 1 .. Len(as) + Len(bs) :
              (as \o bs)[i] = IF i <= Len(as) THEN as[i] ELSE bs[i - Len(as)]
  BY ConcatProperties
<1>2. PICK cs \in Seq(Action) :
        /\ cs = as \o bs /\ Len(cs) = Len(as) + Len(bs)
        /\ \A i \in 1 .. Len(as) + Len(bs) :
              cs[i] = IF i <= Len(as) THEN as[i] ELSE bs[i - Len(as)]
  BY <1>12
<1>9. DOMAIN cs = 1 .. Len(cs)
  BY ToSetProperties
<1>3. /\ Len(cs) = m + n /\ DOMAIN cs = 1 .. m + n
      /\ \A i \in 1 .. m + n : cs[i] = IF i <= m THEN as[i] ELSE bs[i - m]
  BY <1>1, <1>2, <1>9
<1>10. ASSUME NEW i \in 1 .. m PROVE i \in 1 .. m + n /\ cs[i] = as[i]
  <2>1. i \in 1 .. m + n /\ i <= m
    BY <1>10
  <2> QED
    BY <1>3, <2>1
<1>11. ASSUME NEW i \in 1 .. n PROVE m + i \in 1 .. m + n /\ cs[m + i] = bs[i]
  <2>1. m + i \in 1 .. m + n /\ ~(m + i <= m) /\ (m + i) - m = i
    BY <1>11
  <2> QED
    BY <1>3, <2>1
<1>4. /\ \A i \in 1 .. m : i \in 1 .. m + n /\ cs[i] = as[i]
      /\ \A i \in 1 .. n : m + i \in 1 .. m + n /\ cs[m + i] = bs[i]
  BY <1>10, <1>11
<1>5. ASSUME NEW i \in 1 .. m + n
      PROVE  \/ i \in 1 .. m /\ cs[i] = as[i]
             \/ i - m \in 1 .. n /\ cs[i] = bs[i - m]
  <2>1. i \in 1 .. m \/ (i - m \in 1 .. n /\ ~(i <= m))
    BY <1>5
  <2> QED
    BY <1>3, <1>4, <2>1
<1>6. r \in RowsIn(cs) <=> r \in RowsIn(as) \/ \E x \in ToSet(bs) : x.row = r
  <2>1. r \in RowsIn(cs) <=> \E i \in 1 .. m + n : cs[i].row = r
    BY <1>3 DEF RowsIn
  <2>2. r \in RowsIn(as) <=> \E i \in 1 .. m : as[i].row = r
    BY <1>1 DEF RowsIn
  <2>3. (\E x \in ToSet(bs) : x.row = r) <=> \E i \in 1 .. n : bs[i].row = r
    BY <1>1 DEF ToSet
  <2>4. ASSUME NEW i \in 1 .. m + n, cs[i].row = r
        PROVE  (\E j \in 1 .. m : as[j].row = r) \/ \E j \in 1 .. n : bs[j].row = r
    BY <1>5, <2>4
  <2>5. ASSUME NEW i \in 1 .. m, as[i].row = r PROVE \E j \in 1 .. m + n : cs[j].row = r
    BY <1>10, <2>5
  <2>6. ASSUME NEW i \in 1 .. n, bs[i].row = r PROVE \E j \in 1 .. m + n : cs[j].row = r
    BY <1>11, <2>6
  <2> QED
    BY <2>1, <2>2, <2>3, <2>4, <2>5, <2>6
<1>7. ASSUME r \in RowsIn(as) PROVE BeforeIn(cs, r) = BeforeIn(as, r)
  <2>1. PICK i \in 1 .. m : /\ as[i].row = r /\ BeforeIn(as, r) = as[i].old
                            /\ \A j \in 1 .. i - 1 : as[j].row # r
    BY <1>1, <1>7, FirstAction
  <2>2. i \in 1 .. m + n /\ cs[i] = as[i]
    BY <1>4
  <2>3. ASSUME NEW j \in 1 .. i - 1 PROVE cs[j].row # r
    <3>1. j \in 1 .. m
      BY <2>1, <2>3
    <3> QED
      BY <1>4, <2>1, <3>1
  <2>4. BeforeIn(cs, cs[i].row) = cs[i].old
    BY <1>3, <2>1, <2>2, <2>3, FirstTells
  <2> QED
    BY <2>1, <2>2, <2>4
<1>8. ASSUME r \in RowsIn(cs), r \notin RowsIn(as), NEW v,
             \A x \in ToSet(bs) : x.row = r => x.old = v
      PROVE  BeforeIn(cs, r) = v
  <2>1. PICK i \in 1 .. m + n : cs[i].row = r /\ BeforeIn(cs, r) = cs[i].old
    BY <1>3, <1>8, FirstAction
  <2>2. i - m \in 1 .. n /\ cs[i] = bs[i - m]
    BY <1>1, <1>5, <1>8, <2>1 DEF RowsIn
  <2>3. bs[i - m] \in ToSet(bs)
    BY <1>1, <2>2 DEF ToSet
  <2> QED
    BY <1>8, <2>1, <2>2, <2>3
<1> QED
  BY <1>2, <1>6, <1>7, <1>8

\* The actions new tell what the record of c told of r, or if it did not, what S tells.
TellsMore(c, S, r, new) ==
    /\ new = log'[tx'[c]].actions
    /\ r \in RowsIn(new) <=> \/ tx[c] # 0 /\ r \in RowsOf(tx[c])
                             \/ \E x \in S : x.row = r
    /\ tx[c] # 0 /\ r \in RowsOf(tx[c]) => BeforeIn(new, r) = Before(tx[c], r)
    /\ \A v : /\ r \in RowsIn(new) /\ ~(tx[c] # 0 /\ r \in RowsOf(tx[c]))
              /\ \A x \in S : x.row = r => x.old = v
              => BeforeIn(new, r) = v

\* What the record of c tells once it has grown.
LEMMA AppendsTells ==
  ASSUME NEW c \in Cnx, NEW S, Appends(c, S), NEW r
  PROVE  \E new \in Seq(Action) : TellsMore(c, S, r, new)
<1>1. PICK old \in Seq(Action), as \in Seq(Action) :
        /\ old = IF tx[c] = 0 THEN <<>> ELSE log[tx[c]].actions
        /\ ToSet(as) = S
        /\ log'[tx'[c]].actions = old \o as
  BY DEF Appends
<1>2. old \o as \in Seq(Action)
  BY ConcatProperties
<1>3. r \in RowsIn(old) <=> tx[c] # 0 /\ r \in RowsOf(tx[c])
  <2>1. CASE tx[c] = 0
    BY <1>1, <2>1 DEF RowsIn
  <2>2. CASE tx[c] # 0
    BY <1>1, <2>2, RecordOperators
  <2> QED
    BY <2>1, <2>2
<1>4. tx[c] # 0 => BeforeIn(old, r) = Before(tx[c], r)
  BY <1>1, RecordOperators
<1>9. old \in Seq(Action) /\ as \in Seq(Action)
  BY <1>1
<1>5. /\ r \in RowsIn(old \o as) <=> r \in RowsIn(old) \/ \E x \in ToSet(as) : x.row = r
      /\ r \in RowsIn(old) => BeforeIn(old \o as, r) = BeforeIn(old, r)
      /\ \A v : /\ r \in RowsIn(old \o as) /\ r \notin RowsIn(old)
                /\ \A x \in ToSet(as) : x.row = r => x.old = v
                => BeforeIn(old \o as, r) = v
  BY <1>9, JoinedRecords, Zenon
<1>6. PICK new \in Seq(Action) : new = old \o as
  BY <1>2
<1>7. /\ r \in RowsIn(new) <=> \/ tx[c] # 0 /\ r \in RowsOf(tx[c])
                              \/ \E x \in S : x.row = r
      /\ tx[c] # 0 /\ r \in RowsOf(tx[c]) => BeforeIn(new, r) = Before(tx[c], r)
  BY <1>1, <1>3, <1>4, <1>5, <1>6
<1>8. ASSUME NEW v, r \in RowsIn(new), ~(tx[c] # 0 /\ r \in RowsOf(tx[c])),
             \A x \in S : x.row = r => x.old = v
      PROVE  BeforeIn(new, r) = v
  BY <1>1, <1>3, <1>5, <1>6, <1>8
<1> QED
  BY <1>1, <1>6, <1>7, <1>8 DEF TellsMore

--------------------------------------------------------------------------------
\* A record tells what was committed.

\* What a pair may be; a recorded pair was one of them.
Related == {Linked, Absent}
PairsInv ==
    /\ \A p \in Pair : now[p] \in Related /\ committed[p] \in Related
    /\ \A t \in 1 .. Len(log) : \A x \in ActionsOf(log, t) : PairAction(x)

\* The record that c is writing tells of r.
Tells(c, r) == tx[c] # 0 /\ r \in RowsOf(tx[c])

\* What c is about to execute changes something; it is recorded, or will be afterwards.
PendingOf(c) ==
    target[c] = 0 /\ statement[c] # None =>
        /\ PairAction(statement[c]) /\ Changes(statement[c])
        /\ \/ statement[c].row \in Pair /\ statement[c].new = Absent
           \/ Tells(c, statement[c].row)

\* The rows c wrote are those of its record, or of the one it undoes.
OwnedOf(c) ==
    \A r \in Row : owner[r] = c =>
        IF target[c] = 0 THEN Tells(c, r) ELSE r \in RowsOf(target[c])

\* Unless it was overtaken, c recorded what was committed of a row, once it has written it.
ExactOf(c) ==
    target[c] = 0 /\ phase[c] = "open" /\ overtaken[c] = {} =>
        \A r \in Row : Tells(c, r) =>
            \/ owner[r] = c /\ Before(tx[c], r) = committed[r]
            \/ /\ owner[r] # c /\ statement[c] # None /\ statement[c].row = r
               /\ Before(tx[c], r) = statement[c].old

\* So for all.
TellingInv == \A c \in Cnx : PendingOf(c) /\ OwnedOf(c) /\ ExactOf(c)

\* What the record of c tells once it has grown.
LEMMA GrownRecord ==
  ASSUME TypeInv, NEW c \in Cnx, NEW S, Grows(c, S), Appends(c, S), NEW r
  PROVE  /\ Tells(c, r)' <=> Tells(c, r) \/ \E x \in S : x.row = r
         /\ Tells(c, r) => Before(tx[c], r)' = Before(tx[c], r)
         /\ \A v : Tells(c, r)' /\ ~Tells(c, r) /\ (\A x \in S : x.row = r => x.old = v)
                      => Before(tx[c], r)' = v
<1>0. PICK new \in Seq(Action) : TellsMore(c, S, r, new)
  BY AppendsTells
<1>1. /\ new = log'[tx'[c]].actions
      /\ r \in RowsIn(new) <=> \/ tx[c] # 0 /\ r \in RowsOf(tx[c])
                               \/ \E x \in S : x.row = r
      /\ tx[c] # 0 /\ r \in RowsOf(tx[c]) => BeforeIn(new, r) = Before(tx[c], r)
      /\ \A v : /\ r \in RowsIn(new) /\ ~(tx[c] # 0 /\ r \in RowsOf(tx[c]))
                /\ \A x \in S : x.row = r => x.old = v
                => BeforeIn(new, r) = v
  BY <1>0 DEF TellsMore
<1>2. tx'[c] # 0
  BY GrowsApart
<1>3. RowsOf(tx[c])' = RowsIn(new)
  BY <1>1 DEF RowsOf, RowsIn
<1>4. Before(tx[c], r)' = BeforeIn(new, r)
  BY <1>1 DEF Before, BeforeIn
<1>5. Tells(c, r)' <=> r \in RowsIn(new)
  BY <1>2, <1>3 DEF Tells
<1>6. Tells(c, r) <=> tx[c] # 0 /\ r \in RowsOf(tx[c])
  BY DEF Tells
<1>7. Tells(c, r) => Before(tx[c], r)' = Before(tx[c], r)
  BY <1>1, <1>4, <1>6
<1>8. ASSUME NEW v, Tells(c, r)', ~Tells(c, r), \A x \in S : x.row = r => x.old = v
      PROVE  Before(tx[c], r)' = v
  BY <1>1, <1>4, <1>5, <1>6, <1>8
<1> QED
  BY <1>1, <1>5, <1>6, <1>7, <1>8

\* What c tells after an edition,
LEMMA EditTelling ==
  ASSUME TypeInv, DatabaseInv, PairsInv, NEW c \in Cnx, PendingOf(c), OwnedOf(c), ExactOf(c),
         EditStep(c)
  PROVE  PendingOf(c)' /\ OwnedOf(c)' /\ ExactOf(c)'
<1>1. PICK a \in Action, S \in SUBSET Action, gone \in SUBSET Pair :
        /\ Recording(c, a, S, gone)
        /\ phase[c] \in {"idle", "open"} /\ statement[c] = None
        /\ Grows(c, S) /\ Execute(c, a) /\ a \in S
        /\ \A p \in gone : Mine(c, p) /\ Exists(c, p)
        /\ now' = [r \in Row |-> IF r \in gone THEN Absent ELSE now[r]]
        /\ owner' = [r \in Row |-> IF r \in gone THEN c ELSE owner[r]]
        /\ UNCHANGED <<committed, history, undo>>
  BY DEF EditStep
<1>2. /\ S = Unlinking(gone) \cup {a} /\ Appends(c, S)
      /\ a.row \notin gone /\ PairAction(a) /\ Changes(a)
  BY <1>1 DEF Recording
<1>3. /\ target[c] = 0 /\ target' = target /\ statement'[c] = a
      /\ overtaken' = overtaken /\ committed' = committed
  BY <1>1 DEF Execute, TypeInv, UndoTypes, RecordsInv, history, undo
<1>4. ASSUME NEW r \in Row
      PROVE  /\ Tells(c, r)' <=> Tells(c, r) \/ \E x \in S : x.row = r
             /\ Tells(c, r) => Before(tx[c], r)' = Before(tx[c], r)
             /\ \A v : Tells(c, r)' /\ ~Tells(c, r) /\ (\A x \in S : x.row = r => x.old = v)
                          => Before(tx[c], r)' = v
  BY <1>1, <1>2, GrownRecord
<1>5. /\ \A x \in S : x = a \/ (x.row \in gone /\ x.old = Linked)
      /\ \A p \in gone : \E x \in S : x.row = p
  <2>1. ASSUME NEW x \in S PROVE x = a \/ (x.row \in gone /\ x.old = Linked)
    BY <1>2 DEF Unlinking
  <2>2. ASSUME NEW p \in gone PROVE \E x \in S : x.row = p
    <3>1. PICK x : x = [row |-> p, old |-> Linked, new |-> Absent]
      OBVIOUS
    <3>2. x \in S /\ x.row = p
      BY <1>2, <3>1 DEF Unlinking
    <3> QED
      BY <3>2
  <2> QED
    BY <2>1, <2>2
<1>6. a.row \in Row
  BY DEF Action
<1>7. PendingOf(c)'
  BY <1>1, <1>2, <1>3, <1>4, <1>6 DEF PendingOf
<1>8. OwnedOf(c)'
  BY <1>1, <1>3, <1>4, <1>5 DEF OwnedOf
<1>9. ASSUME NEW r \in Row, overtaken[c] = {}, Tells(c, r)'
      PROVE  \/ owner'[r] = c /\ Before(tx[c], r)' = committed[r]
             \/ owner'[r] # c /\ a.row = r /\ Before(tx[c], r)' = a.old
  <2>1. CASE Tells(c, r)
    <3>1. phase[c] = "open"
      BY <1>1, <2>1 DEF Tells, TypeInv, RecordsInv
    <3>2. owner[r] = c /\ Before(tx[c], r) = committed[r]
      BY <1>1, <1>3, <1>9, <2>1, <3>1 DEF ExactOf
    <3> QED
      BY <1>1, <1>4, <2>1, <3>2
  <2>2. CASE ~Tells(c, r) /\ r \in gone
    <3>1. owner[r] = Nobody
      BY <1>1, <1>3, <2>2 DEF OwnedOf, Mine
    <3>2. committed[r] = Linked
      BY <1>1, <2>2, <3>1 DEF Exists, Seen, DatabaseInv, RowsInv, PairsInv, Related
    <3>3. \A x \in S : x.row = r => x.old = Linked
      BY <1>2, <1>5, <2>2
    <3> QED
      BY <1>1, <1>4, <1>9, <2>2, <3>2, <3>3
  <2>3. CASE ~Tells(c, r) /\ r \notin gone
    <3>1. \A x \in S : x.row = r => x = a
      BY <1>5, <2>3
    <3>2. a.row = r
      BY <1>4, <1>9, <2>3, <3>1
    <3>3. owner'[r] # c
      BY <1>1, <1>3, <2>3 DEF OwnedOf
    <3> QED
      BY <1>4, <1>9, <2>3, <3>1, <3>2, <3>3
  <2> QED
    BY <2>1, <2>2, <2>3
<1>10. ExactOf(c)'
  BY <1>3, <1>9, StatementAssumption DEF ExactOf
<1> QED
  BY <1>7, <1>8, <1>10

\* An action of a record being undone is about one of its rows.
LEMMA RowsRecorded ==
  ASSUME TypeInv, NEW c \in Cnx, phase[c] \in {"undoing", "raised"},
         NEW i \in 1 .. Len(Recorded(c))
  PROVE  Recorded(c)[i].row \in RowsOf(target[c])
<1>1. DOMAIN Recorded(c) = 1 .. Len(Recorded(c))
  BY RecordedRows, ToSetProperties
<1> QED
  BY <1>1 DEF RowsOf, Recorded

\* after the execution of a statement,
LEMMA WriteTelling ==
  ASSUME TypeInv, DatabaseInv, UndoingInv, NEW c \in Cnx,
         PendingOf(c), OwnedOf(c), ExactOf(c), Write(c)
  PROVE  PendingOf(c)' /\ OwnedOf(c)' /\ ExactOf(c)'
<1>0. PICK s \in Action, v \in Contents :
            /\ s = statement[c] /\ s # None /\ s.row \in Row
            /\ v = IF now[s.row] = Absent /\ s.old # Absent THEN Absent ELSE s.new
            /\ MayWrite(c, s.row, s.new)
            /\ now'[s.row] = v
            /\ (v = Absent /\ now[s.row] = Absent) \/ owner'[s.row] = c
            /\ \A r \in Row : r # s.row => now'[r] = now[r] /\ owner'[r] = owner[r]
            /\ v = Absent /\ now[s.row] = Absent => owner' = owner
  BY WriteMoves
<1>1. /\ target' = target /\ statement'[c] = None /\ committed' = committed /\ phase' = phase
      /\ overtaken'[c] = {} => overtaken[c] = {} /\ now[s.row] = s.old
  BY <1>0 DEF Write, TypeInv, UndoTypes, undo
<1>2. CASE target[c] # 0
  <2>1. phase[c] = "undoing"
    BY <1>0, <1>2 DEF TypeInv, RecordsInv
  <2>2. UNCHANGED <<log, tx>>
    BY <1>2, LateRecord
  <2>3. PICK i : i = Left(c) + 1 /\ i \in 1 .. Len(Recorded(c)) /\ s.row = Recorded(c)[i].row
    <3>1. Left(c) \in Nat /\ Len(Recorded(c)) \in Nat
      BY <2>1, RecordedRows
    <3>2. Left(c) < Len(Recorded(c)) /\ s.row = Recorded(c)[Left(c) + 1].row
      BY <1>0, <2>1 DEF UndoingInv, UndoingOf, Reverses
    <3>3. Left(c) + 1 \in 1 .. Len(Recorded(c))
      BY <3>1, <3>2
    <3> QED
      BY <3>2, <3>3
  <2>4. s.row \in RowsOf(target[c])
    BY <2>1, <2>3, RowsRecorded
  <2>5. RowsOf(target[c])' = RowsOf(target[c])
    BY <1>1, <2>2 DEF RowsOf
  <2>6. OwnedOf(c)'
    BY <1>0, <1>1, <1>2, <2>4, <2>5 DEF OwnedOf
  <2> QED
    BY <1>1, <1>2, <2>6 DEF PendingOf, ExactOf
<1>3. CASE target[c] = 0
  <2>1. phase[c] = "open"
    BY <1>0, <1>3 DEF TypeInv, UndoTypes, RecordsInv, Phases
  <2>2. ASSUME NEW r \in Row
        PROVE  /\ Tells(c, r)' <=> Tells(c, r) \/ r = s.row
               /\ Tells(c, r) => Before(tx[c], r)' = Before(tx[c], r)
               /\ Tells(c, r)' /\ ~Tells(c, r) => Before(tx[c], r)' = s.old
    <3>1. CASE UNCHANGED <<log, tx>> /\ ~(s.row \in Pair /\ s.new = Absent)
      <4>1. Tells(c, s.row)
        BY <1>0, <1>3, <3>1 DEF PendingOf
      <4>2. (Tells(c, r)' <=> Tells(c, r)) /\ Before(tx[c], r)' = Before(tx[c], r)
        BY <3>1 DEF Tells, RowsOf, Before
      <4> QED
        BY <4>1, <4>2
    <3>2. CASE Grows(c, {s}) /\ Appends(c, {s})
      <4>1. /\ Tells(c, r)' <=> Tells(c, r) \/ \E x \in {s} : x.row = r
            /\ Tells(c, r) => Before(tx[c], r)' = Before(tx[c], r)
            /\ \A w : Tells(c, r)' /\ ~Tells(c, r) /\ (\A x \in {s} : x.row = r => x.old = w)
                          => Before(tx[c], r)' = w
        BY <3>2, GrownRecord
      <4> QED
        BY <4>1
    <3> QED
      BY <1>0, <1>3, <3>1, <3>2, LateRecord
  <2>3. OwnedOf(c)'
    BY <1>0, <1>1, <1>3, <2>2 DEF OwnedOf
  <2>4. ASSUME NEW r \in Row, overtaken'[c] = {}, Tells(c, r)'
        PROVE  owner'[r] = c /\ Before(tx[c], r)' = committed[r]
    <3>1. overtaken[c] = {} /\ now[s.row] = s.old
      BY <1>1, <2>4
    <3>2. Changes(s)
      BY <1>0, <1>3 DEF PendingOf
    <3>3. owner'[s.row] = c
      BY <1>0, <3>1, <3>2 DEF Changes
    <3>4. Tells(c, r) => \/ owner[r] = c /\ Before(tx[c], r) = committed[r]
                         \/ owner[r] # c /\ s.row = r /\ Before(tx[c], r) = s.old
      BY <1>0, <1>3, <2>1, <3>1 DEF ExactOf
    <3>5. owner[s.row] # c => committed[s.row] = s.old
      BY <1>0, <3>1 DEF MayWrite, Mine, DatabaseInv, RowsInv
    <3>6. CASE Tells(c, r) /\ owner[r] = c
      BY <1>0, <2>2, <3>3, <3>4, <3>6
    <3>7. CASE Tells(c, r) /\ owner[r] # c
      BY <2>2, <3>3, <3>4, <3>5, <3>7
    <3>8. CASE ~Tells(c, r)
      <4>1. r = s.row /\ Before(tx[c], r)' = s.old
        BY <2>2, <2>4, <3>8
      <4>2. owner[r] # c
        BY <1>3, <3>8 DEF OwnedOf
      <4> QED
        BY <3>3, <3>5, <4>1, <4>2
    <3> QED
      BY <3>6, <3>7, <3>8
  <2>5. ExactOf(c)'
    BY <1>1, <2>4 DEF ExactOf
  <2> QED
    BY <1>1, <2>3, <2>5 DEF PendingOf
<1> QED
  BY <1>2, <1>3

\* after what writes nothing,
LEMMA QuietTelling ==
  ASSUME TypeInv, NEW c \in Cnx, PendingOf(c), OwnedOf(c), ExactOf(c),
         \/ \E p \in Pair : Unrelate(c, p)
         \/ \E t \in DOMAIN log : Undo(c, t)
         \/ WriteFails(c) \/ UndoReports(c) \/ UndoRaises(c) \/ UndoAction(c)
  PROVE  PendingOf(c)' /\ OwnedOf(c)' /\ ExactOf(c)'
<1>1. UNCHANGED <<log, tx, committed, owner, overtaken>>
  BY DEF Unrelate, Undo, WriteFails, UndoReports, UndoRaises, UndoAction, database, history
<1>2. ASSUME NEW r PROVE (Tells(c, r)' <=> Tells(c, r)) /\ Before(tx[c], r)' = Before(tx[c], r)
  BY <1>1 DEF Tells, RowsOf, Before
<1>3. CASE \E p \in Pair : Unrelate(c, p)
  <2>0. PICK p \in Pair : Unrelate(c, p)
    BY <1>3
  <2>6. PICK a : a = [row |-> p, old |-> Linked, new |-> Absent]
    OBVIOUS
  <2>1. /\ a.row \in Pair /\ a.old = Linked /\ a.new = Absent
        /\ statement'[c] = a /\ target' = target /\ phase[c] \in {"idle", "open"}
        /\ statement[c] = None
    BY <2>0, <2>6 DEF Unrelate, Editing, Execute, TypeInv, UndoTypes, undo
  <2>2. PendingOf(c)'
    BY <2>1, ValuesAssumption DEF PendingOf, PairAction, Changes
  <2>3. OwnedOf(c)'
    BY <1>1, <1>2, <2>1 DEF OwnedOf, RowsOf
  <2>4. phase[c] = "idle" => \A r : ~Tells(c, r)
    BY DEF Tells, TypeInv, RecordsInv
  <2>5. ExactOf(c)'
    BY <1>1, <1>2, <2>1, <2>4 DEF ExactOf
  <2> QED
    BY <2>2, <2>3, <2>5
<1>4. CASE \E t \in DOMAIN log : Undo(c, t)
  <2>1. target'[c] # 0 /\ phase[c] = "idle"
    <3>1. DOMAIN log = 1 .. Len(log)
      BY ToSetProperties DEF TypeInv, UndoTypes
    <3> QED
      BY <1>4, <3>1 DEF Undo, TypeInv, UndoTypes
  <2>2. \A r \in Row : owner'[r] # c
    BY <1>1, <2>1 DEF TypeInv, RecordsInv
  <2> QED
    BY <2>1, <2>2 DEF PendingOf, OwnedOf, ExactOf
<1>5. CASE WriteFails(c)
  <2>1. statement'[c] = None /\ phase'[c] = "failed" /\ target' = target
    BY <1>5 DEF WriteFails, TypeInv, UndoTypes, undo
  <2> QED
    BY <1>1, <1>2, <2>1 DEF PendingOf, OwnedOf, ExactOf, RowsOf
<1>6. CASE UndoReports(c) \/ UndoRaises(c) \/ UndoAction(c)
  <2>1. target' = target /\ target[c] # 0
    BY <1>6 DEF UndoReports, UndoRaises, UndoAction, TypeInv, RecordsInv, undo
  <2> QED
    BY <1>1, <2>1 DEF PendingOf, OwnedOf, ExactOf, RowsOf
<1> QED
  BY <1>3, <1>4, <1>5, <1>6

\* once its transaction has ended,
LEMMA EndTelling ==
  ASSUME TypeInv, NEW c \in Cnx, Commit(c) \/ Rollback(c)
  PROVE  PendingOf(c)' /\ OwnedOf(c)' /\ ExactOf(c)'
<1>1. /\ phase'[c] = "idle" /\ statement'[c] = None
      /\ owner' = [r \in Row |-> IF owner[r] = c THEN Nobody ELSE owner[r]]
  BY DEF Commit, Rollback, Reset, TypeInv, UndoTypes
<1>2. \A r \in Row : owner'[r] # c
  BY <1>1, UndoNobodyAssumption
<1> QED
  BY <1>1, <1>2 DEF PendingOf, OwnedOf, ExactOf

\* and after a step of another connection.
LEMMA UntouchedTelling ==
  ASSUME TypeInv, NEW c \in Cnx, PendingOf(c), OwnedOf(c), ExactOf(c), Untouched(c)
  PROVE  PendingOf(c)' /\ OwnedOf(c)' /\ ExactOf(c)'
<1>1. /\ phase'[c] = phase[c] /\ statement'[c] = statement[c]
      /\ target'[c] = target[c] /\ tx'[c] = tx[c]
      /\ overtaken'[c] = {} => overtaken[c] = {}
      /\ target[c] # 0 => log'[target[c]].actions = log[target[c]].actions
      /\ tx[c] # 0 => log'[tx[c]] = log[tx[c]]
      /\ \A r \in Row : /\ owner'[r] = c <=> owner[r] = c
                        /\ owner[r] = c => committed'[r] = committed[r]
  BY DEF Untouched
<1>2. ASSUME NEW r PROVE /\ Tells(c, r)' <=> Tells(c, r)
                         /\ Tells(c, r) => Before(tx[c], r)' = Before(tx[c], r)
  <2>1. /\ RowsOf(tx[c])' = RowsIn(log'[tx'[c]].actions)
        /\ Before(tx[c], r)' = BeforeIn(log'[tx'[c]].actions, r)
    BY DEF RowsOf, Before, RowsIn, BeforeIn
  <2>2. /\ RowsOf(tx[c]) = RowsIn(log[tx[c]].actions)
        /\ Before(tx[c], r) = BeforeIn(log[tx[c]].actions, r)
    BY RecordOperators
  <2>3. tx[c] # 0 => log'[tx'[c]].actions = log[tx[c]].actions
    BY <1>1
  <2> QED
    BY <1>1, <2>1, <2>2, <2>3 DEF Tells
<1>3. target[c] # 0 => RowsOf(target[c])' = RowsOf(target[c])
  BY <1>1 DEF RowsOf
<1>4. PendingOf(c)'
  BY <1>1, <1>2 DEF PendingOf
<1>5. OwnedOf(c)'
  BY <1>1, <1>2, <1>3 DEF OwnedOf
<1>6. ExactOf(c)'
  BY <1>1, <1>2 DEF ExactOf
<1> QED
  BY <1>4, <1>5, <1>6

\* Every step keeps what the records tell.
LEMMA TellingStays ==
  ASSUME TypeInv, DatabaseInv, UndoingInv, PairsInv, TellingInv, Steps
  PROVE  TellingInv'
<1>1. ASSUME NEW c \in Cnx PROVE PendingOf(c)' /\ OwnedOf(c)' /\ ExactOf(c)'
  <2>1. PendingOf(c) /\ OwnedOf(c) /\ ExactOf(c)
    BY DEF TellingInv
  <2>2. CASE UNCHANGED vars
    <3>1. UNCHANGED <<log, tx, target, phase, statement, committed, owner, overtaken>>
      BY <2>2 DEF vars, undo, history, database
    <3>2. ASSUME NEW r PROVE (Tells(c, r)' <=> Tells(c, r)) /\ Before(tx[c], r)' = Before(tx[c], r)
      BY <3>1 DEF Tells, RowsOf, Before
    <3>3. RowsOf(target[c])' = RowsOf(target[c])
      BY <3>1 DEF RowsOf
    <3> QED
      BY <2>1, <3>1, <3>2, <3>3 DEF PendingOf, OwnedOf, ExactOf
  <2> QED
    BY <2>1, <2>2, StepsElsewhere, UntouchedTelling, EditTelling, WriteTelling, QuietTelling,
       EndTelling
<1> QED
  BY <1>1 DEF TellingInv

\* What a record tells after a step it told before, or is of a pair related or not.
LEMMA RecordedPairs ==
  ASSUME TypeInv, TellingInv, Steps, NEW t \in 1 .. Len(log'), NEW x \in ActionsOf(log', t)
  PROVE  (t \in 1 .. Len(log) /\ x \in ActionsOf(log, t)) \/ PairAction(x)
<1>1. ASSUME NEW c \in Cnx, NEW S, Grows(c, S), \A y \in S : PairAction(y)
      PROVE  (t \in 1 .. Len(log) /\ x \in ActionsOf(log, t)) \/ PairAction(x)
  <2>1. t # tx'[c] => t \in 1 .. Len(log) /\ log'[t] = log[t]
    BY <1>1 DEF Grows
  <2>2. tx[c] # 0 => tx[c] \in 1 .. Len(log) /\ tx'[c] = tx[c]
    BY <1>1 DEF Grows, TypeInv, RecordsInv
  <2>3. ActionsOf(log', tx'[c]) = (IF tx[c] = 0 THEN {} ELSE ActionsOf(log, tx[c])) \cup S
    BY <1>1 DEF Grows
  <2>4. t # tx'[c] => ActionsOf(log', t) = ActionsOf(log, t)
    BY <2>1 DEF ActionsOf
  <2> QED
    BY <1>1, <2>1, <2>2, <2>3, <2>4
<1>2. ASSUME log' = log PROVE t \in 1 .. Len(log) /\ x \in ActionsOf(log, t)
  BY <1>2
<1>3. CASE \E c \in Cnx : EditStep(c)
  <2>1. PICK c \in Cnx, a \in Action, S \in SUBSET Action, gone \in SUBSET Pair :
           Recording(c, a, S, gone) /\ Grows(c, S)
    BY <1>3 DEF EditStep
  <2>2. ASSUME NEW y \in S PROVE PairAction(y)
    BY <2>1 DEF Recording, Unlinking, PairAction
  <2> QED
    BY <1>1, <2>1, <2>2
<1>4. CASE \E c \in Cnx : Write(c)
  <2>1. PICK c \in Cnx : Write(c)
    BY <1>4
  <2>2. CASE target[c] = 0 /\ Grows(c, {statement[c]})
    <3>1. \A y \in {statement[c]} : PairAction(y)
      BY <2>1, <2>2 DEF TellingInv, PendingOf, Write
    <3> QED
      BY <1>1, <2>2, <3>1
  <2> QED
    BY <1>2, <2>1, <2>2, LateRecord
<1>5. CASE \E c \in Cnx : Commit(c)
  BY <1>5, CommitEndsRecord DEF ActionsOf
<1>6. CASE \E c \in Cnx : Rollback(c)
  <2>1. PICK c \in Cnx : Rollback(c)
    BY <1>6
  <2>2. t \in 1 .. Len(log)
    BY <2>1, RollbackEndsRecord DEF EndsRecord
  <2>3. CASE log'[t] = log[t]
    BY <2>2, <2>3 DEF ActionsOf
  <2>4. CASE log'[t].actions = <<>>
    BY <2>4, EmptySequence DEF ActionsOf
  <2> QED
    BY <2>1, <2>3, <2>4, RollbackEndsRecord
<1>7. CASE \E u \in DOMAIN log : Cleanup(u)
  BY <1>7, CleanupForgets DEF ActionsOf
<1>8. ASSUME NEW c \in Cnx,
             \/ \E p \in Pair : Unrelate(c, p)
             \/ \E u \in DOMAIN log : Undo(c, u)
             \/ WriteFails(c) \/ UndoReports(c) \/ UndoRaises(c) \/ UndoAction(c)
      PROVE  log' = log
  BY <1>8 DEF Unrelate, Undo, WriteFails, UndoReports, UndoRaises, UndoAction
<1>9. UNCHANGED vars => log' = log
  BY DEF vars
<1> QED
  BY <1>2, <1>3, <1>4, <1>5, <1>6, <1>7, <1>8, <1>9 DEF Steps

\* A pair is related or not after each step.
LEMMA PairsStay ==
  ASSUME TypeInv, UndoingInv, PairsInv, TellingInv, Steps
  PROVE  PairsInv'
<1>1. ASSUME NEW t \in 1 .. Len(log'), NEW x \in ActionsOf(log', t) PROVE PairAction(x)
  BY RecordedPairs DEF PairsInv
<1>2. ASSUME NEW p \in Pair PROVE now'[p] \in Related /\ committed'[p] \in Related
  <2>0. p \in Row /\ now[p] \in Related /\ committed[p] \in Related
    BY DEF PairsInv, Row
  <2>1. CASE \E c \in Cnx : EditStep(c)
    BY <2>0, <2>1 DEF EditStep, Related
  <2>2. CASE \E c \in Cnx : Write(c)
    <3>1. PICK c \in Cnx : Write(c)
      BY <2>2
    <3>2. PICK s \in Action, v \in Contents :
            /\ s = statement[c] /\ s # None
            /\ v = IF now[s.row] = Absent /\ s.old # Absent THEN Absent ELSE s.new
            /\ now'[s.row] = v
            /\ \A r \in Row : r # s.row => now'[r] = now[r]
      BY <3>1, WriteMoves
    <3>3. ASSUME p = s.row PROVE s.new \in Related
      <4>1. CASE target[c] = 0
        BY <3>2, <3>3, <4>1 DEF TellingInv, PendingOf, PairAction, Related
      <4>2. CASE target[c] # 0
        <5>1. phase[c] = "undoing"
          BY <3>2, <4>2 DEF TypeInv, RecordsInv
        <5>2. PICK n \in Nat, R \in Seq(Action) : n = Len(R) /\ R = Recorded(c) /\ DOMAIN R = 1 .. n
          BY <5>1, RecordedRows, ToSetProperties
        <5>3. Left(c) < n /\ s.row = R[Left(c) + 1].row /\ s.new = R[Left(c) + 1].old
          BY <3>2, <5>1, <5>2 DEF UndoingInv, UndoingOf, Reverses
        <5>4. Left(c) \in Nat
          BY <5>1, RecordedRows
        <5>5. Left(c) + 1 \in 1 .. n
          BY <5>2, <5>3, <5>4
        <5>6. PICK i \in 1 .. n : s.row = R[i].row /\ s.new = R[i].old
          BY <5>3, <5>5
        <5>7. R[i] \in ActionsOf(log, target[c]) /\ target[c] \in 1 .. Len(log)
          BY <5>1, <5>2, RecordedRows DEF ActionsOf, Recorded, ToSet
        <5>8. PairAction(R[i])
          BY <5>7 DEF PairsInv
        <5> QED
          BY <3>3, <5>6, <5>8 DEF PairAction, Related
      <4> QED
        BY <4>1, <4>2
    <3>4. committed' = committed
      BY <3>1 DEF Write
    <3> QED
      BY <2>0, <3>2, <3>3, <3>4 DEF Related
  <2>3. CASE \E c \in Cnx : Commit(c)
    BY <2>0, <2>3 DEF Commit
  <2>4. CASE \E c \in Cnx : Rollback(c)
    BY <2>0, <2>4 DEF Rollback, Restored
  <2>5. ASSUME NEW c \in Cnx,
               \/ \E q \in Pair : Unrelate(c, q)
               \/ \E u \in DOMAIN log : Undo(c, u)
               \/ WriteFails(c) \/ UndoReports(c) \/ UndoRaises(c) \/ UndoAction(c)
        PROVE  UNCHANGED database
    BY <2>5 DEF Unrelate, Undo, WriteFails, UndoReports, UndoRaises, UndoAction
  <2>6. UNCHANGED vars \/ (\E u \in DOMAIN log : Cleanup(u)) => UNCHANGED database
    BY DEF vars, Cleanup
  <2>7. UNCHANGED database => now'[p] \in Related /\ committed'[p] \in Related
    BY <2>0 DEF database
  <2> QED
    BY <2>1, <2>2, <2>3, <2>4, <2>5, <2>6, <2>7 DEF Steps
<1> QED
  BY <1>1, <1>2 DEF PairsInv

--------------------------------------------------------------------------------
\* The committed states, and how records lead from one to the next.

\* What was committed after the transaction past[k].
After(k) == IF k = Len(past) THEN committed ELSE past[k + 1].before

\* An entry of past: its record is closed and tells what the transaction changed; it
\* tells what the rows were before, unless it is stale.
Step(k) ==
    LET t == past[k].tx
    IN  /\ t \in 1 .. Len(log) /\ log[t].status # "open"
        /\ \A r \in Row : r \notin RowsOf(t) => After(k)[r] = past[k].before[r]
        /\ t \notin stale => \A r \in RowsOf(t) : Before(t, r) = past[k].before[r]

Entry == [tx : Nat, before : [Row -> Contents]]
PastInv == past \in Seq(Entry) /\ \A k \in 1 .. Len(past) : Step(k)

\* All but the last.
LEMMA FrontProperties ==
  ASSUME NEW S, NEW s \in Seq(S), s # <<>>
  PROVE  /\ Front(s) \in Seq(S) /\ Len(s) \in Nat \ {0} /\ Len(Front(s)) = Len(s) - 1
         /\ \A i \in 1 .. Len(s) - 1 : Front(s)[i] = s[i]
         /\ Last(s) = s[Len(s)] /\ Len(s) \in 1 .. Len(s)
<1>1. PICK n \in Nat : n = Len(s) /\ n # 0
  BY EmptySeq
<1>2. \A i \in 1 .. n - 1 : s[i] \in S
  BY <1>1, ElementOfSeq
<1>3. Front(s) = SubSeq(s, 1, n - 1)
  BY <1>1 DEF Front
<1>4. PICK m \in Nat : m = n - 1
  BY <1>1
<1>5. /\ SubSeq(s, 1, m) \in Seq(S)
      /\ Len(SubSeq(s, 1, m)) = IF 1 <= m THEN m - 1 + 1 ELSE 0
      /\ \A i \in 1 .. m - 1 + 1 : SubSeq(s, 1, m)[i] = s[1 + i - 1]
  BY <1>2, <1>4, SubSeqProperties
<1>6. PICK f \in Seq(S) : f = Front(s)
  BY <1>3, <1>4, <1>5
<1>7. (IF 1 <= m THEN m - 1 + 1 ELSE 0) = m /\ m - 1 + 1 = m
  BY <1>4
<1>8. Len(f) = m
  BY <1>3, <1>4, <1>5, <1>6, <1>7
<1>9. ASSUME NEW i \in 1 .. m PROVE f[i] = s[i]
  <2>1. i \in 1 .. m - 1 + 1 /\ 1 + i - 1 = i
    BY <1>7
  <2> QED
    BY <1>3, <1>4, <1>5, <1>6, <2>1
<1>10. Last(s) = s[n]
  BY <1>1 DEF Last
<1>11. n \in 1 .. n
  BY <1>1
<1> QED
  BY <1>1, <1>4, <1>6, <1>8, <1>9, <1>10, <1>11

\* Undoing the last transaction goes back to what was committed before it.
LEMMA CommitGoesBack ==
  ASSUME TypeInv, DatabaseInv, UndoingInv, TellingInv, PastInv,
         NEW c \in Cnx, Commit(c), StepBack(c)
  PROVE  committed' = Last(past).before
<1>1. /\ phase[c] = "undoing" /\ reported[c] = {} /\ overtaken[c] = {} /\ past # <<>>
      /\ Last(past).tx = target[c] /\ target[c] \notin stale /\ Undone(c)
  BY DEF StepBack, Undone
<1>2. PICK n \in 1 .. Len(past) : n = Len(past) /\ Last(past) = past[n]
  BY <1>1, FrontProperties DEF PastInv
<1>3. PICK b \in [Row -> Contents] : b = past[n].before
  <2>1. past[n] \in Entry
    BY ElementOfSeq DEF PastInv
  <2> QED
    BY <2>1 DEF Entry
<1>4. /\ \A r \in Row : r \notin RowsOf(target[c]) => committed[r] = b[r]
      /\ \A r \in RowsOf(target[c]) : Before(target[c], r) = b[r]
  <2>1. Step(n) /\ After(n) = committed
    BY <1>2 DEF PastInv, After
  <2> QED
    BY <1>1, <1>2, <1>3, <2>1 DEF Step
<1>5. \A r \in Row : committed'[r] = Seen(c, r)
  BY CommitDatabase
<1>6. target[c] # 0
  BY <1>1 DEF TypeInv, RecordsInv
<1>7. ASSUME NEW r \in Row PROVE committed'[r] = b[r]
  <2>1. CASE r \in RowsOf(target[c])
    <3>1. r \in reported[c] \cup overtaken[c] \/ Seen(c, r) = Before(target[c], r)
      BY <1>1, <2>1, UndoingRestores DEF RestoredOrReported
    <3> QED
      BY <1>1, <1>4, <1>5, <2>1, <3>1
  <2>2. CASE r \notin RowsOf(target[c])
    <3>1. owner[r] # c
      BY <1>6, <2>2 DEF TellingInv, OwnedOf
    <3>2. committed'[r] = committed[r]
      BY <3>1 DEF Commit
    <3> QED
      BY <1>4, <2>2, <3>2
  <2> QED
    BY <2>1, <2>2
<1>8. committed' \in [Row -> Contents]
  BY CommitTypes DEF TypeInv, UndoTypes
<1> QED
  BY <1>2, <1>3, <1>7, <1>8

\* An entry that stays, with what was committed after it, is right after a step.
LEMMA StepKept ==
  ASSUME TypeInv, PastInv, Steps, NEW k \in 1 .. Len(past), past'[k] = past[k],
         After(k)' = After(k), stale \subseteq stale'
  PROVE  Step(k)'
<1>1. PICK t, b : t = past[k].tx /\ b = past[k].before
  OBVIOUS
<1>2. /\ t \in 1 .. Len(log) /\ log[t].status # "open"
      /\ \A r \in Row : r \notin RowsOf(t) => After(k)[r] = b[r]
      /\ t \notin stale => \A r \in RowsOf(t) : Before(t, r) = b[r]
  BY <1>1 DEF PastInv, Step
<1>3. t \in 1 .. Len(log') /\ log'[t].status # "open" /\ log'[t].actions = log[t].actions
  BY <1>2, RecordsPersist
<1>4. RowsOf(t)' = RowsOf(t) /\ \A r : Before(t, r)' = Before(t, r)
  BY <1>3 DEF RowsOf, Before
<1>5. past'[k].tx = t /\ past'[k].before = b
  BY <1>1
<1>6. \A r \in Row : r \notin RowsOf(t)' => After(k)'[r] = b[r]
  BY <1>2, <1>4
<1>7. t \notin stale' => \A r \in RowsOf(t)' : Before(t, r)' = b[r]
  BY <1>2, <1>4
<1>8. Step(k)' <=> /\ t \in 1 .. Len(log') /\ log'[t].status # "open"
                   /\ \A r \in Row : r \notin RowsOf(t)' => After(k)'[r] = b[r]
                   /\ t \notin stale' => \A r \in RowsOf(t)' : Before(t, r)' = b[r]
  BY <1>5 DEF Step
<1> QED
  BY <1>3, <1>6, <1>7, <1>8

\* A commit goes back by one entry, adds one, or forgets them all.
LEMMA CommitPast ==
  ASSUME TypeInv, DatabaseInv, UndoingInv, TellingInv, PastInv, NEW c \in Cnx, Commit(c)
  PROVE  PastInv'
<1>0. Steps
  BY DEF Steps
<1>1. PICK n \in Nat : n = Len(past) /\ past \in Seq(Entry)
  BY DEF PastInv
<1>2. stale \subseteq stale'
  BY DEF Commit
<1>3. past' = IF StepBack(c) THEN Front(past)
              ELSE IF tx[c] # 0 THEN Append(past, [tx |-> tx[c], before |-> committed])
              ELSE <<>>
  BY DEF Commit, Remembered
<1>4. CASE StepBack(c)
  <2>1. past # <<>>
    BY <1>4 DEF StepBack
  <2>2. /\ past' \in Seq(Entry) /\ n # 0 /\ Len(past') = n - 1
        /\ \A i \in 1 .. n - 1 : past'[i] = past[i]
        /\ Last(past) = past[n]
    BY <1>1, <1>3, <1>4, <2>1, FrontProperties
  <2>3. committed' = past[n].before
    BY <1>4, <2>2, CommitGoesBack
  <2>4. ASSUME NEW k \in 1 .. n - 1 PROVE Step(k)'
    <3>1. k \in 1 .. n /\ past'[k] = past[k] /\ k # n
      BY <1>1, <2>2
    <3>2. After(k) = past[k + 1].before
      BY <1>1, <3>1 DEF After
    <3>3. CASE k = n - 1
      <4>1. k + 1 = n
        BY <1>1, <3>3
      <4>2. After(k)' = committed'
        BY <2>2, <3>3 DEF After
      <4> QED
        BY <1>0, <1>1, <1>2, <2>3, <3>1, <3>2, <4>1, <4>2, StepKept
    <3>4. CASE k # n - 1
      <4>1. k + 1 \in 1 .. n - 1
        BY <1>1, <3>4
      <4>2. After(k)' = past[k + 1].before
        BY <2>2, <3>4, <4>1 DEF After
      <4> QED
        BY <1>0, <1>1, <1>2, <3>1, <3>2, <4>2, StepKept
    <3> QED
      BY <3>3, <3>4
  <2> QED
    BY <2>2, <2>4 DEF PastInv
<1>5. CASE ~StepBack(c) /\ tx[c] # 0
  <2>1. PICK e : e = [tx |-> tx[c], before |-> committed]
    OBVIOUS
  <2>2. e \in Entry /\ e.tx = tx[c] /\ e.before = committed
    BY <2>1 DEF Entry, TypeInv, UndoTypes
  <2>3. past' = Append(past, e)
    BY <1>3, <1>5, <2>1
  <2>4. /\ past' \in Seq(Entry) /\ Len(past') = n + 1 /\ past'[n + 1] = e
        /\ \A i \in 1 .. n : past'[i] = past[i]
    BY <1>1, <2>2, <2>3
  <2>5. ASSUME NEW k \in 1 .. n PROVE Step(k)'
    <3>1. After(k)' = past'[k + 1].before
      BY <1>1, <2>4 DEF After
    <3>2. CASE k = n
      BY <1>0, <1>1, <1>2, <2>2, <2>4, <3>1, <3>2, StepKept DEF After
    <3>3. CASE k # n
      <4>1. k + 1 \in 1 .. n /\ past'[k + 1] = past[k + 1]
        BY <1>1, <2>4, <3>3
      <4>2. After(k)' = After(k)
        BY <1>1, <3>1, <3>3, <4>1 DEF After
      <4> QED
        BY <1>0, <1>1, <1>2, <2>4, <4>2, StepKept
    <3> QED
      BY <3>2, <3>3
  <2>6. Step(n + 1)'
    <3>1. PICK t \in 1 .. Len(log) : t = tx[c] /\ log[t].status = "open"
      BY <1>5 DEF TypeInv, RecordsInv
    <3>2. phase[c] = "open" /\ target[c] = 0 /\ statement[c] = None
      BY <1>5 DEF Commit, Undone, TypeInv, RecordsInv
    <3>3. t \in 1 .. Len(log') /\ log'[t].actions = log[t].actions /\ log'[t].status # "open"
      BY <3>1, CommitEndsRecord DEF EndsRecord
    <3>4. RowsOf(t)' = RowsOf(t) /\ \A r : Before(t, r)' = Before(t, r)
      BY <3>3 DEF RowsOf, Before
    <3>5. ASSUME NEW r \in Row, r \notin RowsOf(t) PROVE committed'[r] = committed[r]
      <4>1. owner[r] # c
        BY <3>1, <3>2, <3>5 DEF TellingInv, OwnedOf, Tells
      <4> QED
        BY <4>1 DEF Commit
    <3>6. ASSUME t \notin stale', NEW r \in RowsOf(t) PROVE Before(t, r) = committed[r]
      <4>1. overtaken[c] = {}
        BY <1>5, <3>1, <3>6 DEF Commit
      <4>2. r \in Row
        <5>1. log[t].actions \in Seq(Action)
          BY <3>1, RecordedActions
        <5>2. PICK i \in DOMAIN log[t].actions : r = log[t].actions[i].row
          BY <3>6 DEF RowsOf
        <5>3. log[t].actions[i] \in Action
          BY <5>1, <5>2, ToSetProperties, ElementOfSeq
        <5> QED
          BY <5>2, <5>3 DEF Action
      <4>3. Tells(c, r)
        BY <1>5, <3>1, <3>6 DEF Tells
      <4> QED
        BY <3>1, <3>2, <4>1, <4>2, <4>3 DEF TellingInv, ExactOf
    <3>7. past'[n + 1].tx = t /\ past'[n + 1].before = committed /\ After(n + 1)' = committed'
      BY <2>2, <2>4, <3>1 DEF After
    <3>8. Step(n + 1)' <=> /\ t \in 1 .. Len(log') /\ log'[t].status # "open"
                           /\ \A r \in Row : r \notin RowsOf(t)' => committed'[r] = committed[r]
                           /\ t \notin stale' => \A r \in RowsOf(t)' : Before(t, r)' = committed[r]
      BY <3>7 DEF Step
    <3> QED
      BY <3>3, <3>4, <3>5, <3>6, <3>8
  <2>7. \A k \in 1 .. n + 1 : k \in 1 .. n \/ k = n + 1
    BY <1>1
  <2> QED
    BY <2>4, <2>5, <2>6, <2>7 DEF PastInv
<1>6. CASE ~StepBack(c) /\ tx[c] = 0
  <2>1. past' = <<>> /\ past' \in Seq(Entry) /\ Len(past') = 0
    BY <1>3, <1>6
  <2> QED
    BY <2>1 DEF PastInv
<1> QED
  BY <1>4, <1>5, <1>6

\* Every step keeps the way back.
LEMMA PastStays ==
  ASSUME TypeInv, DatabaseInv, UndoingInv, TellingInv, PastInv, Steps
  PROVE  PastInv'
<1>1. CASE \E c \in Cnx : Commit(c)
  BY <1>1, CommitPast
<1>2. CASE ~\E c \in Cnx : Commit(c)
  <2>1. past' = past /\ stale' = stale /\ committed' = committed
    BY <1>2, HistoryKept
  <2>2. ASSUME NEW k \in 1 .. Len(past) PROVE Step(k)'
    BY <2>1, StepKept DEF After
  <2> QED
    BY <2>1, <2>2 DEF PastInv
<1> QED
  BY <1>1, <1>2

--------------------------------------------------------------------------------
\* The theorems.

\* The inductive invariant.
UndoInv == TypeInv /\ DatabaseInv /\ UndoingInv /\ HistoryInv

\* At first nothing is being undone and nothing was.
LEMMA HistoryAtFirst ==
  Init => UndoingInv /\ HistoryInv
<1> SUFFICES ASSUME Init PROVE UndoingInv /\ HistoryInv
  OBVIOUS
<1>1. DOMAIN unborn = {} /\ \A c \in Cnx : phase[c] = "idle" /\ statement[c] = None
  BY DEF Init
<1>2. \A r \in Row : owner[r] = Nobody
  BY DEF Init
<1>3. UndoingInv
  BY <1>1 DEF UndoingInv, UndoingOf
<1>4. UnbornInv /\ OrphansInv
  BY <1>1 DEF UnbornInv, OrphansInv
<1>5. ASSUME NEW c \in Cnx PROVE AddedOf(c) /\ MissedOf(c) /\ UncreatedOf(c)
  BY <1>1, <1>2, UndoNobodyAssumption DEF AddedOf, MissedOf, UncreatedOf, Row
<1> QED
  BY <1>3, <1>4, <1>5 DEF HistoryInv

\* Every step keeps the history.
LEMMA HistoryStays ==
  ASSUME UndoInv, Steps
  PROVE  HistoryInv'
<1>1. TypeInv /\ DatabaseInv /\ UndoingInv /\ HistoryInv
  BY DEF UndoInv
<1>2. UnbornInv' /\ OrphansInv'
  BY <1>1, UnbornStays, OrphansStay DEF HistoryInv
<1>3. ASSUME NEW c \in Cnx PROVE AddedOf(c)' /\ MissedOf(c)' /\ UncreatedOf(c)'
  <2>1. AddedOf(c) /\ MissedOf(c) /\ UncreatedOf(c)
    BY <1>1 DEF HistoryInv
  <2>2. CASE UNCHANGED vars
    BY <2>1, <2>2 DEF vars, undo, history, database, AddedOf, MissedOf, UncreatedOf, CreatedIn,
          TouchedIn, ActionsOf, Uncreated, Left, Recorded
  <2>3. CASE Untouched(c)
    BY <1>1, <2>1, <2>3, UntouchedAdded, UntouchedMissed, UntouchedUncreated
  <2>4. CASE \/ EditStep(c)
             \/ \E p \in Pair : Unrelate(c, p)
             \/ Write(c) \/ WriteFails(c)
             \/ \E t \in DOMAIN log : Undo(c, t)
             \/ UndoReports(c) \/ UndoRaises(c) \/ UndoAction(c)
             \/ Commit(c) \/ Rollback(c)
    BY <1>1, <2>1, <2>4, OwnAdded, OwnMissed, OwnUncreated
  <2> QED
    BY <1>1, <2>2, <2>3, <2>4, StepsElsewhere
<1> QED
  BY <1>2, <1>3 DEF HistoryInv

\* Types, database, undos and history agree in every state.
THEOREM UndoInvariant == Spec => []UndoInv
<1>1. Init => UndoInv
  BY TypesAtFirst, DatabaseAtFirst, HistoryAtFirst DEF UndoInv
<1>2. UndoInv /\ [Next]_vars => UndoInv'
  <2> SUFFICES ASSUME UndoInv, [Next]_vars PROVE UndoInv'
    OBVIOUS
  <2>1. TypeInv /\ DatabaseInv /\ UndoingInv
    BY DEF UndoInv
  <2>2. Steps
    BY <2>1, NextSteps
  <2> QED
    BY <2>1, <2>2, TypesStay, DatabaseStays, UndoingStays, HistoryStays DEF UndoInv
<1> QED
  BY <1>1, <1>2, PTL DEF Spec

\* native.py:979-998: undo_transaction() walks the record backwards, and whatever the
\* other connections do, each row it tells of ends as it was before the transaction, or
\* in the returned list of errors, or was overtaken.
THEOREM UndoRestoresOrReports == Spec => []RestoredOrReported
<1>1. UndoInv => RestoredOrReported
  BY UndoingRestores DEF UndoInv
<1> QED
  BY <1>1, UndoInvariant, PTL

\* native.py:167-179, 1152-1162: undoing a creation is refused while a later record tells of the
\* entity, so none is left behind that could not be undone, but those of transactions
\* that ran meanwhile.
THEOREM UndoLeavesNoOrphan == Spec => []NoOrphanRecord
<1>1. UndoInv => NoOrphanRecord
  BY OrphansInvImplies DEF UndoInv, HistoryInv
<1> QED
  BY <1>1, UndoInvariant, PTL

\* The invariant of the way back.
BackInv == UndoInv /\ PairsInv /\ TellingInv /\ PastInv

\* At first there is nothing to go back to.
LEMMA BackAtFirst ==
  Init => BackInv
<1> SUFFICES ASSUME Init PROVE BackInv
  OBVIOUS
<1>1. UndoInv
  BY TypesAtFirst, DatabaseAtFirst, HistoryAtFirst DEF UndoInv
<1>2. /\ log = <<>> /\ past = <<>> /\ committed = now /\ \A r \in Row : owner[r] = Nobody
      /\ \A c \in Cnx : statement[c] = None /\ phase[c] = "idle"
  BY DEF Init
<1>3. ASSUME NEW p \in Pair PROVE now[p] = Absent
  BY EndsOfPairs, EidsAssumption DEF Init
<1>4. PairsInv
  BY <1>2, <1>3, EmptySequence DEF PairsInv, Related
<1>5. TellingInv
  BY <1>2, UndoNobodyAssumption DEF TellingInv, PendingOf, OwnedOf, ExactOf
<1>6. PastInv
  BY <1>2, EmptySequence DEF PastInv
<1> QED
  BY <1>1, <1>4, <1>5, <1>6 DEF BackInv

\* native.py:979-998: undoing the last transaction, without error or race, makes the
\* database what it was when that transaction committed, and so on backwards.
THEOREM UndoInverts == Spec => UndoIsInverse
<1>1. BackInv /\ [Next]_vars => BackInv'
  <2> SUFFICES ASSUME BackInv, [Next]_vars PROVE BackInv'
    OBVIOUS
  <2>1. TypeInv /\ DatabaseInv /\ UndoingInv /\ HistoryInv /\ PairsInv /\ TellingInv /\ PastInv
    BY DEF BackInv, UndoInv
  <2>2. Steps
    BY <2>1, NextSteps
  <2> QED
    BY <2>1, <2>2, TypesStay, DatabaseStays, UndoingStays, HistoryStays, PairsStay, TellingStays,
       PastStays DEF UndoInv, BackInv
<1>2. ASSUME BackInv, [Next]_vars, NEW c \in Cnx,
             StepBack(c), phase'[c] = "idle", past' = Front(past)
      PROVE  committed' = Last(past).before
  <2>1. TypeInv /\ DatabaseInv /\ UndoingInv /\ TellingInv /\ PastInv /\ Steps
    BY <1>2, NextSteps DEF BackInv, UndoInv
  <2>2. phase[c] = "undoing" /\ past # <<>>
    BY <1>2 DEF StepBack, Undone
  <2>3. Len(past') # Len(past)
    BY <1>2, <2>1, <2>2, FrontProperties DEF PastInv
  <2>4. \E d \in Cnx : Commit(d)
    BY <2>1, <2>3, HistoryKept
  <2>5. Commit(c)
    <3>1. PICK d \in Cnx : Commit(d)
      BY <2>4
    <3>2. phase' = [phase EXCEPT ![d] = "idle"]
      BY <3>1 DEF Commit, Reset
    <3>3. d = c
      BY <1>2, <2>2, <3>2
    <3> QED
      BY <3>1, <3>3
  <2> QED
    BY <1>2, <2>1, <2>5, CommitGoesBack
<1>3. BackInv /\ [Next]_vars
        => [\A c \in Cnx : StepBack(c) /\ phase'[c] = "idle" /\ past' = Front(past)
                           => committed' = Last(past).before]_vars
  BY <1>2
<1> QED
  BY BackAtFirst, <1>1, <1>3, PTL DEF Spec, UndoIsInverse
================================================================================
