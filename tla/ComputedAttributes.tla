--------------------------- MODULE ComputedAttributes --------------------------
(***************************************************************************)
(* The computed attributes of the entities, stored beside the data that    *)
(* their formulas read and brought up to date by an operation of each      *)
(* transaction that changes these data                                     *)
(* (cubicweb/hooks/synccomputed.py).                                       *)
(*                                                                         *)
(* The formulas are those of the documentation and the tests, one on top   *)
(* of the other: the age of a person is computed from an attribute of the  *)
(* person, the total of a company from the ages of those who work there.   *)
(* A total is the set of what is summed up.  The database is at READ       *)
(* COMMITTED and a transaction waits for the rows another has written.     *)
(***************************************************************************)
EXTENDS Naturals

CONSTANTS
    Clerk,          \* connections
    Employee, Company,
    Birth,          \* values of the attribute an age is computed from
    Null,           \* no value, no company
    Every,          \* None, in the data of the operation: every entity of the type
    MaxHires        \* bound: changes in a behaviour

ASSUME ComputedAssumption ==
    /\ Null \notin Company \cup Birth
    /\ Every \notin Employee \cup Company /\ Employee \cap Company = {}

VARIABLES
    cell,        \* committed columns, by name and entity
    written,     \* columns that the transaction of a clerk has written
    toRecompute, \* data of its RecomputeAttributeOperation, <<attribute, eid>>
    recomputing, \* data of the one that is running
    updates,     \* the UPDATE statements it has left, <<column, value>>
    hires,       \* bound: changes so far
    crossing,    \* history: transactions at work while another was,
    raced        \*     and columns that such a transaction was the last to write

ofClerk == <<written, toRecompute, recomputing, updates>>
computedVars == <<cell, ofClerk, hires, crossing, raced>>

Cell == ({"birth", "age", "works_for"} \X Employee) \cup ({"total"} \X Company)
Nothing == [k \in {} |-> Null]

View(c) == [k \in Cell |-> IF k \in DOMAIN written[c] THEN written[c][k] ELSE cell[k]]

\* An employee without a birth year does not exist.
Known(v) == {p \in Employee : v[<<"birth", p>>] # Null}
Staff(v, f) == {p \in Known(v) : v[<<"works_for", p>>] = f}

\* The rows of the formula of an attribute: none for a company without staff.
Computed(v, attr) ==
    IF attr = "age" THEN {<<<<attr, p>>, v[<<"birth", p>>]>> : p \in Known(v)}
    ELSE {<<<<attr, f>>, {<<p, v[<<"age", p>>]>> : p \in Staff(v, f)}>> :
              f \in {f \in Company : Staff(v, f) # {}}}

\* Nobody, or people in companies.
ComputedInit ==
    /\ cell \in
          {[k \in Cell |->
              CASE k[1] = "works_for" -> firm[k[2]]
                [] k[1] \in {"birth", "age"} ->
                      IF firm[k[2]] = Null THEN Null ELSE CHOOSE b \in Birth : TRUE
                [] k[1] = "total" ->
                      {<<p, CHOOSE b \in Birth : TRUE>> :
                          p \in {p \in Employee : firm[p] = k[2]}}] :
           firm \in [Employee -> Company \cup {Null}]}
    /\ written = [c \in Clerk |-> Nothing]
    /\ toRecompute = [c \in Clerk |-> {}]
    /\ recomputing = [c \in Clerk |-> {}]
    /\ updates = [c \in Clerk |-> {}]
    /\ hires = 0
    /\ crossing = {} /\ raced = {}

\* A column of the row is written by another transaction.
Taken(c, e) == \E d \in Clerk \ {c} : \E k \in DOMAIN written[d] : k[2] = e

Write(c, new) ==
    /\ \A k \in DOMAIN new : ~Taken(c, k[2])
    /\ written' = [written EXCEPT ![c] =
                      [k \in DOMAIN @ \cup DOMAIN new |->
                          IF k \in DOMAIN new THEN new[k] ELSE @[k]]]
    /\ LET others == {d \in Clerk \ {c} : written[d] # Nothing} IN
          crossing' = IF others = {} THEN crossing ELSE crossing \cup others \cup {c}

--------------------------------------------------------------------------------
(* Changes, by queries or by other operations of the commit, and what the  *)
(* hooks generated for the formulas ask.                                   *)

Change(c, new, data) ==
    /\ hires < MaxHires /\ hires' = hires + 1
    /\ recomputing[c] = {} /\ updates[c] = {}
    /\ Write(c, new)
    /\ toRecompute' = [toRecompute EXCEPT ![c] = @ \cup data]
    /\ UNCHANGED <<cell, recomputing, updates, raced>>

\* RelationInvolvedInCAModifiedHook of works_for, optimized on its object.
OnRelation(f) == {<<"total", f>>} \cap Cell

\* EntityWithCACreatedHook
Hire(c, p, b, f) ==
    /\ p \notin Known(View(c))
    /\ Change(c, [k \in {"birth", "age", "works_for"} \X {p} |->
                     CASE k[1] = "birth" -> b [] k[1] = "age" -> Null
                       [] k[1] = "works_for" -> f],
                 {<<"age", p>>} \cup OnRelation(f))

\* AttributeInvolvedInCAModifiedHook
SetBirth(c, p, b) ==
    /\ p \in Known(View(c)) /\ b # View(c)[<<"birth", p>>]
    /\ Change(c, [k \in {<<"birth", p>>} |-> b], {<<"age", Every>>})

\* Mutant: the relation that is deleted is not looked at.
Move_OnAddOnly(c, p, f) ==
    /\ p \in Known(View(c)) /\ f # View(c)[<<"works_for", p>>]
    /\ Change(c, [k \in {<<"works_for", p>>} |-> f], OnRelation(f))

\* before_delete_relation and after_add_relation, whichever there are.
Move(c, p, f) ==
    /\ p \in Known(View(c)) /\ f # View(c)[<<"works_for", p>>]
    /\ Change(c, [k \in {<<"works_for", p>>} |-> f],
                 OnRelation(f) \cup OnRelation(View(c)[<<"works_for", p>>]))

\* The relations of an entity are deleted before it.
Dismiss(c, p) ==
    /\ p \in Known(View(c))
    /\ Change(c, [k \in {"birth", "age", "works_for"} \X {p} |-> Null],
                 OnRelation(View(c)[<<"works_for", p>>]))

--------------------------------------------------------------------------------
(* RecomputeAttributeOperation.precommit_event                             *)

\* get_data() closes the operation: what its statements ask is for another one.
TakeData(c) ==
    /\ toRecompute[c] # {} /\ recomputing[c] = {} /\ updates[c] = {}
    /\ recomputing' = [recomputing EXCEPT ![c] = toRecompute[c]]
    /\ toRecompute' = [toRecompute EXCEPT ![c] = {}]
    /\ UNCHANGED <<cell, written, updates, hires, crossing, raced>>

Select(c, attr) ==
    LET eids == {d[2] : d \in {d \in recomputing[c] : d[1] = attr}} IN
    /\ eids # {} /\ updates[c] = {}
    /\ updates' = [updates EXCEPT ![c] =
                      {u \in Computed(View(c), attr) : Every \in eids \/ u[1][2] \in eids}]
    /\ recomputing' = [recomputing EXCEPT ![c] = {d \in @ : d[1] # attr}]
    /\ UNCHANGED <<cell, written, toRecompute, hires, crossing, raced>>

\* SET X attr value: an age that is set asks in turn for every total.
Update(c) == \E u \in updates[c] :
    /\ Write(c, [k \in {u[1]} |-> u[2]])
    /\ updates' = [updates EXCEPT ![c] = @ \ {u}]
    /\ toRecompute' = IF u[1][1] = "age"
                      THEN [toRecompute EXCEPT ![c] = @ \cup {<<"total", Every>>}]
                      ELSE toRecompute
    /\ UNCHANGED <<cell, recomputing, hires, raced>>

\* The transaction of c is over.
Ends(c) ==
    /\ written' = [written EXCEPT ![c] = Nothing]
    /\ toRecompute' = [toRecompute EXCEPT ![c] = {}]
    /\ recomputing' = [recomputing EXCEPT ![c] = {}]
    /\ updates' = [updates EXCEPT ![c] = {}]
    /\ crossing' = crossing \ {c}
    /\ hires' = hires

CommitComputed(c) ==
    /\ written[c] # Nothing
    /\ toRecompute[c] = {} /\ recomputing[c] = {} /\ updates[c] = {}
    /\ cell' = View(c)
    /\ raced' = IF c \in crossing THEN raced \cup DOMAIN written[c]
                ELSE raced \ DOMAIN written[c]
    /\ Ends(c)

\* Any error, among them that of the transaction the database chooses in a deadlock.
RollbackComputed(c) ==
    /\ written[c] # Nothing
    /\ Ends(c)
    /\ UNCHANGED <<cell, raced>>

ComputedNext == \E c \in Clerk :
    \/ \E p \in Employee, b \in Birth, f \in Company \cup {Null} : Hire(c, p, b, f)
    \/ \E p \in Employee, b \in Birth : SetBirth(c, p, b)
    \/ \E p \in Employee, f \in Company \cup {Null} : Move(c, p, f)
    \/ \E p \in Employee : Dismiss(c, p)
    \/ TakeData(c)
    \/ \E attr \in {"age", "total"} : Select(c, attr)
    \/ Update(c)
    \/ CommitComputed(c)
    \/ RollbackComputed(c)

ComputedSpec == ComputedInit /\ [][ComputedNext]_computedVars

--------------------------------------------------------------------------------

\* synccomputed.py:31-34: caches of computed attributes are recomputed "at commit time,
\* depending on what's have been modified in the transaction".  A committed age is that
\* of its birth year and a committed total that of the committed ages, in whatever order
\* the transaction recomputed them, but for what was last written by one that was at
\* work while another was, and the total of a company that has lost its staff.
FormulasHold ==
    /\ \A p \in Known(cell) :
          <<"age", p>> \in raced \/ cell[<<"age", p>>] = cell[<<"birth", p>>]
    /\ \A f \in Company :
          \/ <<"total", f>> \in raced
          \/ Staff(cell, f) = {}
          \/ <<<<"total", f>>, cell[<<"total", f>>]>> \in Computed(cell, "total")
================================================================================
