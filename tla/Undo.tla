--------------------------------- MODULE Undo ---------------------------------
(***************************************************************************)
(* The log of undoable transactions and its reversal:                      *)
(* NativeSQLSource.undo_transaction and the recording of actions           *)
(* (cubicweb/server/sources/native.py), by several connections on a        *)
(* database at READ COMMITTED.                                             *)
(*                                                                         *)
(* A row is an entity, with a value, or a pair of one relation type that a *)
(* subject has at most once.  Every action, and its reversal, is a         *)
(* statement in two steps: what the code reads to prepare and record it,   *)
(* then the write, which may wait for the row lock of another transaction. *)
(***************************************************************************)
EXTENDS Integers, Sequences, FiniteSets, SequencesExt, TLC

CONSTANTS
    Cnx,         \* the repository connections
    Subject,     \* eids that may be subject of the relation
    Object,      \* eids that may be object of it
    Valued,      \* eids of entities with an attribute
    Value,       \* values of the attribute
    Plain,       \* the value of an entity without it
    Linked,      \* the value of the row of a pair that is related
    Absent,      \* a row that does not exist
    Nobody,
    None,        \* no statement
    Existing,    \* eids of the entities that exist at first
    MaxTx,       \* bound: transactions that record actions
    MaxActions   \* bound: actions of a transaction, beyond those of a cascade

Eid == Subject \cup Object
Pair == Subject \X Object
Row == Eid \cup Pair
Tx == 1 .. MaxTx

ASSUME EidsAssumption ==
    /\ Existing \cup Valued \subseteq Eid /\ Eid \cap Pair = {} /\ IsFiniteSet(Eid)
ASSUME ValuesAssumption == Absent \notin Value \cup {Linked, Plain} /\ Value # {}
ASSUME BoundsAssumption == MaxTx \in Nat /\ MaxActions \in Nat
ASSUME UndoNobodyAssumption == Nobody \notin Cnx

VARIABLES
    now,         \* now[r]: value of the row, uncommitted writes included
    committed,   \* its committed value
    owner,       \* the connection whose transaction wrote the row, or Nobody
    log,         \* log[t]: the record of transaction t, numbered by tx_time
    phase,       \* what each connection is doing
    tx,          \* the record of its transaction, 0 if it has none
    statement,   \* the statement it is about to execute, or None
    target,      \* the transaction it undoes, 0 if none
    script,      \* the actions still to be undone
    reported,    \* rows about which the undo has reported an error
    past,        \* history: recorded transactions since which nothing else was
                 \* committed but their undos, with the rows before each
    overtaken,   \* history: rows that changed between the reading and the write, or
                 \* while an undo ran
    stale,       \* history: transactions whose record tells such a value
    unborn,      \* history: the creation, now undone, of each such entity
    missed,      \* history: entities unborn since the transaction of c began
    excused      \* history: transactions that touch what they missed, or what was
                 \* undone without a look at them

history == <<past, overtaken, stale, unborn, missed, excused>>
database == <<now, committed, owner>>
undo == <<target, script, reported>>
vars == <<database, log, phase, tx, statement, undo, history>>

Contents == Value \cup {Linked, Plain, Absent}
Values(e) == IF e \in Valued THEN Value ELSE {Plain}
Action == [row : Row, old : Contents, new : Contents]
ASSUME StatementAssumption == None \notin Action
Phases == {"idle", "open", "undoing", "raised", "failed"}

Init ==
    /\ now = [r \in Row |-> IF r \in Existing THEN CHOOSE v \in Values(r) : TRUE
                         ELSE Absent]
    /\ committed = now
    /\ owner = [r \in Row |-> Nobody]
    /\ log = <<>>
    /\ phase = [c \in Cnx |-> "idle"]
    /\ tx = [c \in Cnx |-> 0]
    /\ statement = [c \in Cnx |-> None]
    /\ target = [c \in Cnx |-> 0]
    /\ script = [c \in Cnx |-> <<>>]
    /\ reported = [c \in Cnx |-> {}]
    /\ past = <<>>
    /\ overtaken = [c \in Cnx |-> {}]
    /\ stale = {}
    /\ unborn = [e \in {} |-> 0]
    /\ missed = [c \in Cnx |-> {}]
    /\ excused = {}

--------------------------------------------------------------------------------
(* The database.                                                           *)

Mine(c, r) == owner[r] \in {c, Nobody}

\* What c reads: its own writes and what is committed.
Seen(c, r) == IF Mine(c, r) THEN now[r] ELSE committed[r]
Exists(c, r) == Seen(c, r) # Absent

PairsOf(e) == {p \in Pair : e \in {p[1], p[2]}}
Touches(a, e) == a.row = e \/ a.row \in PairsOf(e)

\* Rows that other rows reference or are referenced by through a foreign key.
Linking(r) == IF r \in Pair THEN {r[1], r[2]} ELSE PairsOf(r)

\* A write that creates or deletes waits for whoever creates or deletes a row it
\* is bound to by a foreign key.
MayWrite(c, r, v) ==
    /\ Mine(c, r)
    /\ Absent \in {now[r], v} =>
           \A x \in Linking(r) : Mine(c, x) \/ Absent \notin {now[x], committed[x]}

\* The statement violates a foreign key or, inserting, a primary key.
Violates(s) ==
    \/ s.old = Absent /\ now[s.row] # Absent
    \/ s.row \in Pair /\ s.new # Absent /\ \E e \in Linking(s.row) : now[e] = Absent
    \/ s.row \in Eid /\ s.new = Absent /\ \E p \in PairsOf(s.row) : now[p] # Absent

--------------------------------------------------------------------------------
(* Recording.                                                              *)

\* Add actions to the record of c, starting it if it has none yet.
Logged(c, as) ==
    LET t == IF tx[c] = 0 THEN Len(log) + 1 ELSE tx[c]
    IN  /\ t <= MaxTx
        /\ tx' = [tx EXCEPT ![c] = t]
        /\ log' = IF tx[c] = 0 THEN Append(log, [status |-> "open", actions |-> as])
                  ELSE [log EXCEPT ![t].actions = @ \o as]

\* Mutant: an update is recorded with the new value.
Record_NewValue(c, as) ==
    Logged(c, [i \in DOMAIN as |-> IF Absent \in {as[i].old, as[i].new} THEN as[i]
                                  ELSE [as[i] EXCEPT !.old = as[i].new]])

\* _record_tx_action: the first action of a transaction starts its record, whose
\* tx_time is the time of that action.
Record(c, as) == Logged(c, as)

\* c may issue another query.
Editing(c) ==
    /\ phase[c] \in {"idle", "open"}
    /\ statement[c] = None
    /\ IF tx[c] # 0 THEN Len(log[tx[c]].actions) < MaxActions
       ELSE Len(log) + Cardinality({x \in Cnx : phase[x] = "open" /\ tx[x] = 0}) < MaxTx

Execute(c, a) ==
    /\ phase' = [phase EXCEPT ![c] = "open"]
    /\ statement' = [statement EXCEPT ![c] = a]

\* glob_add_entity; the eid is a new one.
Create(c, e, v) ==
    /\ Editing(c)
    /\ \A x \in Cnx : ~Exists(x, e)
    /\ \A t \in DOMAIN log : \A i \in DOMAIN log[t].actions : log[t].actions[i].row # e
    /\ owner[e] = Nobody
    /\ LET a == [row |-> e, old |-> Absent, new |-> v]
       IN  Record(c, <<a>>) /\ Execute(c, a)
    /\ UNCHANGED <<history, database, undo>>

\* update_entity: the values to be replaced are read and recorded, then replaced.
Update(c, e, v) ==
    /\ Editing(c)
    /\ Exists(c, e) /\ Seen(c, e) # v
    /\ LET a == [row |-> e, old |-> Seen(c, e), new |-> v]
       IN  Record(c, <<a>>) /\ Execute(c, a)
    /\ UNCHANGED <<history, database, undo>>

\* glob_delete_entities: remaining relations are deleted and recorded first.
Delete(c, e) ==
    /\ Editing(c)
    /\ Exists(c, e)
    /\ LET gone == {p \in PairsOf(e) : Exists(c, p)}
           a == [row |-> e, old |-> Seen(c, e), new |-> Absent]
       IN  /\ \A p \in gone : Mine(c, p)
           /\ now' = [r \in Row |-> IF r \in gone THEN Absent ELSE now[r]]
           /\ owner' = [r \in Row |-> IF r \in gone THEN c ELSE owner[r]]
           /\ Record(c, SetToSeq({[row |-> p, old |-> Linked, new |-> Absent] : p \in gone})
                        \o <<a>>)
           /\ Execute(c, a)
    /\ UNCHANGED <<committed, history, undo>>

\* glob_add_relations: the other relation of the subject is deleted first.
Relate(c, p) ==
    /\ Editing(c)
    /\ Exists(c, p[1]) /\ Exists(c, p[2]) /\ ~Exists(c, p)
    /\ LET gone == {q \in Pair : q[1] = p[1] /\ Exists(c, q)}
           a == [row |-> p, old |-> Absent, new |-> Linked]
       IN  /\ \A q \in gone : Mine(c, q)
           /\ now' = [r \in Row |-> IF r \in gone THEN Absent ELSE now[r]]
           /\ owner' = [r \in Row |-> IF r \in gone THEN c ELSE owner[r]]
           /\ Record(c, SetToSeq({[row |-> q, old |-> Linked, new |-> Absent] : q \in gone})
                        \o <<a>>)
           /\ Execute(c, a)
    /\ UNCHANGED <<committed, history, undo>>

\* The DELETE query has found the pair, and will delete and record it.
Unrelate(c, p) ==
    /\ Editing(c)
    /\ Exists(c, p)
    /\ Execute(c, [row |-> p, old |-> Linked, new |-> Absent])
    /\ UNCHANGED <<log, tx, history, database, undo>>

\* delete_relation records after it deleted.
RecordLate(c) ==
    LET s == statement[c]
    IN  IF target[c] = 0 /\ s.row \in Pair /\ s.new = Absent THEN Record(c, <<s>>)
        ELSE UNCHANGED <<log, tx>>

\* The statement is executed.  An update or a deletion of a row that is gone does
\* nothing, and nobody looks at how many rows it changed.
Write(c) ==
    LET s == statement[c]
        v == IF now[s.row] = Absent /\ s.old # Absent THEN Absent ELSE s.new
    IN  /\ s # None
        /\ MayWrite(c, s.row, s.new)
        /\ ~Violates(s)
        /\ now' = [now EXCEPT ![s.row] = v]
        /\ owner' = IF v = now[s.row] /\ v = Absent THEN owner
                    ELSE [owner EXCEPT ![s.row] = c]
        /\ RecordLate(c)
        /\ overtaken' = IF now[s.row] = s.old THEN overtaken
                        ELSE [overtaken EXCEPT ![c] = @ \cup {s.row}]
        /\ statement' = [statement EXCEPT ![c] = None]
        /\ UNCHANGED <<committed, phase, past, stale, unborn, missed, excused, undo>>

\* doexec: a constraint is violated, or the database cancels a statement that waits
\* in a cycle; the transaction can only be rolled back.
WriteFails(c) ==
    LET s == statement[c]
    IN  /\ s # None
        /\ MayWrite(c, s.row, s.new) => Violates(s)
        /\ phase' = [phase EXCEPT ![c] = "failed"]
        /\ statement' = [statement EXCEPT ![c] = None]
        /\ UNCHANGED <<log, tx, history, database, undo>>

--------------------------------------------------------------------------------
(* Undoing.                                                                *)

\* Mutant: actions are undone in the order they were recorded.
Undo_Forward(c, t) ==
    /\ phase[c] = "idle"
    /\ log[t].status = "committed"
    /\ phase' = [phase EXCEPT ![c] = "undoing"]
    /\ target' = [target EXCEPT ![c] = t]
    /\ script' = [script EXCEPT ![c] = log[t].actions]
    /\ UNCHANGED <<log, tx, statement, reported, history, database>>

\* undo_transaction loads the record and goes through it backwards.
Undo(c, t) ==
    /\ phase[c] = "idle"
    /\ log[t].status = "committed"
    /\ phase' = [phase EXCEPT ![c] = "undoing"]
    /\ target' = [target EXCEPT ![c] = t]
    /\ script' = [script EXCEPT ![c] = Reverse(log[t].actions)]
    /\ UNCHANGED <<log, tx, statement, reported, history, database>>

\* Mutant: later transactions that only related the entity are not seen.
HasLater_Entity(t, e) ==
    /\ log[t].status = "committed"
    /\ \E u \in DOMAIN log : /\ log[u].status = "committed"
                             /\ u > t
                             /\ \E i \in DOMAIN log[u].actions : log[u].actions[i].row = e

\* _undo_has_later_transaction: by the time of the first action, not of the commit.  The
\* query reads that time in the record of t (TREF): once this record is gone, cleaned or
\* undone by another connection, it finds nothing.
HasLater(t, e) ==
    /\ log[t].status = "committed"
    /\ \E u \in DOMAIN log : /\ log[u].status = "committed"
                             /\ u > t
                             /\ \E i \in DOMAIN log[u].actions : Touches(log[u].actions[i], e)

IsCreation(a) == a.row \in Eid /\ a.old = Absent

\* _undo_u, _undo_a and _undo_r report what they cannot do and leave it.
Hopeless(c, a) ==
    \/ a.row \in Eid /\ Absent \notin {a.old, a.new} /\ ~Exists(c, a.row)
    \/ a.row \in Pair /\ \E e \in Linking(a.row) : ~Exists(c, e)
    \/ a.row \in Pair /\ a.new = Linked /\ ~Exists(c, a.row)
    \/ a.row \in Pair /\ a.old = Linked /\ \E q \in Pair : q[1] = a.row[1] /\ Exists(c, q)

UndoReports(c) ==
    /\ phase[c] = "undoing" /\ statement[c] = None /\ script[c] # <<>>
    /\ Hopeless(c, Head(script[c]))
    /\ reported' = [reported EXCEPT ![c] = @ \cup {Head(script[c]).row}]
    /\ script' = [script EXCEPT ![c] = Tail(@)]
    /\ UNCHANGED <<log, phase, tx, statement, target, history, database>>

\* _undo_c raises ValidationError, which ends the undo where it is.
UndoRaises(c) ==
    /\ phase[c] = "undoing" /\ statement[c] = None /\ script[c] # <<>>
    /\ IsCreation(Head(script[c])) /\ HasLater(target[c], Head(script[c]).row)
    /\ phase' = [phase EXCEPT ![c] = "raised"]
    /\ UNCHANGED <<log, tx, statement, history, database, undo>>

\* The statement that reverses the action; nothing is recorded.
UndoAction(c) ==
    LET a == Head(script[c])
    IN  /\ phase[c] = "undoing" /\ statement[c] = None /\ script[c] # <<>>
        /\ ~Hopeless(c, a)
        /\ ~(IsCreation(a) /\ HasLater(target[c], a.row))
        /\ statement' = [statement EXCEPT ![c] =
                            [row |-> a.row, new |-> a.old,
                             old |-> IF a.new = Absent THEN Absent ELSE Seen(c, a.row)]]
        /\ script' = [script EXCEPT ![c] = Tail(@)]
        /\ UNCHANGED <<log, phase, tx, target, reported, history, database>>

--------------------------------------------------------------------------------
(* The end of a transaction.                                               *)

\* undo_transaction has gone through the record and deletes it, errors or not.
Undone(c) == phase[c] = "undoing" /\ statement[c] = None /\ script[c] = <<>>

Reset(c) ==
    /\ phase' = [phase EXCEPT ![c] = "idle"]
    /\ tx' = [tx EXCEPT ![c] = 0]
    /\ target' = [target EXCEPT ![c] = 0]
    /\ script' = [script EXCEPT ![c] = <<>>]
    /\ reported' = [reported EXCEPT ![c] = {}]
    /\ statement' = [statement EXCEPT ![c] = None]
    /\ owner' = [r \in Row |-> IF owner[r] = c THEN Nobody ELSE owner[r]]

\* c has undone the last transaction, without error or race, from an exact record.
StepBack(c) ==
    /\ Undone(c)
    /\ reported[c] = {} /\ overtaken[c] = {}
    /\ past # <<>> /\ Last(past).tx = target[c]
    /\ target[c] \notin stale

\* The undo of the last transaction goes one step back, a recorded one forth;
\* after anything else there is no history to go back through.
Remembered(c) ==
    IF StepBack(c) THEN Front(past)
    ELSE IF tx[c] # 0 THEN Append(past, [tx |-> tx[c], before |-> committed])
    ELSE <<>>

Created(t) == {e \in Eid : \E i \in DOMAIN log[t].actions :
                   log[t].actions[i].row = e /\ IsCreation(log[t].actions[i])}

\* The entities whose creation the commit of c undoes.
Vanished(c) ==
    IF target[c] = 0 THEN {}
    ELSE {e \in Created(target[c]) :
              owner[e] = c /\ now[e] = Absent /\ committed[e] # Absent}

\* Those of which it may have looked for later transactions in vain.
Blind(c) == {e \in Vanished(c) : log[target[c]].status # "committed"}

Commit(c) ==
    /\ phase[c] \in {"open", "raised"} \/ Undone(c)
    /\ statement[c] = None
    /\ committed' = [r \in Row |-> IF owner[r] = c THEN now[r] ELSE committed[r]]
    /\ log' = [t \in DOMAIN log |->
                  IF t = tx[c] THEN [log[t] EXCEPT !.status = "committed"]
                  ELSE IF t = target[c] /\ Undone(c)
                  THEN [log[t] EXCEPT !.status = "gone"]
                  ELSE log[t]]
    /\ past' = Remembered(c)
    /\ stale' = IF tx[c] # 0 /\ overtaken[c] # {} THEN stale \cup {tx[c]} ELSE stale
    /\ overtaken' = [x \in Cnx |-> IF x = c THEN {}
                                  ELSE IF target[x] = 0 THEN overtaken[x]
                                  ELSE overtaken[x] \cup {r \in Row : owner[r] = c}]
    /\ unborn' = [e \in {x \in Vanished(c) \cup DOMAIN unborn : committed'[x] = Absent} |->
                      IF e \in Vanished(c) THEN target[c] ELSE unborn[e]]
    /\ missed' = [x \in Cnx |-> IF x = c THEN {}
                               ELSE IF phase[x] = "idle" THEN {}
                               ELSE missed[x] \cup Vanished(c)]
    /\ excused' = excused
           \cup (({tx[c]} \ {0}) \X (missed[c] \cup
                      UNION {Created(target[x]) : x \in {y \in Cnx : target[y] # 0}}))
           \cup ({t \in DOMAIN log : log[t].status = "committed"} \X Blind(c))
    /\ Reset(c)
    /\ UNCHANGED now

Restored(c) == [r \in Row |-> IF owner[r] = c THEN committed[r] ELSE now[r]]

Rollback(c) ==
    /\ phase[c] \in {"open", "raised", "failed"} \/ Undone(c)
    /\ statement[c] = None
    /\ now' = Restored(c)
    /\ log' = IF tx[c] = 0 THEN log
              ELSE IF tx[c] = Len(log) THEN Front(log)
              ELSE [log EXCEPT ![tx[c]] = [status |-> "gone", actions |-> <<>>]]
    /\ overtaken' = [overtaken EXCEPT ![c] = {}]
    /\ missed' = [missed EXCEPT ![c] = {}]
    /\ Reset(c)
    /\ UNCHANGED <<committed, past, stale, unborn, excused>>

\* cleanup_old_transactions, a periodic task, forgets the records older than t.
Cleanup(t) ==
    /\ \E u \in 1 .. t - 1 : log[u].status = "committed"
    /\ log' = [u \in DOMAIN log |->
                  IF u < t /\ log[u].status = "committed"
                  THEN [log[u] EXCEPT !.status = "gone"] ELSE log[u]]
    /\ UNCHANGED <<phase, tx, statement, history, database, undo>>

\* The bound on transactions stops the behaviour here; the program goes on.
Exhausted ==
    /\ Len(log) = MaxTx
    /\ \A t \in DOMAIN log : log[t].status = "gone"
    /\ \A c \in Cnx : phase[c] = "idle"
    /\ UNCHANGED vars

Next ==
    \/ Exhausted
    \/ \E c \in Cnx :
        \/ \E e \in Eid : \/ \E v \in Values(e) : Create(c, e, v) \/ Update(c, e, v)
                         \/ Delete(c, e)
        \/ \E p \in Pair : Relate(c, p) \/ Unrelate(c, p)
        \/ Write(c) \/ WriteFails(c)
        \/ \E t \in DOMAIN log : Undo(c, t)
        \/ UndoReports(c) \/ UndoRaises(c) \/ UndoAction(c)
        \/ Commit(c) \/ Rollback(c)
    \/ \E t \in DOMAIN log : Cleanup(t)

Spec == Init /\ [][Next]_vars

--------------------------------------------------------------------------------
(* Properties.                                                             *)

\* The value a row had before t touched it, as t recorded it.
RowsOf(t) == {log[t].actions[i].row : i \in DOMAIN log[t].actions}
Before(t, r) == log[t].actions[CHOOSE i \in DOMAIN log[t].actions :
                   /\ log[t].actions[i].row = r
                   /\ \A j \in 1 .. i - 1 : log[t].actions[j].row # r].old

\* When an undo has gone through its record, every row the transaction touched is
\* what it was before, whatever other transactions did to it since, or an error was
\* reported about it - unless another transaction committed a change of the row while
\* the undo ran, which nobody notices.
RestoredOrReported ==
    \A c \in Cnx : Undone(c) =>
        \A r \in RowsOf(target[c]) : \/ r \in reported[c] \cup overtaken[c]
                                     \/ Seen(c, r) = Before(target[c], r)

\* Undoing the last transaction without error, and then the one before, goes back
\* through the committed states of the whole database, unless the transaction
\* recorded a value that another one replaced before it could.
UndoIsInverse ==
    [][\A c \in Cnx : StepBack(c) /\ phase'[c] = "idle" /\ past' = Front(past)
                      => committed' = Last(past).before]_vars

\* An entity whose creation was undone is not touched by another record left, for that
\* record could not be undone any more - unless its transaction began before the one
\* that created the entity, or ran while that was undone, or the record of the creation
\* was gone before its undo looked for later ones.
NoOrphanRecord ==
    \A e \in DOMAIN unborn : \A t \in DOMAIN log :
        /\ log[t].status = "committed"
        /\ \E i \in DOMAIN log[t].actions : Touches(log[t].actions[i], e)
        => t <= unborn[e] \/ <<t, e>> \in excused
================================================================================
