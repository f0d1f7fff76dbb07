------------------------------ MODULE PropertySync -----------------------------
(***************************************************************************)
(* The site-wide properties of an application are entities, and a          *)
(* dictionary of the registry that all the connections of a process read   *)
(* (vreg['propertyvalues']).  The hooks of cubicweb/hooks/syncsession.py   *)
(* update it after the commits.  Several properties may have one key: each *)
(* user may have one, and nothing keeps a site from having two.            *)
(***************************************************************************)
EXTENDS Naturals, FiniteSets, Sequences

CONSTANTS
    Editor,    \* connections that edit properties
    Prop,      \* CWProperty entities
    Key,       \* values of pkey
    Value,     \* values of value
    Default,   \* the default value of each property
    MaxEdits   \* bound: editions in a behaviour

ASSUME PropertyAssumption == Default \notin Value /\ Key # {} /\ Value # {}

VARIABLES
    props,     \* the committed properties
    mine,      \* mine[c]: the properties the transaction of c has edited
    detached,  \* transaction_data['pendingrelations']: properties taken from a user
    todo,      \* operations of the transaction of c: sequences of sets and pops
    told,      \* whether c is handed its postcommit events
    registry,  \* vreg['propertyvalues'], or the default
    edits,     \* bound: editions so far
    unsynced   \* history: keys that the registry may be wrong about

propVars == <<props, mine, detached, todo, told, registry, edits, unsynced>>

Property == [there : BOOLEAN, key : Key, value : Value, user : BOOLEAN]
NoEdit == [p \in {} |-> 0]
SiteWide(q) == q.there /\ ~q.user

\* An instance reads the properties when it starts.
PropInit ==
    /\ props = [p \in Prop |-> [there |-> FALSE, user |-> FALSE, key |-> CHOOSE k \in Key : TRUE,
                             value |-> CHOOSE v \in Value : TRUE]]
    /\ mine = [c \in Editor |-> NoEdit]
    /\ detached = [c \in Editor |-> {}]
    /\ todo = [c \in Editor |-> <<>>]
    /\ told = [c \in Editor |-> FALSE]
    /\ registry = [k \in Key |-> Default]
    /\ edits = 0
    /\ unsynced = {}

PropOf(c, p) == IF p \in DOMAIN mine[c] THEN mine[c][p] ELSE props[p]

\* c edits p, registers operations and takes p from its user.
Edit(c, p, q, ops, taken) ==
    /\ ~told[c] /\ edits < MaxEdits
    /\ \A d \in Editor \ {c} : ~told[d] => p \notin DOMAIN mine[d]
    /\ mine' = [mine EXCEPT ![c] = [x \in DOMAIN @ \cup {p} |-> IF x = p THEN q ELSE @[x]]]
    /\ todo' = [todo EXCEPT ![c] = @ \o ops]
    /\ detached' = [detached EXCEPT ![c] = @ \cup taken]
    /\ edits' = edits + 1
    /\ UNCHANGED <<props, told, registry, unsynced>>

Set(p) == [do |-> "set", prop |-> p]
Pop(p) == [do |-> "pop", prop |-> p]

\* AddCWPropertyHook: a manager adds a property of the site, a user one of their own.
AddProperty(c, p) ==
    /\ ~PropOf(c, p).there /\ p \notin DOMAIN mine[c]
    /\ \E k \in Key, v \in Value, user \in BOOLEAN :
        Edit(c, p, [there |-> TRUE, key |-> k, value |-> v, user |-> user],
             IF user THEN <<>> ELSE <<Set(p)>>, {})

\* UpdateCWPropertyHook
UpdateProperty(c, p) ==
    /\ PropOf(c, p).there
    /\ \E k \in Key, v \in Value :
        /\ <<k, v>> # <<PropOf(c, p).key, PropOf(c, p).value>>
        /\ Edit(c, p, [PropOf(c, p) EXCEPT !.key = k, !.value = v],
                IF PropOf(c, p).user THEN <<>> ELSE <<Set(p)>>, {})

\* AddForUserRelationHook and DelForUserRelationHook
GiveProperty(c, p) ==
    /\ SiteWide(PropOf(c, p))
    /\ Edit(c, p, [PropOf(c, p) EXCEPT !.user = TRUE], <<>>, {})
TakeProperty(c, p) ==
    /\ PropOf(c, p).there /\ PropOf(c, p).user
    /\ Edit(c, p, [PropOf(c, p) EXCEPT !.user = FALSE], <<>>, {p})

\* Mutant: the hook of a deletion does nothing.
DeleteProperty_Kept(c, p) ==
    /\ PropOf(c, p).there
    /\ Edit(c, p, [PropOf(c, p) EXCEPT !.there = FALSE], <<>>, {})

\* DeleteCWPropertyHook is called before the relations of the property are deleted:
\* that of a user is not known to be one, unless it was taken from them before.
DeleteProperty(c, p) ==
    /\ PropOf(c, p).there
    /\ Edit(c, p, [PropOf(c, p) EXCEPT !.there = FALSE],
            IF p \in detached[c] THEN <<>> ELSE <<Pop(p)>>, {})

--------------------------------------------------------------------------------

\* The keys a transaction changes without an operation that tells so: properties taken
\* from a user, site-wide ones that get another key or a user.
Untold(c) ==
    (UNION {{props[p].key, mine[c][p].key} : p \in detached[c]})
    \cup {props[p].key : p \in {x \in DOMAIN mine[c] :
            SiteWide(props[x]) /\ (mine[c][x].user \/ mine[c][x].key # props[x].key)}}

CommitProperties(c) ==
    /\ ~told[c] /\ mine[c] # NoEdit
    /\ props' = [p \in Prop |-> PropOf(c, p)]
    /\ told' = [told EXCEPT ![c] = TRUE]
    /\ unsynced' = unsynced \cup Untold(c)
    /\ UNCHANGED <<mine, detached, todo, registry, edits>>

EndEdition(c) ==
    /\ mine' = [mine EXCEPT ![c] = NoEdit]
    /\ detached' = [detached EXCEPT ![c] = {}]
    /\ todo' = [todo EXCEPT ![c] = <<>>]
    /\ told' = [told EXCEPT ![c] = FALSE]
    /\ UNCHANGED <<props, registry, edits, unsynced>>

\* A rollback, before or after the operations ran: they have no precommit event.
DropProperties(c) == ~told[c] /\ EndEdition(c)

\* _ChangeSiteWideCWPropertyOp and _DelSiteWideCWPropertyOp.  The registry is wrong
\* when the operation tells what another transaction, or another property of the key,
\* has made untrue.
TellRegistry(c) ==
    LET p == Head(todo[c]).prop
        q == mine[c][p]
        pop == Head(todo[c]).do = "pop"
        others == {x \in Prop : SiteWide(props[x]) /\ props[x].key = q.key}
    IN  /\ told[c] /\ todo[c] # <<>>
        /\ registry' = IF pop THEN [registry EXCEPT ![q.key] = Default]
                       ELSE IF q.user THEN registry
                       ELSE [registry EXCEPT ![q.key] = q.value]
        /\ unsynced' = IF (pop /\ others # {}) \/ (~pop /\ ~q.user /\ props[p] # q)
                       THEN unsynced \cup {q.key} ELSE unsynced
        /\ todo' = [todo EXCEPT ![c] = Tail(@)]
        /\ UNCHANGED <<props, mine, detached, told, edits>>

AllTold(c) == told[c] /\ todo[c] = <<>> /\ EndEdition(c)

PropStep(c) ==
    \/ \E p \in Prop :
        \/ AddProperty(c, p) \/ UpdateProperty(c, p) \/ DeleteProperty(c, p)
        \/ GiveProperty(c, p) \/ TakeProperty(c, p)
    \/ CommitProperties(c)
    \/ DropProperties(c)
    \/ TellRegistry(c)
    \/ AllTold(c)

PropNext == \E c \in Editor : PropStep(c)

PropSpec == PropInit /\ [][PropNext]_propVars

--------------------------------------------------------------------------------

\* hooks/syncsession.py:30: "Synchronize site wide properties when one has been
\* added/updated", or deleted.  Between transactions the registry has the value of a
\* site-wide property of the key, or the default without any.  But for keys some
\* property of which was given another key, was given to a user or taken from one, was
\* deleted next to another one, even a user's own, or was changed by two transactions
\* whose postcommit events crossed.
RegistryInStep ==
    (\A c \in Editor : ~told[c]) =>
        \A k \in Key \ unsynced :
            LET values == {props[p].value : p \in {p \in Prop :
                                                   SiteWide(props[p]) /\ props[p].key = k}}
            IN  registry[k] \in IF values = {} THEN {Default} ELSE values
================================================================================
