------------------------------- MODULE MCDataFeed ------------------------------
(***************************************************************************)
(* What a repository takes from sources outside: the lock under which it   *)
(* pulls them, the pulls of an LDAP directory, the import of a stream of   *)
(* external entities.  A behaviour is about one of them, and the others    *)
(* stay as they start, in one state.                                       *)
(***************************************************************************)
EXTENDS DataFeedLock, LDAPFeed, Importer

CONSTANTS x1, x2, x3

VARIABLE part

\* External entities of two types, the hint starts with the last; the import starts
\* with nothing, with one, with both ends of the relations.
MCTypeOf == [x \in {x1, x2, x3} |-> IF x = x3 THEN "U" ELSE "T"]
MCHint == <<"U">>
MCGiven == {{}, {x3}, {x1, x2}}
MCLink == {<<x1, x2>>, <<x2, x1>>}

FeedInit ==
    /\ part \in {"lock", "directory", "import"}
    /\ LockInit
    /\ LdapInit /\ (part # "directory" => people = {})
    /\ ImportInit /\ (part # "import" => known = {})

FeedNext ==
    /\ \/ part = "lock" /\ LockNext
       \/ part # "lock" /\ UNCHANGED lockVars
    /\ \/ part = "directory" /\ LdapNext
       \/ part # "directory" /\ UNCHANGED ldapVars
    /\ \/ part = "import" /\ ImportNext
       \/ part # "import" /\ UNCHANGED importVars
    /\ UNCHANGED part

\* The fairness of FairSpec: the property that needs it is about the lock.
FeedSpec ==
    /\ FeedInit /\ [][FeedNext]_<<part, lockVars, ldapVars, importVars>>
    /\ WF_lockVars(Expire) /\ WF_lockVars(Interval)
    /\ \A p \in Process : WF_lockVars(Work(p)) /\ WF_lockVars(ThreadEnds(p))
================================================================================
