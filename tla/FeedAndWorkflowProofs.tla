------------------------- MODULE FeedAndWorkflowProofs -------------------------
(***************************************************************************)
(* What the repository can rely on when it takes data from outside, and    *)
(* what it keeps of the state of an entity.  The lock of a source keeps    *)
(* one holder, whatever the number of processes, of their deaths and of    *)
(* their background threads.  A pull of a directory copies what it was     *)
(* answered, whenever the directory or the managers change something.  An  *)
(* import brings in what can be, in whatever order the entities come.  The *)
(* changes of state of an entity follow one another, whatever transactions *)
(* fire at once and whatever their operations fire after them.             *)
(***************************************************************************)
EXTENDS DataFeedLock, LDAPFeed, Importer, Workflow, SequenceLemmas, FiniteSetTheorems

(* The lock.                                                               *)

Tested == {p \in Process : stage[p] = "tested"}

(* LockIsMarked is not inductive: a process that has tested the time stamp *)
(* sets it whoever holds the lock by then.  Either it was beaten, and it   *)
(* overtakes whoever has the lock, or the lock it found too old, or free,  *)
(* is still in nobody's hands.                                             *)
FreeOnceTested == (\E p \in Tested : p \notin beaten) => Holders \subseteq overtaken

IInv == TypeOK /\ FreeOnceTested /\ LockIsMarked

--------------------------------------------------------------------------------

LEMMA TypeStep == TypeOK /\ [LockNext]_lockVars => TypeOK'
<1> SUFFICES ASSUME TypeOK, [LockNext]_lockVars PROVE TypeOK'
  OBVIOUS
<1> USE FeedBoundsAssumption DEF TypeOK, Goto, Tasks
<1>1. CASE Expire \/ Interval
  BY <1>1 DEF Expire, Interval, Holders
<1>2. ASSUME NEW p \in Process, Call(p, TRUE) \/ Call(p, FALSE) \/ Fire(p) \/ Test(p) \/ Pull(p)
      PROVE  TypeOK'
  BY <1>2 DEF Call, Fire, Test, Pull, Returned
<1>3. ASSUME NEW p \in Process, Set(p) \/ Release(p) \/ ReleaseRaises(p)
      PROVE  TypeOK'
  BY <1>3 DEF Set, Release, ReleaseRaises, Returned, Holders
<1>4. ASSUME NEW p \in Process, Pulled(p) \/ Interrupted(p) PROVE TypeOK'
  BY <1>4 DEF Pulled, Retrieved, Interrupted
<1>5. ASSUME NEW p \in Process, PullInThread(p) PROVE TypeOK'
  BY <1>5 DEF PullInThread
<1>6. ASSUME NEW p \in Process, ThreadEnds(p) PROVE TypeOK'
  BY <1>6 DEF ThreadEnds, Retrieved
<1>7. ASSUME NEW p \in Process, Crash(p) PROVE TypeOK'
  <2>1. crashes' \in 0..MaxCrashes /\ threads' \in [Process -> 0..MaxThreads]
    BY <1>7 DEF Crash
  <2>2. task' \in [Process -> Tasks]
    BY <1>7 DEF Crash, AtStart
  <2> QED
    BY <1>7, <2>1, <2>2 DEF Crash
<1>8. CASE UNCHANGED lockVars
  BY <1>8 DEF lockVars
<1> QED
  BY <1>1, <1>2, <1>3, <1>4, <1>5, <1>6, <1>7, <1>8 DEF LockNext, Work

\* Every variable keeps its type, and a process never has fewer threads than none.
THEOREM TypeCorrect == LockSpec => []TypeOK
<1>1. LockInit => TypeOK
  BY FeedBoundsAssumption DEF LockInit, TypeOK, Tasks, AtStart
<1> QED
  BY <1>1, TypeStep, PTL DEF LockSpec

--------------------------------------------------------------------------------

LEMMA LockStep == IInv /\ [LockNext]_lockVars => IInv'
<1> SUFFICES ASSUME IInv, [LockNext]_lockVars PROVE (FreeOnceTested /\ LockIsMarked)'
  BY TypeStep DEF IInv
<1> USE DEF IInv, TypeOK, FreeOnceTested, LockIsMarked, Tested, Holders, Goto
<1>1. CASE Expire \/ Interval
  BY <1>1 DEF Expire, Interval
<1>2. ASSUME NEW p \in Process, Call(p, TRUE) \/ Call(p, FALSE) \/ Fire(p)
      PROVE  (FreeOnceTested /\ LockIsMarked)'
  BY <1>2 DEF Call, Fire
<1>3. ASSUME NEW p \in Process, Test(p) PROVE (FreeOnceTested /\ LockIsMarked)'
  BY <1>3 DEF Test
<1>4. ASSUME NEW p \in Process, Set(p) PROVE (FreeOnceTested /\ LockIsMarked)'
  <2>1. stage[p] = "tested" /\ Holders' = Holders \cup {p}
    BY <1>4 DEF Set
  <2>2. Holders \subseteq overtaken'
    BY <1>4, <2>1 DEF Set
  <2>3. \A q \in Tested' : q \in beaten'
    BY <1>4 DEF Set
  <2> QED
    BY <1>4, <2>1, <2>2, <2>3 DEF Set
<1>5. ASSUME NEW p \in Process, Pull(p) \/ Pulled(p) \/ PullInThread(p) \/ Interrupted(p)
      PROVE  (FreeOnceTested /\ LockIsMarked)'
  BY <1>5 DEF Pull, Pulled, PullInThread, Interrupted
<1>6. ASSUME NEW p \in Process, Release(p) \/ ReleaseRaises(p)
      PROVE  (FreeOnceTested /\ LockIsMarked)'
  BY <1>6 DEF Release, ReleaseRaises
<1>7. ASSUME NEW p \in Process, ThreadEnds(p) \/ Crash(p)
      PROVE  (FreeOnceTested /\ LockIsMarked)'
  BY <1>7 DEF ThreadEnds, Crash
<1>8. CASE UNCHANGED lockVars
  BY <1>8 DEF lockVars
<1> QED
  BY <1>1, <1>2, <1>3, <1>4, <1>5, <1>6, <1>7, <1>8 DEF LockNext, Work

\* IInv holds initially and is kept by every step.
THEOREM InvariantCorrect == LockSpec => []IInv
<1>1. LockInit => IInv
  BY FeedBoundsAssumption DEF LockInit, IInv, TypeOK, FreeOnceTested, LockIsMarked, Tested,
     Holders, Tasks, AtStart
<1> QED
  BY <1>1, LockStep, PTL DEF LockSpec

\* datafeed.py:140-156: one call at a time has the lock and its mark stays until that call
\* releases it, but for a lock that may have been taken over.
THEOREM LockCorrect == LockSpec => []LockIsMarked
<1>1. IInv => LockIsMarked
  BY DEF IInv
<1> QED
  BY <1>1, InvariantCorrect, PTL

--------------------------------------------------------------------------------
(* The pulls of a directory.                                               *)

Groups == LocalGroup \cup TeamGroup
Status == {"none", "activated", "deactivated"}
Answers == [TeamGroup -> (SUBSET Login) \cup {NoGroup}]
Steps == {"idle", "users", "groups", "relations", "members", "deletion", "commit"}

LdapTypes ==
    /\ people \subseteq Login /\ teams \in Answers
    /\ accounts \in [Login -> Status] /\ managed \subseteq Login
    /\ groups \subseteq Groups /\ in_group \subseteq Login \X Groups
    /\ before \in [accounts : [Login -> Status], managed : SUBSET Login,
                   groups : SUBSET Groups, in_group : SUBSET (Login \X Groups)]
    /\ pullStep \in Steps
    /\ found \subseteq Login /\ foundTeams \in Answers
    /\ imported \subseteq Login /\ toFill \subseteq TeamGroup
    /\ error \in BOOLEAN

Importing == pullStep \in {"groups", "relations", "members", "deletion"}
Ended == pullStep = "commit" /\ ~error

\* process_urls() stops at the exception it catches.
ErrorCaught == error => pullStep = "commit"

\* A user of the source has an account, and had one when the pull began.
ManagedExist ==
    /\ \A l \in managed : accounts[l] # "none"
    /\ \A l \in before.managed : before.accounts[l] # "none"

\* Nothing is copied before the answer to the search of users.
NothingYet == pullStep = "users" => accounts = before.accounts /\ managed = before.managed

\* The pull leaves the users of other sources as they were.
OnlyManaged == pullStep # "idle" =>
    /\ before.managed \subseteq managed
    /\ \A l \in Login \ managed : accounts[l] = before.accounts[l]

\* Nobody is deactivated before the deletion, which follows no error.
NotYetDeactivated == pullStep # "idle" /\ ~Ended =>
    \A l \in Login : before.accounts[l] = "activated" => accounts[l] = "activated"

\* What the import is made of: those that no other source has, new ones activated.
WhatIsImported == Importing \/ Ended =>
    /\ imported = {l \in found : before.accounts[l] = "none" \/ l \in before.managed}
    /\ managed = before.managed \cup imported
    /\ \A l \in found : accounts[l] # "none"
    /\ \A l \in imported \ before.managed : accounts[l] = "activated"

\* The deletion finds activated all that it has to leave activated.
ImportedActivated == pullStep = "deletion" => \A l \in imported : accounts[l] = "activated"

\* and makes the others not.
FollowsUsers == Ended => \A l \in managed : accounts[l] = "activated" <=> l \in found

\* The groups left to fill are groups of the answer, at first all of them.
LeftToFill ==
    /\ pullStep \in {"relations", "members"} => toFill \subseteq Listed(foundTeams)
    /\ pullStep = "relations" => toFill = Listed(foundTeams)
    /\ pullStep = "deletion" \/ Ended => toFill = {}

\* The groups that are filled have the members they list.
Filled == pullStep \in {"members", "deletion"} \/ Ended =>
    \A l \in Login, g \in Listed(foundTeams) \ toFill :
        <<l, g>> \in in_group <=> l \in foundTeams[g] /\ accounts[l] # "none"

\* Filling a group takes nobody out of the default groups that are not listed.
Defaulted == pullStep \in {"members", "deletion"} \/ Ended =>
    \A l \in imported, g \in (DefaultGroup \cap before.groups) \ Listed(foundTeams) :
        <<l, g>> \in in_group

(* DirectoryFollowed is about the end of a pull: what it says of each part *)
(* of the copy is established by one step and kept by those that follow.   *)
LdapInv ==
    /\ LdapTypes /\ ErrorCaught /\ ManagedExist /\ NothingYet /\ OnlyManaged
    /\ NotYetDeactivated /\ WhatIsImported /\ ImportedActivated /\ FollowsUsers
    /\ LeftToFill /\ Filled /\ Defaulted

LEMMA SnapshotTypes == LdapTypes =>
    /\ before.accounts \in [Login -> Status] /\ before.managed \subseteq Login
    /\ before.groups \subseteq Groups /\ before.in_group \subseteq Login \X Groups
  BY DEF LdapTypes

LEMMA LdapTypesStep == LdapTypes /\ LeftToFill /\ [LdapNext]_ldapVars => LdapTypes'
<1> SUFFICES ASSUME LdapTypes, LeftToFill, [LdapNext]_ldapVars PROVE LdapTypes'
  OBVIOUS
<1> USE SnapshotTypes DEF LdapTypes, copied, ofPull, directory, Goes, Caught, Steps, Status, Answers
<1>1. CASE DirectoryChanges
  BY <1>1 DEF DirectoryChanges
<1>2. ASSUME NEW l \in Login, ManagerChanges(l) PROVE LdapTypes'
  BY <1>2 DEF ManagerChanges
<1>3. CASE BeginPull
  BY <1>3 DEF BeginPull, Snapshot
<1>4. CASE SearchUsers \/ UsersRaise
  <2>1. found' \subseteq Login
    BY <1>4 DEF SearchUsers, UsersRaise
  <2>2. PICK some \in SUBSET Importable(found') : ImportUsers(some)
    BY <1>4 DEF SearchUsers, UsersRaise
  <2>3. some \subseteq Login
    BY <2>1, <2>2 DEF Importable
  <2>4. accounts' \in [Login -> Status] /\ managed' \subseteq Login /\ imported' \subseteq Login
    BY <2>2, <2>3 DEF ImportUsers
  <2>5. UNCHANGED <<people, teams, groups, in_group, before, foundTeams, toFill>>
    BY <2>2 DEF ImportUsers
  <2>6. pullStep' \in Steps /\ error' \in BOOLEAN
    BY <1>4 DEF SearchUsers, UsersRaise
  <2> QED
    BY <2>1, <2>4, <2>5, <2>6
<1>5. CASE SearchGroups \/ GroupsRaise
  <2>1. foundTeams' \in Answers
    BY <1>5 DEF SearchGroups, GroupsRaise, NoTeams
  <2>2. Listed(foundTeams') \subseteq TeamGroup /\ Listed(teams) \subseteq TeamGroup
    BY DEF Listed
  <2>3. groups' \subseteq Groups /\ toFill' \subseteq TeamGroup
    BY <1>5, <2>2 DEF SearchGroups, GroupsRaise, Groups
  <2>4. pullStep' \in Steps /\ error' \in BOOLEAN
    BY <1>5 DEF SearchGroups, GroupsRaise
  <2>5. UNCHANGED <<people, teams, accounts, managed, in_group, before, found, imported>>
    BY <1>5 DEF SearchGroups, GroupsRaise
  <2> QED
    BY <2>1, <2>3, <2>4, <2>5
<1>6. CASE DefaultRelations
  BY <1>6 DEF DefaultRelations
<1>7. ASSUME NEW g \in TeamGroup, SetMembers(g) \/ MembersRaise(g) PROVE LdapTypes'
  <2>1. pullStep = "members" /\ g \in toFill
    BY <1>7 DEF SetMembers, MembersRaise
  <2>2. foundTeams[g] # NoGroup
    BY <2>1 DEF LeftToFill, Listed
  <2>3. foundTeams[g] \in SUBSET Login
    BY <2>2
  <2>4. in_group' \subseteq Login \X Groups
    <3>1. Emptied(g) \subseteq Login \X Groups
      BY DEF Emptied
    <3>2. {<<l, g>> : l \in {l \in foundTeams[g] : accounts[l] # "none"}} \subseteq Login \X Groups
      BY <2>3 DEF Groups
    <3> QED
      BY <1>7, <3>1, <3>2 DEF SetMembers, MembersRaise
  <2>5. UNCHANGED <<people, teams, accounts, managed, groups, before, found, foundTeams, imported>>
    BY <1>7 DEF SetMembers, MembersRaise
  <2>6. pullStep' \in Steps /\ error' \in BOOLEAN /\ toFill' \subseteq TeamGroup
    BY <1>7 DEF SetMembers, MembersRaise
  <2> QED
    BY <2>4, <2>5, <2>6
<1>8. CASE ensure_activated \/ handle_deletion
  BY <1>8 DEF ensure_activated, handle_deletion, ChangeStates
<1>9. CASE CommitPull \/ AbandonPull
  <2>1. pullStep' = "idle" /\ found' = {} /\ imported' = {} /\ toFill' = {} /\ error' = FALSE
    BY <1>9 DEF CommitPull, AbandonPull, EndsPull
  <2>2. foundTeams' \in Answers
    BY <1>9 DEF CommitPull, AbandonPull, EndsPull, NoTeams
  <2>3. before' \in [accounts : [Login -> Status], managed : SUBSET Login,
                    groups : SUBSET Groups, in_group : SUBSET (Login \X Groups)]
    BY <1>9 DEF CommitPull, AbandonPull, EndsPull, NoSnapshot
  <2>4. UNCHANGED <<people, teams>>
    BY <1>9 DEF CommitPull, AbandonPull, EndsPull
  <2>5. /\ accounts' \in [Login -> Status] /\ managed' \subseteq Login
        /\ groups' \subseteq Groups /\ in_group' \subseteq Login \X Groups
    BY <1>9 DEF CommitPull, AbandonPull
  <2> QED
    BY <2>1, <2>2, <2>3, <2>4, <2>5
<1>10. CASE UNCHANGED ldapVars
  BY <1>10 DEF ldapVars
<1> QED
  BY <1>1, <1>2, <1>3, <1>4, <1>5, <1>6, <1>7, <1>8, <1>9, <1>10 DEF LdapNext

LEMMA LdapStep == LdapInv /\ [LdapNext]_ldapVars => LdapInv'
<1> SUFFICES ASSUME LdapInv, [LdapNext]_ldapVars PROVE LdapInv'
  OBVIOUS
<1>1. LdapTypes'
  BY LdapTypesStep DEF LdapInv
<1>2. LdapTypes /\ ErrorCaught /\ ManagedExist /\ NothingYet /\ OnlyManaged
    /\ NotYetDeactivated /\ WhatIsImported /\ ImportedActivated /\ FollowsUsers
    /\ LeftToFill /\ Filled /\ Defaulted
  BY DEF LdapInv
<1> USE <1>1, <1>2, SnapshotTypes DEF Goes, Caught, ofPull, copied
<1>3. CASE DirectoryChanges \/ UNCHANGED ldapVars
  <2>1. UNCHANGED <<accounts, managed, groups, in_group, before, pullStep,
                  found, foundTeams, imported, toFill, error>>
    BY <1>3 DEF DirectoryChanges, ldapVars
  <2> QED
    BY <2>1 DEF LdapInv, ErrorCaught, ManagedExist, NothingYet, OnlyManaged,
       NotYetDeactivated, WhatIsImported, ImportedActivated, FollowsUsers, LeftToFill,
       Filled, Defaulted, Importing, Ended, Listed
<1>4. ASSUME NEW l \in Login, ManagerChanges(l) PROVE LdapInv'
  <2>1. pullStep = "idle" /\ UNCHANGED <<before, pullStep, found, foundTeams, imported,
                                        toFill, error>>
    BY <1>4 DEF ManagerChanges
  <2>2. ManagedExist'
    BY <1>4 DEF ManagerChanges, ManagedExist, LdapTypes
  <2> QED
    BY <2>1, <2>2 DEF LdapInv, ErrorCaught, NothingYet, OnlyManaged, NotYetDeactivated,
       WhatIsImported, ImportedActivated, FollowsUsers, LeftToFill, Filled, Defaulted,
       Importing, Ended
<1>5. CASE BeginPull
  <2>1. /\ pullStep' = "users" /\ ~error' /\ UNCHANGED <<accounts, managed>>
        /\ before'.accounts = accounts /\ before'.managed = managed
    BY <1>5 DEF BeginPull, Snapshot, ErrorCaught, LdapTypes
  <2> QED
    BY <2>1 DEF LdapInv, ErrorCaught, ManagedExist, NothingYet, OnlyManaged,
       NotYetDeactivated, WhatIsImported, ImportedActivated, FollowsUsers, LeftToFill,
       Filled, Defaulted, Importing, Ended
<1>6. ASSUME NEW some, some \subseteq Importable(found'), ImportUsers(some), pullStep = "users",
             \/ pullStep' = "groups" /\ ~error' /\ some = Importable(found')
             \/ pullStep' = "commit" /\ error'
      PROVE  LdapInv'
  <2>1. /\ UNCHANGED before /\ managed' = managed \cup some /\ imported' = some
        /\ \A l \in Login : accounts'[l] = IF l \in some /\ accounts[l] = "none"
                                             THEN "activated" ELSE accounts[l]
    BY <1>6 DEF ImportUsers
  <2>2. accounts = before.accounts /\ managed = before.managed
    BY <1>6 DEF NothingYet
  <2>3. found' \subseteq Login /\ some \subseteq Login
    BY <1>6 DEF LdapTypes, Importable
  <2>4. ErrorCaught' /\ ManagedExist' /\ NothingYet' /\ OnlyManaged'
    BY <1>6, <2>1, <2>2, <2>3 DEF ErrorCaught, ManagedExist, NothingYet, OnlyManaged,
       LdapTypes, Importable
  <2>5. NotYetDeactivated'
    BY <1>6, <2>1, <2>2, <2>3 DEF NotYetDeactivated, Ended, LdapTypes
  <2>6. WhatIsImported'
    BY <1>6, <2>1, <2>2, <2>3 DEF WhatIsImported, Importing, Ended, LdapTypes, Importable
  <2>7. ImportedActivated' /\ FollowsUsers' /\ LeftToFill' /\ Filled' /\ Defaulted'
    BY <1>6 DEF ImportedActivated, FollowsUsers, LeftToFill, Filled, Defaulted, Ended
  <2> QED
    BY <2>4, <2>5, <2>6, <2>7 DEF LdapInv
<1>7. CASE SearchUsers
  <2>1. ImportUsers(Importable(found')) /\ pullStep = "users" /\ pullStep' = "groups" /\ ~error'
    BY <1>7 DEF SearchUsers, ErrorCaught, LdapTypes
  <2> QED
    BY <2>1, <1>6
<1>8. CASE UsersRaise
  BY <1>8, <1>6 DEF UsersRaise
<1>9. CASE SearchGroups \/ GroupsRaise
  <2>1. /\ UNCHANGED <<accounts, managed, in_group, before, found, imported>>
        /\ pullStep = "groups"
        /\ \/ pullStep' = "relations" /\ error' = error /\ toFill' = Listed(foundTeams')
           \/ pullStep' = "commit" /\ error'
    BY <1>9 DEF SearchGroups, GroupsRaise
  <2> QED
    BY <2>1 DEF LdapInv, ErrorCaught, ManagedExist, NothingYet, OnlyManaged,
       NotYetDeactivated, WhatIsImported, ImportedActivated, FollowsUsers, LeftToFill,
       Filled, Defaulted, Importing, Ended, Listed
<1>10. CASE DefaultRelations
  <2>1. /\ UNCHANGED <<accounts, managed, before, found, foundTeams, imported, toFill, error>>
        /\ pullStep = "relations" /\ pullStep' = "members"
        /\ in_group' = in_group \cup (imported \X (DefaultGroup \cap before.groups))
    BY <1>10 DEF DefaultRelations
  <2>2. Filled' /\ Defaulted'
    BY <2>1 DEF LeftToFill, Filled, Defaulted, Listed
  <2> QED
    BY <2>1, <2>2 DEF LdapInv, ErrorCaught, ManagedExist, NothingYet, OnlyManaged,
       NotYetDeactivated, WhatIsImported, ImportedActivated, FollowsUsers, LeftToFill,
       Importing, Ended, Listed
<1>11. ASSUME NEW g \in TeamGroup, SetMembers(g) PROVE LdapInv'
  <2>1. /\ UNCHANGED <<accounts, managed, before, pullStep, found, foundTeams, imported, error>>
        /\ pullStep = "members" /\ g \in toFill /\ toFill' = toFill \ {g}
        /\ in_group' = Emptied(g) \cup
              {<<l, g>> : l \in {l \in foundTeams[g] : accounts[l] # "none"}}
    BY <1>11 DEF SetMembers
  <2>2. g \in Listed(foundTeams) /\ Listed(foundTeams') = Listed(foundTeams)
    BY <2>1 DEF LeftToFill, Listed
  <2>3. ASSUME NEW l \in Login, NEW h \in Groups
        PROVE  <<l, h>> \in in_group' <=> IF h = g THEN l \in foundTeams[g] /\ accounts[l] # "none"
                                          ELSE <<l, h>> \in in_group
    BY <2>1 DEF Emptied
  <2>4. Filled'
    BY <2>1, <2>2, <2>3 DEF Filled, Listed, Groups
  <2>5. Defaulted'
    BY <2>1, <2>2, <2>3 DEF Defaulted, LdapTypes
  <2> QED
    BY <2>1, <2>2, <2>4, <2>5 DEF LdapInv, ErrorCaught, ManagedExist, NothingYet,
       OnlyManaged, NotYetDeactivated, WhatIsImported, ImportedActivated, FollowsUsers,
       LeftToFill, Importing, Ended
<1>12. ASSUME NEW g \in TeamGroup, MembersRaise(g) PROVE LdapInv'
  <2>1. /\ UNCHANGED <<accounts, managed, before>>
        /\ pullStep = "members" /\ pullStep' = "commit" /\ error'
    BY <1>12 DEF MembersRaise
  <2> QED
    BY <2>1 DEF LdapInv, ErrorCaught, ManagedExist, NothingYet, OnlyManaged,
       NotYetDeactivated, WhatIsImported, ImportedActivated, FollowsUsers, LeftToFill,
       Filled, Defaulted, Importing, Ended
<1>13. CASE ensure_activated
  <2>1. /\ UNCHANGED <<managed, in_group, before, found, foundTeams, imported, toFill, error>>
        /\ pullStep = "members" /\ pullStep' = "deletion" /\ toFill = {}
        /\ \A l \in Login : accounts'[l] = IF l \in imported \cap before.managed
                                             THEN "activated" ELSE accounts[l]
    BY <1>13 DEF ensure_activated, ChangeStates
  <2>2. ~error /\ ~error'
    BY <2>1 DEF ErrorCaught
  <2>3. \A l \in Login : accounts'[l] = "none" <=> accounts[l] = "none"
    BY <2>1 DEF WhatIsImported, Importing, LdapTypes
  <2>4. ErrorCaught' /\ ManagedExist' /\ NothingYet' /\ OnlyManaged'
    BY <2>1, <2>2, <2>3 DEF ErrorCaught, ManagedExist, NothingYet, OnlyManaged, LdapTypes
  <2>5. NotYetDeactivated' /\ ImportedActivated' /\ FollowsUsers'
    BY <2>1, <2>2 DEF NotYetDeactivated, Ended, LdapTypes, ImportedActivated, FollowsUsers,
       WhatIsImported, Importing
  <2>6. WhatIsImported'
    BY <2>1, <2>3 DEF WhatIsImported, Importing, Ended, LdapTypes
  <2>7. Filled'
    BY <2>1, <2>3 DEF Filled, Listed, Ended
  <2>8. LeftToFill' /\ Defaulted'
    BY <2>1, <2>2 DEF LeftToFill, Defaulted, Listed
  <2> QED
    BY <2>4, <2>5, <2>6, <2>7, <2>8 DEF LdapInv
<1>14. CASE handle_deletion
  <2>1. /\ UNCHANGED <<managed, in_group, before, found, foundTeams, imported, toFill, error>>
        /\ pullStep = "deletion" /\ pullStep' = "commit"
        /\ \A l \in Login : accounts'[l] =
              IF l \in before.managed \ found /\ accounts[l] = "activated"
              THEN "deactivated" ELSE accounts[l]
    BY <1>14 DEF handle_deletion, ChangeStates
  <2>2. ~error /\ ~error'
    BY <2>1 DEF ErrorCaught
  <2>3. \A l \in Login : accounts'[l] = "none" <=> accounts[l] = "none"
    BY <2>1
  <2>4. ErrorCaught' /\ ManagedExist' /\ NothingYet' /\ OnlyManaged'
    BY <2>1, <2>2, <2>3 DEF ErrorCaught, ManagedExist, NothingYet, OnlyManaged, LdapTypes
  <2>5. NotYetDeactivated' /\ ImportedActivated' /\ LeftToFill'
    BY <2>1, <2>2 DEF NotYetDeactivated, Ended, ImportedActivated, LeftToFill
  <2>6. WhatIsImported'
    BY <2>1, <2>3 DEF WhatIsImported, Importing, Ended, LdapTypes
  <2>7. FollowsUsers'
    BY <2>1 DEF FollowsUsers, WhatIsImported, ImportedActivated, Importing, LdapTypes
  <2>8. Filled' /\ Defaulted'
    BY <2>1, <2>3 DEF Filled, Defaulted, Listed
  <2> QED
    BY <2>4, <2>5, <2>6, <2>7, <2>8 DEF LdapInv
<1>15. CASE CommitPull \/ AbandonPull
  <2>1. pullStep' = "idle" /\ ~error' /\ before'.managed = {}
    BY <1>15 DEF CommitPull, AbandonPull, EndsPull, NoSnapshot
  <2>2. ManagedExist'
    BY <1>15, <2>1 DEF CommitPull, AbandonPull, EndsPull, ManagedExist
  <2> QED
    BY <2>1, <2>2 DEF LdapInv, ErrorCaught, NothingYet, OnlyManaged, NotYetDeactivated,
       WhatIsImported, ImportedActivated, FollowsUsers, LeftToFill, Filled, Defaulted,
       Importing, Ended
<1> QED
  BY <1>3, <1>4, <1>5, <1>7, <1>8, <1>9, <1>10, <1>11, <1>12, <1>13, <1>14, <1>15 DEF LdapNext

\* LdapInv holds initially and is kept by every step, of a pull, of the directory and of
\* the managers.
THEOREM LdapInvariant == LdapSpec => []LdapInv
<1>1. ASSUME LdapInit PROVE LdapInv
  <2> USE <1>1 DEF LdapInit
  <2>1. accounts \in [Login -> Status] /\ groups \subseteq Groups /\ teams \in Answers
    BY DEF Status, Groups, Answers, NoTeams
  <2>2. before.managed = {}
    BY DEF NoSnapshot
  <2>3. before \in [accounts : [Login -> Status], managed : SUBSET Login,
                   groups : SUBSET Groups, in_group : SUBSET (Login \X Groups)]
    BY DEF NoSnapshot, Status
  <2>4. LdapTypes
    BY <2>1, <2>3 DEF LdapTypes, Steps
  <2> QED
    BY <2>2, <2>4 DEF LdapInv, ErrorCaught, ManagedExist, NothingYet, OnlyManaged,
       NotYetDeactivated, WhatIsImported, ImportedActivated, FollowsUsers, LeftToFill,
       Filled, Defaulted, Importing, Ended
<1> QED
  BY <1>1, LdapStep, PTL DEF LdapSpec

\* datafeed.py:214, ldapparser.py: at its end a pull without error left activated, of the
\* users of the source, those it was answered and only them, in the groups that list them;
\* one with an error deactivated nobody; the users of other sources are as they were.
THEOREM DirectoryFollowedHolds == LdapSpec => []DirectoryFollowed
<1>1. LdapInv => DirectoryFollowed
  <2> SUFFICES ASSUME LdapInv, pullStep = "commit" PROVE DirectoryFollowed
    BY DEF DirectoryFollowed
  <2>1. \A l \in Login \ managed : accounts[l] = before.accounts[l]
    BY DEF LdapInv, OnlyManaged
  <2>2. error => \A l \in Login : before.accounts[l] = "activated" => accounts[l] = "activated"
    BY DEF LdapInv, NotYetDeactivated, Ended
  <2>3. ASSUME ~error
        PROVE  /\ \A l \in managed : accounts[l] = "activated" <=> l \in found
               /\ \A l \in found : accounts[l] # "none"
               /\ \A l \in Login, g \in Listed(foundTeams) :
                     <<l, g>> \in in_group <=> l \in foundTeams[g] /\ accounts[l] # "none"
               /\ \A g \in (DefaultGroup \cap before.groups) \ Listed(foundTeams) :
                     \A l \in found \cap managed : <<l, g>> \in in_group
    <3>1. Ended /\ toFill = {}
      BY <2>3 DEF Ended, LdapInv, LeftToFill
    <3>2. found \cap managed \subseteq imported
      BY <3>1 DEF LdapInv, WhatIsImported
    <3> QED
      BY <3>1, <3>2 DEF LdapInv, FollowsUsers, WhatIsImported, Filled, Defaulted
  <2> QED
    BY <2>1, <2>2, <2>3 DEF DirectoryFollowed
<1> QED
  BY <1>1, LdapInvariant, PTL

--------------------------------------------------------------------------------
(* The import.                                                             *)

\* An entity of the stream.
Waiting == [pos : Nat, extid : ExtId, needs : SUBSET ExtId]
KnownTypes == ExtTypes \cup {Hint[i] : i \in DOMAIN Hint}
Ends == ExtId \X ExtId
Taken == applied \cup Postponed

ImportTypes ==
    /\ known \subseteq ExtId /\ extid2eid \subseteq ExtId
    /\ queue \in [ExtTypes -> Seq(Waiting)]
    /\ order_hint \in Seq(KnownTypes)
    /\ at \in 0..Len(order_hint) /\ seen \in Nat /\ new_queue \in Seq(Waiting)
    /\ new \in BOOLEAN
    /\ applied \subseteq Waiting /\ taken \in Nat
    /\ deferred \subseteq Ends /\ existing \subseteq Ends
    /\ asked \subseteq Ends /\ kept \subseteq Ends
    /\ inserted \in [Ends -> Nat]
    /\ importStep \in {"read", "relations", "over"}

\* Every entity that was read is applied or waits.
OnceTaken ==
    /\ IsFiniteSet(Taken) /\ Cardinality(Taken) = taken
    /\ \A e \in Taken : e.pos < taken

\* Nothing is known that does not follow from what was known and what was read.
LeastKnown == \A k \in ClosedSets : known \subseteq k => extid2eid \subseteq k

\* Of the first n entities that wait in the queue of t, none is ready.
NoneReady(t, n) == \A i \in 1..n : ~is_ready(queue[t][i], extid2eid)

\* Back to the stream, nothing that waits is ready.
BetweenRounds == at = 0 =>
    /\ seen = 0 /\ new_queue = <<>> /\ ~new
    /\ \A t \in ExtTypes : NoneReady(t, Len(queue[t]))

\* A round goes through every type that has a queue; as long as nothing left the
\* queues nothing became ready in those that it went through.
InRound == at # 0 =>
    /\ importStep = "read"
    /\ \A t \in QueuedTypes(queue) : \E i \in 1..Len(order_hint) : order_hint[i] = t
    /\ Etype \notin ExtTypes => seen = 0 /\ new_queue = <<>>
    /\ Etype \in ExtTypes =>
        /\ seen <= Len(queue[Etype])
        /\ \A i \in 1..Len(new_queue) : \E j \in 1..seen : new_queue[i] = queue[Etype][j]
        /\ \A j \in 1..seen : queue[Etype][j] \in applied
                           \/ \E i \in 1..Len(new_queue) : new_queue[i] = queue[Etype][j]
    /\ ~new => /\ \A j \in 1..(at - 1) : order_hint[j] \in ExtTypes =>
                      NoneReady(order_hint[j], Len(queue[order_hint[j]]))
               /\ Etype \in ExtTypes => NoneReady(Etype, seen)

\* How often the relation was inserted, in either direction if it is symmetric.
Times(l) == inserted[l] + (IF symmetric /\ l # Reversed(l) THEN inserted[Reversed(l)] ELSE 0)
BothKnown(l) == {l[1], l[2]} \subseteq extid2eid

\* What was inserted is what exists and was not there, whatever is deferred.
Relations ==
    /\ importStep = "read" => inserted = [l \in Ends |-> 0]
    /\ importStep # "read" =>
       /\ deferred \subseteq asked /\ kept \subseteq existing
       /\ symmetric => \A l \in Ends : /\ l \in existing <=> Reversed(l) \in existing
                                       /\ l \in kept <=> Reversed(l) \in kept
       /\ \A l \in Ends : Times(l) = IF l \in existing \ kept THEN 1 ELSE 0
       /\ \A l \in existing \ kept : BothKnown(l)
       /\ \A l \in asked \ deferred : BothKnown(l) => l \in existing
    /\ importStep = "over" => deferred = {}


StreamInv == OnceTaken /\ LeastKnown /\ BetweenRounds /\ InRound
ImportInv == ImportTypes /\ StreamInv /\ Relations

LEMMA EntityTypes == \A x \in ExtId : TypeOf[x] \in ExtTypes
  BY DEF ExtTypes

LEMMA IsPostponed ==
  ASSUME NEW e
  PROVE  e \in Postponed <=> \E t \in ExtTypes : \E i \in DOMAIN queue[t] : queue[t][i] = e
  BY DEF Postponed

LEMMA IsPostponedNext ==
  ASSUME NEW e
  PROVE  e \in Postponed' <=> \E t \in ExtTypes : \E i \in DOMAIN queue'[t] : queue'[t][i] = e
  BY DEF Postponed

LEMMA NewTypes ==
  ASSUME NEW rest \in Enumerations(Lacking(queue)), ImportTypes
  PROVE  /\ rest \in Seq(KnownTypes)
         /\ {rest[i] : i \in 1..Len(rest)} = Lacking(queue)
<1>1. Lacking(queue) \subseteq ExtTypes
  BY DEF Lacking, QueuedTypes
<1>2. Cardinality(Lacking(queue)) \in Nat
  BY <1>1, ImporterAssumption, FS_Subset, FS_CardinalityType DEF ExtTypes
<1>3. rest \in [1..Cardinality(Lacking(queue)) -> Lacking(queue)]
      /\ {rest[i] : i \in DOMAIN rest} = Lacking(queue)
  BY DEF Enumerations
<1>4. rest \in Seq(Lacking(queue)) /\ DOMAIN rest = 1..Len(rest)
  BY <1>2, <1>3
<1> QED
  BY <1>1, <1>3, <1>4 DEF KnownTypes

LEMMA RoundTypes ==
  ASSUME ImportTypes, NEW e \in Waiting, Take(e)
  PROVE  /\ order_hint' \in Seq(KnownTypes) /\ at' \in 0..Len(order_hint')
         /\ at' # 0 => \A t \in QueuedTypes(queue) :
               \E i \in 1..Len(order_hint') : order_hint'[i] = t
         /\ at' \in {0, 1}
         /\ at' = 0 => QueuedTypes(queue) = {}
<1>1. CASE QueuedTypes(queue) = {}
  BY <1>1 DEF Take, ImportTypes
<1>2. ASSUME QueuedTypes(queue) # {}
      PROVE  /\ order_hint' \in Seq(KnownTypes) /\ at' = 1 /\ Len(order_hint') > 0
             /\ \A t \in QueuedTypes(queue) : \E i \in 1..Len(order_hint') : order_hint'[i] = t
  <2>1. PICK rest \in Enumerations(Lacking(queue)) : order_hint' = order_hint \o rest
    BY <1>2 DEF Take
  <2>2. rest \in Seq(KnownTypes) /\ {rest[i] : i \in 1..Len(rest)} = Lacking(queue)
    BY <2>1, NewTypes
  <2>3. order_hint \in Seq(KnownTypes)
    BY DEF ImportTypes
  <2>4. /\ order_hint' \in Seq(KnownTypes) /\ Len(order_hint') = Len(order_hint) + Len(rest)
        /\ \A i \in 1..Len(order_hint) + Len(rest) :
              order_hint'[i] = IF i <= Len(order_hint) THEN order_hint[i]
                               ELSE rest[i - Len(order_hint)]
    BY <2>1, <2>2, <2>3, ConcatProperties
  <2>5. ASSUME NEW t \in QueuedTypes(queue) PROVE \E i \in 1..Len(order_hint') : order_hint'[i] = t
    <3>1. CASE \E j \in 1..Len(order_hint) : order_hint[j] = t
      BY <3>1, <2>3, <2>2, <2>4
    <3>2. CASE t \in Lacking(queue)
      <4>1. PICK j \in 1..Len(rest) : rest[j] = t
        BY <3>2, <2>2
      <4>2. Len(order_hint) \in Nat /\ Len(rest) \in Nat
        BY <2>2, <2>3
      <4>3. order_hint'[Len(order_hint) + j] = t
        BY <4>1, <4>2, <2>4
      <4>4. Len(order_hint) + j \in 1..Len(order_hint')
        BY <4>1, <4>2, <2>4
      <4> QED
        BY <4>3, <4>4
    <3> QED
      BY <3>1, <3>2, <2>3 DEF Lacking
  <2>6. Len(order_hint') > 0
    BY <1>2, <2>4, <2>5
  <2> QED
    BY <1>2, <2>4, <2>5, <2>6 DEF Take
<1> QED
  BY <1>1, <1>2

LEMMA ImportTypesStep == ImportTypes /\ [ImportNext]_importVars => ImportTypes'
<1> SUFFICES ASSUME ImportTypes, [ImportNext]_importVars PROVE ImportTypes'
  OBVIOUS
<1> USE DEF ImportTypes, ofStream, ofRelations, ofRound
<1>1. ASSUME NEW e \in ExtEntity(taken)
      PROVE  e \in Waiting /\ e.pos = taken /\ TypeOf[e.extid] \in ExtTypes
  BY EntityTypes DEF ExtEntity, Waiting
<1>2. ASSUME NEW e \in ExtEntity(taken), Postpone(e) PROVE ImportTypes'
  <2>1. Append(queue[TypeOf[e.extid]], e) \in Seq(Waiting)
    BY <1>1, <1>2
  <2>2. queue' \in [ExtTypes -> Seq(Waiting)]
    BY <1>1, <1>2, <2>1 DEF Postpone
  <2> QED
    BY <1>2, <2>2 DEF Postpone
<1>3. ASSUME NEW e \in ExtEntity(taken), Take(e) PROVE ImportTypes'
  <2>1. order_hint' \in Seq(KnownTypes) /\ at' \in 0..Len(order_hint')
    BY <1>1, <1>3, RoundTypes
  <2>2. extid2eid' \subseteq ExtId /\ applied' \subseteq Waiting
    BY <1>1, <1>3 DEF Take, Waiting
  <2> QED
    BY <1>3, <2>1, <2>2 DEF Take
<1>4. CASE LookAtNext
  <2>1. queue[Etype][seen + 1] \in Waiting
    BY <1>4 DEF LookAtNext, HasNext
  <2>2. extid2eid' \subseteq ExtId /\ applied' \subseteq Waiting /\ new_queue' \in Seq(Waiting)
    <3>1. CASE is_ready(queue[Etype][seen + 1], extid2eid)
      <4>1. /\ extid2eid' = extid2eid \cup {queue[Etype][seen + 1].extid}
            /\ applied' = applied \cup {queue[Etype][seen + 1]}
            /\ new_queue' = new_queue
        BY <1>4, <3>1, Zenon DEF LookAtNext
      <4>2. queue[Etype][seen + 1].extid \in ExtId
        BY <2>1 DEF Waiting
      <4> QED
        BY <2>1, <4>1, <4>2
    <3>2. CASE ~is_ready(queue[Etype][seen + 1], extid2eid)
      <4>1. /\ extid2eid' = extid2eid /\ applied' = applied
            /\ new_queue' = Append(new_queue, queue[Etype][seen + 1])
        BY <1>4, <3>2, Zenon DEF LookAtNext
      <4> QED
        BY <2>1, <4>1
    <3> QED
      BY <3>1, <3>2
  <2>3. new' \in BOOLEAN
    BY <1>4, Zenon DEF LookAtNext
  <2> QED
    BY <1>4, <2>2, <2>3 DEF LookAtNext
<1>5. CASE EndsType
  <2>1. queue' \in [ExtTypes -> Seq(Waiting)]
    BY <1>5 DEF EndsType
  <2>2. at' \in 0..Len(order_hint')
    BY <1>5 DEF EndsType, NextRound
  <2>3. new' \in BOOLEAN
    BY <1>5, Zenon DEF EndsType
  <2> QED
    BY <1>5, <2>1, <2>2, <2>3 DEF EndsType
<1>6. ASSUME NEW links \in SUBSET Link, NEW old \in SUBSET Link, NEW sym,
             StreamEnds(links, old, sym)
      PROVE  ImportTypes'
  <2>1. links \subseteq Ends /\ old \subseteq Ends
    BY ImporterAssumption DEF Ends
  <2>2. BothWays(old) \subseteq Ends
    BY <2>1 DEF BothWays, Reversed, Ends
  <2> QED
    BY <1>6, <2>1, <2>2 DEF StreamEnds
<1>7. ASSUME NEW l \in deferred, InsertRelation(l) PROVE ImportTypes'
  <2>1. l \in Ends /\ BothWays({l}) \subseteq Ends
    BY DEF BothWays, Reversed, Ends
  <2> QED
    <3>1. inserted' \in [Ends -> Nat] /\ existing' \subseteq Ends
      <4>1. CASE UNCHANGED <<inserted, existing>>
        BY <4>1
      <4>2. CASE ~UNCHANGED <<inserted, existing>>
        <5>1. /\ inserted' = [inserted EXCEPT ![l] = @ + 1]
              /\ existing' = existing \cup (IF symmetric THEN BothWays({l}) ELSE {l})
          BY <1>7, <4>2 DEF InsertRelation
        <5>2. inserted' \in [Ends -> Nat]
          BY <2>1, <5>1
        <5>3. (IF symmetric THEN BothWays({l}) ELSE {l}) \subseteq Ends
          BY <2>1
        <5> QED
          BY <5>1, <5>2, <5>3
      <4> QED
        BY <4>1, <4>2
    <3> QED
      BY <1>7, <3>1 DEF InsertRelation
<1>8. CASE ImportEnds \/ UNCHANGED importVars
  BY <1>8 DEF ImportEnds, importVars
<1> QED
  BY <1>2, <1>3, <1>4, <1>5, <1>6, <1>7, <1>8 DEF ImportNext

LEMMA TakenTypes == ImportTypes => Taken \subseteq Waiting
<1> SUFFICES ASSUME ImportTypes, NEW e \in Postponed PROVE e \in Waiting
  BY DEF Taken, ImportTypes
<1>1. PICK t \in ExtTypes : \E i \in DOMAIN queue[t] : queue[t][i] = e
  BY IsPostponed
<1>2. queue[t] \in Seq(Waiting)
  BY DEF ImportTypes
<1> QED
  BY <1>1, <1>2

LEMMA OnceTakenStep ==
  ASSUME ImportTypes, OnceTaken, NEW e \in Waiting, e.pos = taken,
         Taken' = Taken \cup {e}, taken' = taken + 1
  PROVE  OnceTaken'
<1>1. e \notin Taken /\ taken \in Nat
  BY DEF OnceTaken, ImportTypes
<1>2. IsFiniteSet(Taken') /\ Cardinality(Taken') = taken + 1
  BY <1>1, FS_AddElement DEF OnceTaken
<1>3. \A f \in Taken' : f.pos < taken + 1
  <2> TAKE f \in Taken'
  <2>1. CASE f = e
    BY <2>1, <1>1
  <2>2. CASE f \in Taken
    <3>1. f.pos \in Nat
      BY <2>2, TakenTypes DEF Waiting
    <3> QED
      BY <2>2, <3>1, <1>1 DEF OnceTaken
  <2> QED
    BY <2>1, <2>2
<1> QED
  BY <1>2, <1>3 DEF OnceTaken

LEMMA LeastKnownStep ==
  ASSUME LeastKnown, known' = known, Taken \subseteq Taken',
         \/ extid2eid' = extid2eid
         \/ \E e \in Taken' : is_ready(e, extid2eid) /\ extid2eid' = extid2eid \cup {e.extid}
  PROVE  LeastKnown'
<1> SUFFICES ASSUME NEW k \in ClosedSets', known' \subseteq k PROVE extid2eid' \subseteq k
  BY DEF LeastKnown
<1>1. k \in SUBSET ExtId /\ \A e \in Taken' : is_ready(e, k) => e.extid \in k
  BY DEF ClosedSets, Taken
<1>2. k \in ClosedSets
  BY <1>1 DEF ClosedSets, Taken
<1>3. extid2eid \subseteq k
  BY <1>2 DEF LeastKnown
<1> QED
  BY <1>1, <1>3 DEF is_ready

LEMMA LookEffects ==
  ASSUME ImportTypes, LookAtNext, NEW e, e = queue[Etype][seen + 1]
  PROVE  /\ at # 0 /\ Etype \in ExtTypes /\ seen < Len(queue[Etype])
         /\ e \in Waiting
         /\ UNCHANGED <<known, queue, order_hint, at, taken, ofRelations>> /\ seen' = seen + 1
         /\ \/ /\ is_ready(e, extid2eid) /\ extid2eid' = extid2eid \cup {e.extid}
               /\ applied' = applied \cup {e} /\ new' /\ new_queue' = new_queue
            \/ /\ ~is_ready(e, extid2eid) /\ new_queue' = Append(new_queue, e)
               /\ extid2eid' = extid2eid /\ applied' = applied /\ new' = new
<1>1. at # 0 /\ Etype \in ExtTypes /\ seen < Len(queue[Etype])
  BY DEF LookAtNext, HasNext
<1>2. e \in Waiting
  BY <1>1 DEF ImportTypes
<1>3. UNCHANGED <<known, queue, order_hint, at, taken, ofRelations>> /\ seen' = seen + 1
  BY DEF LookAtNext
<1>4. CASE is_ready(e, extid2eid)
  <2>1. /\ extid2eid' = extid2eid \cup {e.extid}
        /\ applied' = applied \cup {e} /\ new' /\ new_queue' = new_queue
    BY <1>4, Zenon DEF LookAtNext
  <2> QED
    BY <1>1, <1>2, <1>3, <1>4, <2>1
<1>5. CASE ~is_ready(e, extid2eid)
  <2>1. /\ new_queue' = Append(new_queue, e)
        /\ extid2eid' = extid2eid /\ applied' = applied /\ new' = new
    BY <1>5, Zenon DEF LookAtNext
  <2> QED
    BY <1>1, <1>2, <1>3, <1>5, <2>1
<1> QED
  BY <1>4, <1>5

LEMMA PostponeStep ==
  ASSUME ImportTypes, StreamInv, NEW e \in ExtEntity(taken), Postpone(e)
  PROVE  StreamInv'
<1>1. e \in Waiting /\ e.pos = taken /\ TypeOf[e.extid] \in ExtTypes
  BY EntityTypes DEF ExtEntity, Waiting, ImportTypes
<1>2. /\ at = 0 /\ at' = 0 /\ seen' = seen /\ new_queue' = new_queue /\ new' = new
      /\ UNCHANGED <<known, extid2eid, applied>> /\ taken' = taken + 1
      /\ queue' = [queue EXCEPT ![TypeOf[e.extid]] = Append(@, e)]
      /\ ~is_ready(e, extid2eid)
  BY DEF Postpone, ofRound
<1>3. \A t \in ExtTypes : queue[t] \in Seq(Waiting)
  BY DEF ImportTypes
<1>4. Taken' = Taken \cup {e}
  <2>1. \A f : f \in Postponed' <=> f \in Postponed \/ f = e
    <3> TAKE f
    <3>1. ASSUME f \in Postponed' PROVE f \in Postponed \/ f = e
      <4> PICK t \in ExtTypes : \E i \in DOMAIN queue'[t] : queue'[t][i] = f
        BY <3>1, IsPostponedNext
      <4>1. PICK i \in DOMAIN queue'[t] : queue'[t][i] = f
        OBVIOUS
      <4>2. CASE t = TypeOf[e.extid]
        <5>1. queue'[t] = Append(queue[t], e)
          BY <1>1, <1>2, <4>2 DEF ImportTypes
        <5>2. i \in 1..(Len(queue[t]) + 1)
          BY <4>1, <5>1, <1>3
        <5>3. i = Len(queue[t]) + 1 => f = e
          BY <4>1, <5>1, <5>2, <1>3
        <5>4. i # Len(queue[t]) + 1 => i \in DOMAIN queue[t] /\ queue[t][i] = f
          BY <4>1, <5>1, <5>2, <1>3
        <5> QED
          BY <5>3, <5>4, IsPostponed
      <4>3. CASE t # TypeOf[e.extid]
        <5>1. queue'[t] = queue[t]
          BY <1>1, <1>2, <4>3 DEF ImportTypes
        <5> QED
          BY <4>1, <5>1, IsPostponed
      <4> QED
        BY <4>2, <4>3
    <3>2. ASSUME f \in Postponed PROVE f \in Postponed'
      <4> PICK t \in ExtTypes : \E i \in DOMAIN queue[t] : queue[t][i] = f
        BY <3>2, IsPostponed
      <4>1. PICK i \in DOMAIN queue[t] : queue[t][i] = f
        OBVIOUS
      <4>2. i \in DOMAIN queue'[t] /\ queue'[t][i] = f
        <5>1. queue'[t] = IF t = TypeOf[e.extid] THEN Append(queue[t], e) ELSE queue[t]
          BY <1>1, <1>2 DEF ImportTypes
        <5> QED
          BY <4>1, <5>1, <1>3
      <4> QED
        BY <4>2, IsPostponedNext
    <3>3. e \in Postponed'
      <4>1. queue'[TypeOf[e.extid]] = Append(queue[TypeOf[e.extid]], e)
        BY <1>1, <1>2 DEF ImportTypes
      <4>2. Len(queue[TypeOf[e.extid]]) + 1 \in DOMAIN queue'[TypeOf[e.extid]]
            /\ queue'[TypeOf[e.extid]][Len(queue[TypeOf[e.extid]]) + 1] = e
        BY <1>1, <1>3, <4>1
      <4> QED
        BY <1>1, <4>2, IsPostponedNext
    <3> QED
      BY <3>1, <3>2, <3>3
  <2> QED
    BY <2>1, <1>2 DEF Taken
<1>5. OnceTaken'
  BY <1>1, <1>2, <1>4, OnceTakenStep DEF StreamInv
<1>6. LeastKnown'
  BY <1>2, <1>4, LeastKnownStep DEF StreamInv
<1>7. BetweenRounds'
  <2>1. ASSUME NEW t \in ExtTypes, NEW i \in 1..Len(queue'[t])
        PROVE  ~is_ready(queue'[t][i], extid2eid)
    <3>1. queue'[t] = IF t = TypeOf[e.extid] THEN Append(queue[t], e) ELSE queue[t]
      BY <1>1, <1>2 DEF ImportTypes
    <3>2. \A j \in 1..Len(queue[t]) : ~is_ready(queue[t][j], extid2eid)
      BY <1>2 DEF StreamInv, BetweenRounds, NoneReady
    <3>3. queue'[t][i] = e \/ (i \in 1..Len(queue[t]) /\ queue'[t][i] = queue[t][i])
      BY <3>1, <1>3
    <3> QED
      BY <3>2, <3>3, <1>2
  <2> QED
    BY <2>1, <1>2 DEF StreamInv, BetweenRounds, NoneReady
<1>8. InRound'
  BY <1>2 DEF InRound
<1> QED
  BY <1>5, <1>6, <1>7, <1>8 DEF StreamInv

LEMMA TakeStep ==
  ASSUME ImportTypes, StreamInv, NEW e \in ExtEntity(taken), Take(e)
  PROVE  StreamInv'
<1>1. e \in Waiting /\ e.pos = taken
  BY DEF ExtEntity, Waiting, ImportTypes
<1>2. /\ importStep = "read" /\ at = 0 /\ is_ready(e, extid2eid)
      /\ extid2eid' = extid2eid \cup {e.extid} /\ applied' = applied \cup {e}
      /\ taken' = taken + 1 /\ seen' = seen /\ new_queue' = new_queue /\ new' = new
      /\ UNCHANGED <<known, queue, importStep>>
  BY DEF Take, ofRelations
<1>3. seen = 0 /\ new_queue = <<>> /\ ~new
  BY <1>2 DEF StreamInv, BetweenRounds
<1>4. Taken' = Taken \cup {e}
  BY <1>2 DEF Taken, Postponed
<1>5. OnceTaken'
  BY <1>1, <1>2, <1>4, OnceTakenStep DEF StreamInv
<1>6. LeastKnown'
  BY <1>2, <1>4, LeastKnownStep DEF StreamInv
<1>7. /\ at' # 0 => \A t \in QueuedTypes(queue) : \E i \in 1..Len(order_hint') : order_hint'[i] = t
      /\ at' \in {0, 1}
      /\ at' = 0 => QueuedTypes(queue) = {}
  BY <1>1, RoundTypes
<1>8. BetweenRounds'
  <2> SUFFICES ASSUME at' = 0, NEW t \in ExtTypes, NEW i \in 1..Len(queue[t]) PROVE FALSE
    BY <1>2, <1>3 DEF BetweenRounds, NoneReady
  <2>1. queue[t] = <<>>
    BY <1>7 DEF QueuedTypes
  <2> QED
    BY <2>1
<1>9. InRound'
  <2>1. Etype' \in ExtTypes => Len(queue[Etype']) \in Nat
    BY DEF ImportTypes
  <2>2. \A i \in 1..0 : FALSE
    OBVIOUS
  <2> SUFFICES ASSUME at' # 0 PROVE InRound'
    BY DEF InRound
  <2>3. at' = 1 /\ \A t \in QueuedTypes(queue') : \E i \in 1..Len(order_hint') : order_hint'[i] = t
    BY <1>2, <1>7
  <2>4. seen' = 0 /\ new_queue' = <<>> /\ importStep' = "read"
    BY <1>2, <1>3
  <2>5. Etype' \in ExtTypes =>
          /\ seen' <= Len(queue'[Etype'])
          /\ \A i \in 1..Len(new_queue') : \E j \in 1..seen' : new_queue'[i] = queue'[Etype'][j]
          /\ \A j \in 1..seen' : queue'[Etype'][j] \in applied'
                             \/ \E i \in 1..Len(new_queue') : new_queue'[i] = queue'[Etype'][j]
    BY <1>2, <2>1, <2>2, <2>4
  <2>6. /\ \A j \in 1..(at' - 1) : order_hint'[j] \in ExtTypes =>
              NoneReady(order_hint[j], Len(queue[order_hint[j]]))'
        /\ Etype' \in ExtTypes => NoneReady(Etype, seen)'
    BY <2>2, <2>3, <2>4 DEF NoneReady
  <2> QED
    BY <2>3, <2>4, <2>5, <2>6 DEF InRound
<1> QED
  BY <1>5, <1>6, <1>8, <1>9 DEF StreamInv

LEMMA LookStep ==
  ASSUME ImportTypes, StreamInv, LookAtNext
  PROVE  StreamInv'
<1> DEFINE e == queue[Etype][seen + 1]
<1>1. /\ at # 0 /\ Etype \in ExtTypes /\ seen < Len(queue[Etype])
      /\ e \in Waiting
      /\ UNCHANGED <<known, queue, order_hint, at, taken, ofRelations>> /\ seen' = seen + 1
      /\ \/ /\ is_ready(e, extid2eid) /\ extid2eid' = extid2eid \cup {e.extid}
            /\ applied' = applied \cup {e} /\ new' /\ new_queue' = new_queue
         \/ /\ ~is_ready(e, extid2eid) /\ new_queue' = Append(new_queue, e)
            /\ extid2eid' = extid2eid /\ applied' = applied /\ new' = new
  BY LookEffects
<1>2. /\ queue[Etype] \in Seq(Waiting) /\ seen \in Nat /\ new_queue \in Seq(Waiting)
      /\ Len(queue[Etype]) \in Nat /\ Len(new_queue) \in Nat
  BY <1>1 DEF ImportTypes
<1>3. seen + 1 \in DOMAIN queue[Etype]
  BY <1>1, <1>2
<1>4. e \in Postponed
  BY <1>1, <1>3, IsPostponed
<1>5. Taken' = Taken
  BY <1>1, <1>4 DEF Taken, Postponed
<1>6. OnceTaken'
  BY <1>1, <1>5 DEF StreamInv, OnceTaken
<1>7. LeastKnown'
  BY <1>1, <1>4, <1>5, LeastKnownStep DEF StreamInv, Taken
<1>8. BetweenRounds'
  BY <1>1 DEF BetweenRounds
<1>9. Etype' = Etype
  BY <1>1 DEF Etype
<1> HIDE DEF e
<1>10. e = queue[Etype][seen + 1]
  BY DEF e
<1>11. \A j \in 1..(seen + 1) : j = seen + 1 \/ j \in 1..seen
  BY <1>2
<1>12. \A i \in 1..Len(new_queue') : \E j \in 1..seen' : new_queue'[i] = queue[Etype][j]
  <2>1. \A i \in 1..Len(new_queue) : \E j \in 1..seen : new_queue[i] = queue[Etype][j]
    BY <1>1 DEF StreamInv, InRound
  <2>2. CASE new_queue' = new_queue
    BY <1>1, <1>2, <2>1, <2>2
  <2>3. CASE new_queue' = Append(new_queue, e)
    <3> TAKE i \in 1..Len(new_queue')
    <3>1. /\ Len(new_queue') = Len(new_queue) + 1
          /\ new_queue'[Len(new_queue) + 1] = e
          /\ \A n \in 1..Len(new_queue) : new_queue'[n] = new_queue[n]
      BY <1>2, <1>1, <2>3
    <3>2. CASE i = Len(new_queue) + 1
      <4>1. new_queue'[i] = queue[Etype][seen + 1] /\ seen + 1 \in 1..seen'
        BY <1>1, <1>2, <1>10, <3>1, <3>2
      <4> QED
        BY <4>1
    <3>3. CASE i \in 1..Len(new_queue)
      <4>1. PICK j \in 1..seen : new_queue[i] = queue[Etype][j]
        BY <2>1, <3>3
      <4>2. j \in 1..seen'
        BY <1>1, <1>2
      <4> QED
        BY <3>1, <3>3, <4>1, <4>2
    <3> QED
      BY <3>1, <3>2, <3>3, <1>2
  <2> QED
    BY <1>1, <2>2, <2>3
<1>13. \A j \in 1..seen' : queue[Etype][j] \in applied'
                        \/ \E i \in 1..Len(new_queue') : new_queue'[i] = queue[Etype][j]
  <2> TAKE j \in 1..seen'
  <2>1. CASE j = seen + 1
    <3>1. CASE e \in applied'
      BY <1>10, <2>1, <3>1
    <3>2. CASE new_queue' = Append(new_queue, e)
      <4>1. Len(new_queue) + 1 \in 1..Len(new_queue') /\ new_queue'[Len(new_queue) + 1] = e
        BY <1>1, <1>2, <3>2
      <4> QED
        BY <1>10, <2>1, <4>1
    <3> QED
      BY <1>1, <3>1, <3>2
  <2>2. CASE j \in 1..seen
    <3>1. queue[Etype][j] \in applied
          \/ \E i \in 1..Len(new_queue) : new_queue[i] = queue[Etype][j]
      BY <1>1, <2>2 DEF StreamInv, InRound
    <3>2. \A i \in 1..Len(new_queue) : i \in 1..Len(new_queue') /\ new_queue'[i] = new_queue[i]
      BY <1>1, <1>2
    <3> QED
      BY <1>1, <3>1, <3>2
  <2> QED
    BY <1>1, <1>11, <2>1, <2>2
<1>14. ~new' => /\ \A j \in 1..(at - 1) : order_hint[j] \in ExtTypes =>
                        NoneReady(order_hint[j], Len(queue[order_hint[j]]))'
               /\ NoneReady(Etype, seen)'
  <2> SUFFICES ASSUME ~new' PROVE /\ \A j \in 1..(at - 1) : order_hint[j] \in ExtTypes =>
                                       NoneReady(order_hint[j], Len(queue[order_hint[j]]))'
                                  /\ NoneReady(Etype, seen)'
    OBVIOUS
  <2>1. ~is_ready(e, extid2eid) /\ extid2eid' = extid2eid /\ ~new
    BY <1>1
  <2>2. /\ \A j \in 1..(at - 1) : order_hint[j] \in ExtTypes =>
              NoneReady(order_hint[j], Len(queue[order_hint[j]]))
        /\ NoneReady(Etype, seen)
    BY <1>1, <2>1 DEF StreamInv, InRound
  <2> QED
    BY <1>1, <1>9, <1>10, <1>11, <2>1, <2>2 DEF NoneReady
<1>15. InRound'
  <2>1. seen' <= Len(queue'[Etype'])
    BY <1>1, <1>2, <1>9
  <2>2. importStep' = "read"
    BY <1>1 DEF StreamInv, InRound, ofRelations
  <2>3. \A t \in QueuedTypes(queue') : \E i \in 1..Len(order_hint') : order_hint'[i] = t
    BY <1>1 DEF StreamInv, InRound, QueuedTypes
  <2> QED
    BY <1>1, <1>9, <1>12, <1>13, <1>14, <2>1, <2>2, <2>3 DEF InRound
<1> QED
  BY <1>6, <1>7, <1>8, <1>15 DEF StreamInv

\* The queue that is left holds what it held and is not applied.
LEMMA EndsTypeQueue ==
  ASSUME ImportTypes, StreamInv, EndsType, NEW t \in ExtTypes
  PROVE  /\ queue'[t] \in Seq(Waiting) /\ queue[t] \in Seq(Waiting)
         /\ \A i \in 1..Len(queue'[t]) : \E j \in 1..Len(queue[t]) : queue'[t][i] = queue[t][j]
         /\ \A j \in 1..Len(queue[t]) : queue[t][j] \in applied
                                     \/ \E i \in 1..Len(queue'[t]) : queue'[t][i] = queue[t][j]
<1>1. queue[t] \in Seq(Waiting) /\ new_queue \in Seq(Waiting) /\ seen \in Nat
  BY DEF ImportTypes
<1>2. CASE t = Etype
  <2>1. at # 0 /\ queue'[t] = new_queue /\ ~(seen < Len(queue[t]))
    BY <1>2 DEF EndsType, ImportTypes, HasNext
  <2>2. /\ seen <= Len(queue[t])
        /\ \A i \in 1..Len(new_queue) : \E j \in 1..seen : new_queue[i] = queue[t][j]
        /\ \A j \in 1..seen : queue[t][j] \in applied
                           \/ \E i \in 1..Len(new_queue) : new_queue[i] = queue[t][j]
    BY <1>2, <2>1 DEF StreamInv, InRound
  <2>3. seen = Len(queue[t])
    BY <1>1, <2>1, <2>2
  <2> QED
    BY <1>1, <2>1, <2>2, <2>3
<1>3. CASE t # Etype
  <2>1. queue'[t] = queue[t]
    BY <1>3 DEF EndsType, ImportTypes
  <2> QED
    BY <1>1, <2>1
<1> QED
  BY <1>2, <1>3

LEMMA EndsTypeStep ==
  ASSUME ImportTypes, StreamInv, EndsType
  PROVE  StreamInv'
<1>1. /\ at # 0 /\ seen' = 0 /\ new_queue' = <<>>
      /\ UNCHANGED <<known, extid2eid, order_hint, applied, taken>> /\ importStep' = importStep
      /\ IF at < Len(order_hint) THEN at' = at + 1 /\ new' = new
         ELSE at' = NextRound(new) /\ new' = FALSE
  BY DEF EndsType, ofRelations
<1>2. at \in 1..Len(order_hint) /\ Len(order_hint) \in Nat
  BY <1>1 DEF ImportTypes
<1>3. Taken' = Taken
  <2>1. ASSUME NEW e \in Postponed PROVE e \in applied \/ e \in Postponed'
    <3>1. PICK t \in ExtTypes : \E j \in DOMAIN queue[t] : queue[t][j] = e
      BY <2>1, IsPostponed
    <3>2. PICK j \in DOMAIN queue[t] : queue[t][j] = e
      BY <3>1
    <3>3. j \in 1..Len(queue[t])
      BY <3>2, EndsTypeQueue
    <3>4. e \in applied \/ \E i \in 1..Len(queue'[t]) : queue'[t][i] = e
      BY <3>2, <3>3, EndsTypeQueue
    <3>5. DOMAIN queue'[t] = 1..Len(queue'[t])
      BY EndsTypeQueue
    <3> QED
      BY <3>4, <3>5, IsPostponedNext
  <2>2. ASSUME NEW e \in Postponed' PROVE e \in Postponed
    <3>1. PICK t \in ExtTypes : \E i \in DOMAIN queue'[t] : queue'[t][i] = e
      BY <2>2, IsPostponedNext
    <3>2. PICK i \in DOMAIN queue'[t] : queue'[t][i] = e
      BY <3>1
    <3>3. i \in 1..Len(queue'[t])
      BY <3>2, EndsTypeQueue
    <3>4. \E j \in 1..Len(queue[t]) : queue[t][j] = e
      BY <3>2, <3>3, EndsTypeQueue
    <3>5. DOMAIN queue[t] = 1..Len(queue[t])
      BY EndsTypeQueue
    <3> QED
      BY <3>4, <3>5, IsPostponed
  <2> QED
    BY <1>1, <2>1, <2>2 DEF Taken
<1>4. OnceTaken' /\ LeastKnown'
  BY <1>1, <1>3, LeastKnownStep DEF StreamInv, OnceTaken
\* In a round where nothing left the queue, the types gone through have nothing ready.
<1>5. ASSUME ~new, NEW j \in 1..at, order_hint[j] \in ExtTypes
      PROVE  NoneReady(order_hint[j], Len(queue[order_hint[j]]))'
  <2> DEFINE t == order_hint[j]
  <2>1. \A i \in 1..Len(queue[t]) : ~is_ready(queue[t][i], extid2eid)
    <3>1. CASE j = at
      <4>1. t = Etype /\ Etype \in ExtTypes
        BY <1>5, <3>1 DEF Etype
      <4>2. ~(seen < Len(queue[t]))
        BY <4>1 DEF EndsType, HasNext
      <4>3. seen <= Len(queue[t]) /\ NoneReady(t, seen)
        BY <1>1, <1>5, <4>1 DEF StreamInv, InRound
      <4>4. seen \in Nat /\ Len(queue[t]) \in Nat
        BY <4>1 DEF ImportTypes
      <4> QED
        BY <4>2, <4>3, <4>4 DEF NoneReady
    <3>2. CASE j \in 1..(at - 1)
      BY <1>1, <1>5, <3>2 DEF StreamInv, InRound, NoneReady
    <3> QED
      BY <1>2, <3>1, <3>2
  <2>2. \A i \in 1..Len(queue'[t]) : \E n \in 1..Len(queue[t]) : queue'[t][i] = queue[t][n]
    BY <1>5, EndsTypeQueue
  <2>3. order_hint'[j] = t
    BY <1>1
  <2> HIDE DEF t
  <2> QED
    BY <1>1, <2>1, <2>2, <2>3 DEF NoneReady, t
<1>6. ASSUME NEW t \in QueuedTypes(queue') PROVE \E i \in 1..Len(order_hint) : order_hint[i] = t
  <2>1. t \in ExtTypes /\ queue'[t] # <<>>
    BY <1>6 DEF QueuedTypes
  <2>2. queue[t] # <<>>
    <3>1. Len(queue'[t]) # 0
      BY <2>1, EndsTypeQueue
    <3>2. 1 \in 1..Len(queue'[t])
      BY <2>1, <3>1, EndsTypeQueue
    <3> QED
      BY <2>1, <3>2, EndsTypeQueue
  <2> QED
    BY <1>1, <2>1, <2>2 DEF StreamInv, InRound, QueuedTypes
<1>7. BetweenRounds'
  <2> SUFFICES ASSUME at' = 0 PROVE BetweenRounds'
    BY DEF BetweenRounds
  <2>1. ~(at < Len(order_hint)) /\ ~new /\ new' = FALSE
    BY <1>1, <1>2 DEF NextRound
  <2>2. at = Len(order_hint)
    BY <1>2, <2>1
  <2>3. ASSUME NEW t \in ExtTypes PROVE NoneReady(t, Len(queue[t]))'
    <3>1. CASE queue'[t] = <<>>
      BY <3>1 DEF NoneReady
    <3>2. CASE queue'[t] # <<>>
      <4>1. PICK j \in 1..Len(order_hint) : order_hint[j] = t
        BY <1>6, <3>2 DEF QueuedTypes
      <4> QED
        BY <1>1, <1>5, <2>1, <2>2, <4>1
    <3> QED
      BY <3>1, <3>2
  <2> QED
    BY <1>1, <2>1, <2>3 DEF BetweenRounds
<1>8. InRound'
  <2> SUFFICES ASSUME at' # 0 PROVE InRound'
    BY DEF InRound
  <2>1. \A i \in 1..0 : FALSE
    OBVIOUS
  <2>2. importStep' = "read"
    BY <1>1 DEF StreamInv, InRound
  <2>3. Etype' \in ExtTypes => NoneReady(Etype, seen)' /\ seen' <= Len(queue'[Etype'])
    BY <1>1, <2>1, EndsTypeQueue DEF NoneReady
  <2>4. ~new' => \A j \in 1..(at' - 1) : order_hint'[j] \in ExtTypes =>
                    NoneReady(order_hint[j], Len(queue[order_hint[j]]))'
    <3>1. CASE at < Len(order_hint)
      <4>1. at' - 1 = at /\ new' = new /\ order_hint' = order_hint
        BY <1>1, <1>2, <3>1
      <4> QED
        BY <1>5, <4>1
    <3>2. CASE ~(at < Len(order_hint))
      <4>1. at' - 1 = 0
        BY <1>1, <3>2 DEF NextRound
      <4> QED
        BY <2>1, <4>1
    <3> QED
      BY <3>1, <3>2
  <2> QED
    BY <1>1, <1>6, <2>1, <2>2, <2>3, <2>4 DEF InRound
<1> QED
  BY <1>4, <1>7, <1>8 DEF StreamInv

LEMMA StreamStep == ImportTypes /\ StreamInv /\ [ImportNext]_importVars => StreamInv'
<1> SUFFICES ASSUME ImportTypes, StreamInv, [ImportNext]_importVars PROVE StreamInv'
  OBVIOUS
<1>1. ASSUME UNCHANGED ofStream, at = 0 \/ importStep' = importStep PROVE StreamInv'
  <2>1. UNCHANGED <<known, extid2eid, queue, order_hint, at, seen, new_queue, new, applied, taken>>
    BY <1>1 DEF ofStream, ofRound
  <2>2. OnceTaken' /\ LeastKnown'
    BY <2>1 DEF StreamInv, OnceTaken, LeastKnown, Taken, Postponed, ClosedSets
  <2>3. BetweenRounds'
    BY <2>1 DEF StreamInv, BetweenRounds, NoneReady
  <2>4. InRound'
    BY <1>1, <2>1 DEF StreamInv, InRound, NoneReady, QueuedTypes, Etype
  <2> QED
    BY <2>2, <2>3, <2>4 DEF StreamInv
<1>2. ASSUME NEW e \in ExtEntity(taken), Postpone(e) \/ Take(e) PROVE StreamInv'
  BY <1>2, PostponeStep, TakeStep
<1>3. CASE LookAtNext
  BY <1>3, LookStep
<1>4. CASE EndsType
  BY <1>4, EndsTypeStep
<1>5. ASSUME NEW links, NEW old, NEW sym, StreamEnds(links, old, sym) PROVE StreamInv'
  BY <1>1, <1>5 DEF StreamEnds
<1>6. ASSUME NEW l \in deferred, InsertRelation(l) PROVE StreamInv'
  BY <1>1, <1>6 DEF InsertRelation
<1>7. CASE ImportEnds
  <2>1. at = 0
    BY <1>7 DEF ImportEnds, StreamInv, InRound
  <2> QED
    BY <1>1, <1>7, <2>1 DEF ImportEnds
<1>8. CASE UNCHANGED importVars
  BY <1>1, <1>8 DEF importVars, ofRelations
<1> QED
  BY <1>2, <1>3, <1>4, <1>5, <1>6, <1>7, <1>8 DEF ImportNext

--------------------------------------------------------------------------------

LEMMA ReversedTwice ==
  ASSUME NEW l \in Ends
  PROVE  /\ Reversed(l) \in Ends /\ Reversed(Reversed(l)) = l
         /\ (BothKnown(Reversed(l)) <=> BothKnown(l))
  BY DEF Ends, Reversed, BothKnown

LEMMA InBothWays ==
  ASSUME NEW s, s \subseteq Ends, NEW l \in Ends
  PROVE  l \in BothWays(s) <=> l \in s \/ Reversed(l) \in s
  BY ReversedTwice DEF BothWays

LEMMA RelationsStep ==
  ImportTypes /\ StreamInv /\ Relations /\ [ImportNext]_importVars => Relations'
<1> SUFFICES ASSUME ImportTypes, StreamInv, Relations, [ImportNext]_importVars PROVE Relations'
  OBVIOUS
<1>1. ASSUME UNCHANGED ofRelations, extid2eid' = extid2eid \/ importStep = "read" PROVE Relations'
  <2>1. UNCHANGED <<deferred, existing, symmetric, asked, kept, inserted, importStep>>
    BY <1>1 DEF ofRelations
  <2> QED
    BY <1>1, <2>1 DEF Relations, Times, BothKnown
<1>2. ASSUME NEW e \in ExtEntity(taken), Postpone(e) \/ Take(e) PROVE Relations'
  BY <1>1, <1>2 DEF Postpone, Take
<1>3. CASE LookAtNext \/ EndsType
  <2>1. importStep = "read"
    BY <1>3 DEF LookAtNext, EndsType, StreamInv, InRound
  <2> QED
    BY <1>1, <1>3, <2>1 DEF LookAtNext, EndsType
<1>4. ASSUME NEW links \in SUBSET Link, NEW old \in SUBSET Link, NEW sym,
             StreamEnds(links, old, sym)
      PROVE  Relations'
  <2>1. /\ importStep = "read" /\ importStep' = "relations" /\ symmetric' = sym
        /\ deferred' = links /\ asked' = links /\ kept' = existing'
        /\ existing' = (IF sym THEN BothWays(old) ELSE old)
        /\ UNCHANGED inserted
    BY <1>4 DEF StreamEnds
  <2>2. \A l \in Ends : inserted[l] = 0
    BY <2>1 DEF Relations
  <2>3. \A l \in Ends : Times(l)' = 0
    BY <2>1, <2>2, ReversedTwice DEF Times
  <2>4. sym => \A l \in Ends : l \in existing' <=> Reversed(l) \in existing'
    <3>1. old \subseteq Ends
      BY ImporterAssumption DEF Ends
    <3> QED
      BY <2>1, <3>1, InBothWays, ReversedTwice
  <2> QED
    BY <2>1, <2>3, <2>4 DEF Relations
<1>5. ASSUME NEW l \in deferred, InsertRelation(l) PROVE Relations'
  <2>1. /\ importStep = "relations" /\ deferred' = deferred \ {l}
        /\ UNCHANGED <<extid2eid, symmetric, asked, kept, importStep>>
    BY <1>5 DEF InsertRelation, ofStream
  <2>2. l \in Ends /\ Reversed(l) \in Ends
    BY ReversedTwice DEF ImportTypes
  <2>3. /\ deferred \subseteq asked /\ kept \subseteq existing
        /\ symmetric => \A x \in Ends : /\ x \in existing <=> Reversed(x) \in existing
                                        /\ x \in kept <=> Reversed(x) \in kept
        /\ \A x \in Ends : Times(x) = IF x \in existing \ kept THEN 1 ELSE 0
        /\ \A x \in existing \ kept : BothKnown(x)
        /\ \A x \in asked \ deferred : BothKnown(x) => x \in existing
    BY <2>1 DEF Relations
  <2>4. \A x : BothKnown(x)' <=> BothKnown(x)
    BY <2>1 DEF BothKnown
  <2>5. CASE UNCHANGED <<inserted, existing>> /\ (BothKnown(l) => l \in existing)
    <3>1. \A x : Times(x)' = Times(x)
      BY <2>1, <2>5 DEF Times
    <3>2. \A x \in asked' \ deferred' : BothKnown(x)' => x \in existing'
      BY <2>1, <2>3, <2>4, <2>5
    <3> QED
      BY <2>1, <2>3, <2>4, <2>5, <3>1, <3>2 DEF Relations
  <2>6. CASE /\ BothKnown(l) /\ l \notin existing
             /\ inserted' = [inserted EXCEPT ![l] = @ + 1]
             /\ existing' = existing \cup (IF symmetric THEN BothWays({l}) ELSE {l})
    <3>1. \A x \in Ends :
             x \in existing' <=> (x \in existing \/ x = l \/ (symmetric /\ x = Reversed(l)))
      <4>1. CASE symmetric
        <5>1. existing' = existing \cup BothWays({l})
          BY <2>6, <4>1
        <5>2. \A x \in Ends : Reversed(x) = l <=> x = Reversed(l)
          BY <2>2, ReversedTwice
        <5> QED
          BY <2>2, <4>1, <5>1, <5>2, InBothWays
      <4>2. CASE ~symmetric
        BY <2>6, <4>2
      <4> QED
        BY <4>1, <4>2
    <3>2. inserted \in [Ends -> Nat] /\ existing' \subseteq Ends
      BY ImportTypesStep DEF ImportTypes
    <3>3. \A x \in Ends : inserted'[x] = IF x = l THEN inserted[x] + 1 ELSE inserted[x]
      BY <2>2, <2>6, <3>2
    <3>4. \A x \in Ends :
             Times(x)' = IF x = l \/ (symmetric /\ x = Reversed(l)) THEN Times(x) + 1 ELSE Times(x)
      <4> TAKE x \in Ends
      <4>1. Reversed(x) \in Ends /\ Reversed(Reversed(x)) = x
        BY ReversedTwice
      <4>2. CASE symmetric /\ x # Reversed(x)
        <5>1. /\ Times(x)' = inserted'[x] + inserted'[Reversed(x)]
              /\ Times(x) = inserted[x] + inserted[Reversed(x)]
          BY <2>1, <4>2 DEF Times
        <5>2. Reversed(x) = l <=> x = Reversed(l)
          BY <2>2, <4>1, ReversedTwice
        <5>3. inserted[x] \in Nat /\ inserted[Reversed(x)] \in Nat
          BY <3>2, <4>1
        <5> QED
          BY <3>3, <4>1, <4>2, <5>1, <5>2, <5>3
      <4>3. CASE ~(symmetric /\ x # Reversed(x))
        <5>1. Times(x)' = inserted'[x] + 0 /\ Times(x) = inserted[x] + 0
          BY <2>1, <4>3 DEF Times
        <5>2. symmetric /\ x = Reversed(l) => x = l
          BY <2>2, <4>3, ReversedTwice
        <5>3. inserted[x] \in Nat
          BY <3>2
        <5> QED
          BY <3>3, <5>1, <5>2, <5>3
      <4> QED
        BY <4>2, <4>3
    <3>5. l \notin kept /\ (symmetric => Reversed(l) \notin existing /\ Reversed(l) \notin kept)
      BY <2>2, <2>3, <2>6
    <3>6. \A x \in Ends : Times(x)' = IF x \in existing' \ kept' THEN 1 ELSE 0
      BY <2>1, <2>3, <2>6, <3>1, <3>4, <3>5
    <3>7. symmetric' => \A x \in Ends : /\ x \in existing' <=> Reversed(x) \in existing'
                                        /\ x \in kept' <=> Reversed(x) \in kept'
      BY <2>1, <2>2, <2>3, <3>1, ReversedTwice
    <3>8. \A x \in existing' \ kept' : BothKnown(x)'
      BY <2>1, <2>2, <2>3, <2>4, <2>6, <3>1, <3>2, ReversedTwice
    <3>9. \A x \in asked' \ deferred' : BothKnown(x)' => x \in existing'
      <4>1. asked \subseteq Ends
        BY DEF ImportTypes
      <4> QED
        BY <2>1, <2>2, <2>3, <2>4, <3>1, <4>1
    <3>10. kept' \subseteq existing' /\ deferred' \subseteq asked'
      BY <2>1, <2>3, <2>6
    <3>11. importStep' = "relations"
      BY <2>1
    <3>12. importStep' # "read" /\ importStep' # "over"
      BY <3>11
    <3>13. /\ deferred' \subseteq asked' /\ kept' \subseteq existing'
           /\ symmetric' => \A x \in Ends : /\ x \in existing' <=> Reversed(x) \in existing'
                                            /\ x \in kept' <=> Reversed(x) \in kept'
           /\ \A x \in Ends : Times(x)' = IF x \in existing' \ kept' THEN 1 ELSE 0
           /\ \A x \in existing' \ kept' : BothKnown(x)'
           /\ \A x \in asked' \ deferred' : BothKnown(x)' => x \in existing'
      BY <3>6, <3>7, <3>8, <3>9, <3>10
    <3> QED
      BY <3>12, <3>13, Zenon DEF Relations
  <2>7. \/ UNCHANGED <<inserted, existing>> /\ (BothKnown(l) => l \in existing)
        \/ /\ BothKnown(l) /\ l \notin existing
           /\ inserted' = [inserted EXCEPT ![l] = @ + 1]
           /\ existing' = existing \cup (IF symmetric THEN BothWays({l}) ELSE {l})
    <3>1. CASE l[1] \in extid2eid /\ l[2] \in extid2eid /\ l \notin existing
      BY <1>5, <3>1 DEF InsertRelation, BothKnown
    <3>2. CASE ~(l[1] \in extid2eid /\ l[2] \in extid2eid /\ l \notin existing)
      BY <1>5, <3>2 DEF InsertRelation, BothKnown
    <3> QED
      BY <3>1, <3>2
  <2> QED
    BY <2>5, <2>6, <2>7
<1>6. CASE ImportEnds
  <2>1. /\ importStep = "relations" /\ importStep' = "over" /\ deferred = {}
        /\ UNCHANGED <<extid2eid, deferred, existing, symmetric, asked, kept, inserted>>
    BY <1>6 DEF ImportEnds, ofStream
  <2> QED
    BY <2>1 DEF Relations, Times, BothKnown
<1>7. CASE UNCHANGED importVars
  BY <1>1, <1>7 DEF importVars, ofStream
<1> QED
  BY <1>2, <1>3, <1>4, <1>5, <1>6, <1>7 DEF ImportNext

\* ImportInv holds initially and is kept by every step of the import.
THEOREM ImportInvariant == ImportSpec => []ImportInv
<1>1. ASSUME ImportInit PROVE ImportInv
  <2> USE <1>1 DEF ImportInit
  <2>1. Postponed = {}
    BY DEF Postponed
  <2>2. Taken = {}
    BY <2>1 DEF Taken
  <2>3. OnceTaken
    BY <2>2, FS_EmptySet DEF OnceTaken
  <2>4. LeastKnown
    BY DEF LeastKnown
  <2>5. BetweenRounds /\ InRound /\ Relations
    BY DEF BetweenRounds, InRound, Relations, NoneReady, Ends
  <2>6. order_hint \in Seq(KnownTypes)
    BY ImporterAssumption DEF KnownTypes
  <2>7. ImportTypes
    <3>1. known \subseteq ExtId
      BY ImporterAssumption
    <3>2. queue \in [ExtTypes -> Seq(Waiting)] /\ inserted \in [Ends -> Nat]
      BY DEF Ends
    <3>3. at \in 0..Len(order_hint) /\ new_queue \in Seq(Waiting)
      BY <2>6
    <3>4. new \in BOOLEAN
      BY Zenon
    <3> QED
      BY <2>6, <3>1, <3>2, <3>3, <3>4 DEF ImportTypes
  <2> QED
    BY <2>3, <2>4, <2>5, <2>7 DEF ImportInv, StreamInv
<1>2. ImportInv /\ [ImportNext]_importVars => ImportInv'
  BY ImportTypesStep, StreamStep, RelationsStep DEF ImportInv
<1> QED
  BY <1>1, <1>2, PTL DEF ImportSpec

\* importer.py:352-386, 399-433: whatever the order of the stream, the importer is back to
\* it only when all that could be imported was, and nothing else; in the end the relations
\* between known entities are there and none was inserted twice.
THEOREM ImportCompleteHolds == ImportSpec => []ImportComplete
<1>1. ImportInv => ImportComplete
  <2> SUFFICES ASSUME ImportInv PROVE ImportComplete
    OBVIOUS
  <2>1. ASSUME at = 0
        PROVE  /\ Cardinality(applied \cup Postponed) = taken
               /\ \A e \in Postponed : ~is_ready(e, extid2eid)
               /\ \A k \in ClosedSets : known \subseteq k => extid2eid \subseteq k
    <3>1. ASSUME NEW e \in Postponed PROVE ~is_ready(e, extid2eid)
      <4>1. PICK t \in ExtTypes : \E i \in DOMAIN queue[t] : queue[t][i] = e
        BY IsPostponed
      <4>2. queue[t] \in Seq(Waiting)
        BY DEF ImportInv, ImportTypes
      <4>3. NoneReady(t, Len(queue[t]))
        BY <2>1 DEF ImportInv, StreamInv, BetweenRounds
      <4> QED
        BY <4>1, <4>2, <4>3 DEF NoneReady
    <3> QED
      BY <3>1 DEF ImportInv, StreamInv, OnceTaken, LeastKnown, Taken
  <2>2. ASSUME importStep = "over", NEW l \in asked
        PROVE  Times(l) = IF {l[1], l[2]} \subseteq extid2eid /\ l \notin kept THEN 1 ELSE 0
    <3>1. l \in Ends
      BY DEF ImportInv, ImportTypes
    <3>2. /\ Times(l) = IF l \in existing \ kept THEN 1 ELSE 0
          /\ l \in existing \ kept => BothKnown(l)
          /\ BothKnown(l) => l \in existing
      BY <2>2, <3>1 DEF ImportInv, Relations
    <3> QED
      BY <3>2 DEF BothKnown
  <2> QED
    BY <2>1, <2>2 DEF ImportComplete, Times
<1> QED
  BY <1>1, ImportInvariant, PTL

--------------------------------------------------------------------------------
(* The state of an entity.                                                 *)

Operation ==
    [op : {"auto", "initial"}] \cup [op : {"exit"}, state : State]
    \cup [op : {"workflow"}, wf : Workflows]

WorkflowTypes ==
    /\ exists \in BOOLEAN /\ raced \in BOOLEAN
    /\ inState \subseteq State /\ history \in Seq(TrInfo)
    /\ creator \in Cnx \cup {None}
    /\ gone \in [Cnx -> SUBSET State] /\ added \in [Cnx -> SUBSET State]
    /\ mine \in [Cnx -> Seq(TrInfo)]
    /\ changed \in [Cnx -> Workflows \cup {None, Unread}]
    /\ custom \in Workflows \cup {None}
    /\ cache \in [Cnx -> [state : State \cup {None, Unread}, rank : Nat \cup {Unread},
                          custom : Workflows \cup {None, Unread}]]
    /\ phase \in [Cnx -> {"open", "precommit"}]
    /\ ops \in [Cnx -> Seq(Operation)]
    /\ call \in [Cnx -> InProgress \cup {None}]

\* What the transaction of c sees of the history, if it reads it now.
View(c) == history \o mine[c]

Checking(c) == call[c] # None /\ call[c].step = "check"
Writing(c) == call[c] # None /\ call[c].step = "write"

(* A transaction is live if nobody changed what it read: it may commit     *)
(* without a race.  Who counted the TrInfo before another added one is not *)
(* outdated, but the unique index stops it.                                *)
Behind(c) == Checking(c) /\ cache[c].rank # Len(View(c))
Live(c) == c \notin outdated /\ ~Behind(c)

Chained(h) == \A i \in 1 .. Len(h) - 1 : h[i].to = h[i + 1].from
EndsIn(h, states) == h # <<>> => states = {Last(h).to}
OneState(states) == \E s \in State : states = {s}

(* Who read nothing wrote nothing, and the rank that was read is one that  *)
(* the history had.                                                        *)
ReadsOf(c) ==
    /\ cache[c].state = Unread => gone[c] = {} /\ added[c] = {} /\ mine[c] = <<>>
    /\ cache[c].rank # Unread => cache[c].rank \in Len(mine[c]) .. Len(View(c))
    /\ Checking(c) => cache[c].rank \in Nat /\ (call[c].by # None \/ call[c].to # None)

ReadsInv == \A c \in Cnx : ReadsOf(c)

OneWriter ==
    \A c, d \in Cnx : mine[c] # <<>> /\ mine[d] # <<>> => c = d

(* Nobody but its creator does anything with an entity that is not         *)
(* committed.                                                              *)
Untouched(c) ==
    /\ cache[c] = Fresh /\ gone[c] = {} /\ added[c] = {} /\ mine[c] = <<>>
    /\ changed[c] = Unread /\ phase[c] = "open" /\ ops[c] = <<>> /\ call[c] = None

CreatorInv ==
    /\ creator # None => ~exists
    /\ ~exists => inState = {} /\ history = <<>>
    /\ ~exists => \A c \in Cnx : creator # c => Untouched(c)

CommittedInv ==
    /\ Chained(history)
    /\ exists => OneState(inState)
    /\ EndsIn(history, inState)

(* What a live transaction sees: the states it cached, and a history that  *)
(* its TrInfo extend, but for the state that it is about to write.         *)
SeesTruly(c) ==
    /\ Chained(View(c))
    /\ exists => OneState(InDatabase(c))
    /\ cache[c].state # Unread =>
           InDatabase(c) = IF cache[c].state = None THEN {} ELSE {cache[c].state}
    /\ cache[c].rank # Unread =>
           cache[c].rank = Len(View(c)) /\ (Checking(c) \/ cache[c].state # Unread)
    /\ Writing(c) =>
           /\ cache[c].state = call[c].from
           /\ IF call[c].trinfo THEN View(c) # <<>> /\ Last(View(c)).to = call[c].to
                                ELSE View(c) = <<>>
    /\ ~Writing(c) => EndsIn(View(c), InDatabase(c))
    /\ creator = c => \/ \E i \in DOMAIN ops[c] : ops[c][i].op = "initial"
                      \/ InDatabase(c) # {}

LiveInv == \A c \in Cnx : Live(c) => SeesTruly(c)

WorkflowInv ==
    /\ WorkflowTypes
    /\ ~raced => ReadsInv /\ OneWriter /\ CreatorInv /\ CommittedInv /\ LiveInv

--------------------------------------------------------------------------------
(* The types.                                                              *)

CacheRecord == [state : State \cup {None, Unread}, rank : Nat \cup {Unread},
                custom : Workflows \cup {None, Unread}]

\* The history read through the cache has as many TrInfo as the cache says.
LEMMA HistoryRead ==
  ASSUME WorkflowTypes, ReadsInv, NEW c \in Cnx
  PROVE  /\ WorkflowHistory(c) \in Seq(TrInfo)
         /\ Len(WorkflowHistory(c)) = IF cache[c].rank = Unread THEN Len(View(c))
                                      ELSE cache[c].rank
         /\ cache[c].rank = Unread => WorkflowHistory(c) = View(c)
         /\ View(c) \in Seq(TrInfo) /\ Len(View(c)) \in Nat
         /\ Len(View(c)) = Len(history) + Len(mine[c])
         /\ Len(history) \in Nat /\ Len(mine[c]) \in Nat
<1>1. /\ history \in Seq(TrInfo) /\ mine[c] \in Seq(TrInfo)
      /\ Len(history) \in Nat /\ Len(mine[c]) \in Nat
  BY LenProperties DEF WorkflowTypes
<1>2. /\ View(c) \in Seq(TrInfo) /\ Len(View(c)) = Len(history) + Len(mine[c])
  BY <1>1, ConcatProperties DEF View
<1>3. CASE cache[c].rank = Unread
  BY <1>1, <1>2, <1>3 DEF WorkflowHistory, View
<1>4. CASE cache[c].rank # Unread
  <2>1. PICK n : n = cache[c].rank - Len(mine[c])
    OBVIOUS
  <2>2. cache[c].rank \in Len(mine[c]) .. Len(View(c))
    BY <1>4 DEF ReadsInv, ReadsOf
  <2>3. n \in 0 .. Len(history) /\ n + Len(mine[c]) = cache[c].rank
    BY <1>1, <1>2, <2>1, <2>2
  <2>4. WorkflowHistory(c) = SubSeq(history, 1, n) \o mine[c]
    BY <1>4, <2>1 DEF WorkflowHistory
  <2>5. \A i \in 1..n : history[i] \in TrInfo
    BY <1>1, <2>3, ElementOfSeq
  <2>6. SubSeq(history, 1, n) \in Seq(TrInfo) /\ Len(SubSeq(history, 1, n)) = n
    BY <1>1, <2>3, <2>5, SubSeqProperties
  <2>7. /\ SubSeq(history, 1, n) \o mine[c] \in Seq(TrInfo)
        /\ Len(SubSeq(history, 1, n) \o mine[c]) = n + Len(mine[c])
    BY <1>1, <2>6, ConcatProperties
  <2>8. WorkflowHistory(c) \in Seq(TrInfo) /\ Len(WorkflowHistory(c)) = cache[c].rank
    BY <2>3, <2>4, <2>7
  <2> QED
    BY <1>1, <1>2, <1>4, <2>8
<1> QED
  BY <1>3, <1>4

\* A state read is a state.
LEMMA StatesRead ==
  ASSUME WorkflowTypes, NEW c \in Cnx, NEW s \in CurrentStates(c)
  PROVE  s \in State \cup {None} /\ s # Unread
<1>1. InDatabase(c) \subseteq State
  BY DEF InDatabase, WorkflowTypes
<1>2. cache[c] \in CacheRecord
  BY DEF WorkflowTypes, CacheRecord
<1> QED
  BY <1>1, <1>2, UnreadAssumption DEF CurrentStates, CacheRecord

LEMMA WorkflowRead ==
  ASSUME WorkflowTypes, NEW c \in Cnx
  PROVE  /\ CustomWorkflow(c) \in Workflows \cup {None, Unread}
         /\ Default \in Workflows /\ Custom \in Workflows
         /\ \A w \in Workflows : Initial[w] \in State
<1>1. cache[c] \in CacheRecord
  BY DEF WorkflowTypes, CacheRecord
<1> QED
  BY <1>1, SchemaAssumption DEF WorkflowTypes, CacheRecord, CustomWorkflow

\* Where an allowed change leads.
LEMMA LeadsToState ==
  ASSUME WorkflowTypes, ReadsInv, NEW c \in Cnx, Checking(c), NEW s, Allowed(c, call[c], s)
  PROVE  (IF call[c].to = None THEN DestinationOf(c, call[c].by) ELSE call[c].to) \in State
<1>1. /\ call[c].by \in Transition \cup {None} /\ call[c].to \in State \cup {None}
      /\ call[c].by # None \/ call[c].to # None
  BY DEF WorkflowTypes, Checking, InProgress, ReadsInv, ReadsOf
<1>2. CASE call[c].to # None
  BY <1>1, <1>2
<1>3. CASE call[c].to = None
  <2>1. PICK t \in Transition : t = call[c].by
    BY <1>1, <1>3
  <2>2. \/ t \in DOMAIN Sub \/ Destination[t] # None \/ WorkflowHistory(c) # <<>>
    BY <1>1, <1>3, <2>1 DEF Allowed
  <2>3. WorkflowHistory(c) # <<>> => Last(WorkflowHistory(c)).from \in State
    <3>1. WorkflowHistory(c) \in Seq(TrInfo)
      BY HistoryRead
    <3>2. WorkflowHistory(c) # <<>> => Last(WorkflowHistory(c)) \in TrInfo
      BY <3>1, LastProperties
    <3> QED
      BY <3>2 DEF TrInfo
  <2>4. DestinationOf(c, t) \in State
    BY <2>2, <2>3, SchemaAssumption DEF DestinationOf
  <2> QED
    BY <1>3, <2>1, <2>4
<1> QED
  BY <1>2, <1>3
LEMMA BeginTypes ==
  ASSUME WorkflowTypes, ReadsInv, NEW c \in Cnx, NEW by, NEW to, NEW wf, Begin(c, by, to, wf),
         by \in Transition \cup {None}, to \in State \cup {None}, wf \in Workflows \cup {None}
  PROVE  /\ cache' \in [Cnx -> CacheRecord] /\ call' \in [Cnx -> InProgress \cup {None}]
         /\ cache' = [cache EXCEPT ![c] = cache'[c]]
         /\ cache'[c] = [cache[c] EXCEPT !.rank = cache'[c].rank]
         /\ cache'[c].rank = Len(WorkflowHistory(c)) /\ cache'[c].rank \in Nat
         /\ cache'[c].state = cache[c].state
         /\ call' = [call EXCEPT ![c] = call'[c]] /\ Checking(c)'
         /\ call'[c] = [step |-> "check", by |-> by, to |-> to, wf |-> wf]
<1>1. Len(WorkflowHistory(c)) \in Nat
  BY HistoryRead, LenProperties
<1>2. cache \in [Cnx -> CacheRecord] /\ cache[c] \in CacheRecord
  BY DEF WorkflowTypes, CacheRecord
<1>3. cache' = [cache EXCEPT ![c].rank = Len(WorkflowHistory(c))]
  BY DEF Begin
<1>4. /\ cache' \in [Cnx -> CacheRecord] /\ cache' = [cache EXCEPT ![c] = cache'[c]]
      /\ cache'[c] = [cache[c] EXCEPT !.rank = cache'[c].rank]
      /\ cache'[c].rank = Len(WorkflowHistory(c))
      /\ cache'[c].state = cache[c].state
  BY <1>1, <1>2, <1>3 DEF CacheRecord
<1>5. [step |-> "check", by |-> by, to |-> to, wf |-> wf] \in InProgress
  BY DEF InProgress
<1>6. /\ call' \in [Cnx -> InProgress \cup {None}]
      /\ call' = [call EXCEPT ![c] = call'[c]]
      /\ call'[c] = [step |-> "check", by |-> by, to |-> to, wf |-> wf]
  BY <1>5 DEF Begin, WorkflowTypes
<1> QED
  BY <1>1, <1>4, <1>5, <1>6, NoneAssumption DEF Checking

LEMMA QueueTypes ==
  ASSUME NEW q \in Seq(Operation)
  PROVE  /\ q # <<>> => Tail(q) \in Seq(Operation) /\ Head(q) \in Operation
         /\ Append(q, [op |-> "auto"]) \in Seq(Operation)
         /\ Append(q, [op |-> "initial"]) \in Seq(Operation)
         /\ \A s \in State : Append(q, [op |-> "exit", state |-> s]) \in Seq(Operation)
         /\ \A w \in Workflows : Append(q, [op |-> "workflow", wf |-> w]) \in Seq(Operation)
         /\ q # <<>> => Append(Tail(q), [op |-> "auto"]) \in Seq(Operation)
<1>1. /\ [op |-> "auto"] \in Operation /\ [op |-> "initial"] \in Operation
      /\ \A s \in State : [op |-> "exit", state |-> s] \in Operation
      /\ \A w \in Workflows : [op |-> "workflow", wf |-> w] \in Operation
  BY DEF Operation
<1>2. q # <<>> => Tail(q) \in Seq(Operation) /\ Head(q) \in Operation
  BY HeadTailProperties
<1> QED
  BY <1>1, <1>2, AppendProperties

\* What an operation that runs keeps of the queue.
LEMMA RunsQueue ==
  ASSUME WorkflowTypes, NEW c \in Cnx, NEW o, Running(c, o)
  PROVE  /\ Tail(ops[c]) \in Seq(Operation) /\ Head(ops[c]) \in Operation
         /\ Head(ops[c]).op = o /\ call[c] = None /\ phase[c] = "precommit"
         /\ ops[c] \in Seq(Operation) /\ ops[c] # <<>>
         /\ ops[c] # <<>>
BY QueueTypes DEF Running, WorkflowTypes

LEMMA ClearTypes ==
  ASSUME WorkflowTypes, NEW c \in Cnx, Clear(c)
  PROVE  /\ creator' \in Cnx \cup {None} /\ creator' = IF creator = c THEN None ELSE creator
         /\ gone' \in [Cnx -> SUBSET State] /\ added' \in [Cnx -> SUBSET State]
         /\ mine' \in [Cnx -> Seq(TrInfo)]
         /\ changed' \in [Cnx -> Workflows \cup {None, Unread}]
         /\ cache' \in [Cnx -> CacheRecord]
         /\ phase' \in [Cnx -> {"open", "precommit"}]
         /\ ops' \in [Cnx -> Seq(Operation)]
         /\ call' \in [Cnx -> InProgress \cup {None}]
         /\ Untouched(c)'
         /\ \A o \in Cnx \ {c} :
               /\ gone'[o] = gone[o] /\ added'[o] = added[o] /\ mine'[o] = mine[o]
               /\ changed'[o] = changed[o] /\ cache'[o] = cache[o] /\ phase'[o] = phase[o]
               /\ ops'[o] = ops[o] /\ call'[o] = call[o]
<1>1. Fresh \in CacheRecord
  BY DEF Fresh, CacheRecord
<1>2. <<>> \in Seq(TrInfo) /\ <<>> \in Seq(Operation)
  BY EmptySeq
<1>3. cache \in [Cnx -> CacheRecord]
  BY DEF WorkflowTypes, CacheRecord
<1>4. /\ creator' = IF creator = c THEN None ELSE creator
      /\ gone' = [gone EXCEPT ![c] = {}] /\ added' = [added EXCEPT ![c] = {}]
      /\ mine' = [mine EXCEPT ![c] = <<>>] /\ changed' = [changed EXCEPT ![c] = Unread]
      /\ cache' = [cache EXCEPT ![c] = Fresh] /\ phase' = [phase EXCEPT ![c] = "open"]
      /\ ops' = [ops EXCEPT ![c] = <<>>] /\ call' = [call EXCEPT ![c] = None]
  BY DEF Clear
<1>5. /\ gone \in [Cnx -> SUBSET State] /\ added \in [Cnx -> SUBSET State]
      /\ mine \in [Cnx -> Seq(TrInfo)] /\ creator \in Cnx \cup {None}
      /\ changed \in [Cnx -> Workflows \cup {None, Unread}]
      /\ phase \in [Cnx -> {"open", "precommit"}]
      /\ ops \in [Cnx -> Seq(Operation)] /\ call \in [Cnx -> InProgress \cup {None}]
  BY DEF WorkflowTypes
<1>6. /\ creator' \in Cnx \cup {None}
      /\ gone' \in [Cnx -> SUBSET State] /\ added' \in [Cnx -> SUBSET State]
      /\ mine' \in [Cnx -> Seq(TrInfo)]
      /\ changed' \in [Cnx -> Workflows \cup {None, Unread}]
  BY <1>2, <1>4, <1>5
<1>7. /\ cache' \in [Cnx -> CacheRecord]
      /\ phase' \in [Cnx -> {"open", "precommit"}]
      /\ ops' \in [Cnx -> Seq(Operation)]
      /\ call' \in [Cnx -> InProgress \cup {None}]
  BY <1>1, <1>2, <1>3, <1>4, <1>5
<1>8. Untouched(c)'
  BY <1>3, <1>4, <1>5 DEF Untouched, Fresh
<1>9. \A o \in Cnx \ {c} :
         /\ gone'[o] = gone[o] /\ added'[o] = added[o] /\ mine'[o] = mine[o]
         /\ changed'[o] = changed[o] /\ cache'[o] = cache[o] /\ phase'[o] = phase[o]
         /\ ops'[o] = ops[o] /\ call'[o] = call[o]
  BY <1>3, <1>4, <1>5
<1> QED
  BY <1>4, <1>6, <1>7, <1>8, <1>9
--------------------------------------------------------------------------------
(* What an operation that runs may begin.                                  *)

\* An operation reads the state, or begins a change, or is about to write one.
LEMMA RunsBegin ==
  ASSUME WorkflowTypes, ReadsInv, NEW c \in Cnx,
         RunFireAutotransition(c) \/ RunWorkflowChanged(c) \/ RunSubWorkflowExit(c)
  PROVE  \E s \in CurrentStates(c) :
            \/ call' = call /\ (cache' = cache \/ cache' = [cache EXCEPT ![c].state = s])
            \/ \E by \in Transition \cup {None}, to \in State \cup {None},
                  wf \in Workflows \cup {None} :
                  Begin(c, by, to, wf) /\ (by # None \/ to # None)
            \/ \E to \in State :
                  /\ s # None /\ WorkflowHistory(c) = <<>>
                  /\ call' = [call EXCEPT ![c] = [step |-> "write", from |-> s, to |-> to,
                                                  trinfo |-> FALSE]]
                  /\ cache' = [cache EXCEPT ![c].rank = 0, ![c].state = s]
<1>1. CASE RunFireAutotransition(c)
  <2>1. PICK s \in CurrentStates(c) :
           IF AutoTransitions(c, s) = {}
           THEN call' = call /\ cache' = [cache EXCEPT ![c].state = s]
           ELSE \E t \in AutoTransitions(c, s) : Begin(c, t, None, None)
    BY <1>1 DEF RunFireAutotransition
  <2>2. AutoTransitions(c, s) \subseteq Transition
    BY SchemaAssumption DEF AutoTransitions
  <2>3. CASE AutoTransitions(c, s) = {}
    BY <2>1, <2>3
  <2>4. CASE AutoTransitions(c, s) # {}
    <3>1. PICK t \in Transition : t \in AutoTransitions(c, s) /\ Begin(c, t, None, None)
      BY <2>1, <2>2, <2>4
    <3> QED
      BY <3>1, NoneAssumption
  <2> QED
    BY <2>3, <2>4
<1>2. CASE RunWorkflowChanged(c)
  <2>1. PICK wf : wf = Head(ops[c]).wf
    OBVIOUS
  <2>2. wf \in Workflows /\ Initial[wf] \in State
    BY <1>2, <2>1, RunsQueue, WorkflowRead DEF RunWorkflowChanged, Operation
  <2>3. PICK s \in CurrentStates(c) :
           /\ s # None
           /\ IF NothingToDo(c, s, wf)
              THEN UNCHANGED <<cache, call>>
              ELSE IF WorkflowHistory(c) = <<>>
              THEN /\ call' = [call EXCEPT ![c] = [step |-> "write", from |-> s,
                                            to |-> Initial[wf], trinfo |-> FALSE]]
                   /\ cache' = [cache EXCEPT ![c].rank = 0, ![c].state = s]
              ELSE Begin(c, None, Initial[wf], wf)
    BY <1>2, <2>1 DEF RunWorkflowChanged
  <2>4. Initial[wf] # None
    BY <2>2, NoneAssumption
  <2> QED
    BY <2>2, <2>3, <2>4
<1>3. CASE RunSubWorkflowExit(c)
  <2>1. PICK state : state = Head(ops[c]).state
    OBVIOUS
  <2>2. PICK s \in CurrentStates(c) : \E entry \in Entry(WorkflowHistory(c)) :
           /\ entry.by \in DOMAIN Sub
           /\ IF state \in DOMAIN Exits[entry.by]
              THEN Begin(c, entry.by,
                         IF Exits[entry.by][state] = None THEN entry.from
                         ELSE Exits[entry.by][state], None)
              ELSE UNCHANGED <<cache, call>>
    BY <1>3, <2>1 DEF RunSubWorkflowExit
  <2>3. PICK entry \in Entry(WorkflowHistory(c)) :
           /\ entry.by \in DOMAIN Sub
           /\ IF state \in DOMAIN Exits[entry.by]
              THEN Begin(c, entry.by,
                         IF Exits[entry.by][state] = None THEN entry.from
                         ELSE Exits[entry.by][state], None)
              ELSE UNCHANGED <<cache, call>>
    BY <2>2
  <2>4. entry \in TrInfo
    BY HistoryRead, ToSetProperties DEF Entry
  <2>5. CASE state \in DOMAIN Exits[entry.by]
    <3>1. PICK to : to = IF Exits[entry.by][state] = None THEN entry.from
                         ELSE Exits[entry.by][state]
      OBVIOUS
    <3>2. to \in State
      BY <2>3, <2>4, <2>5, <3>1, SchemaAssumption DEF TrInfo
    <3>3. to # None /\ entry.by \in Transition
      BY <2>3, <3>2, NoneAssumption, SchemaAssumption
    <3>4. Begin(c, entry.by, to, None)
      BY <2>3, <2>5, <3>1
    <3> QED
      BY <3>2, <3>3, <3>4
  <2>6. CASE state \notin DOMAIN Exits[entry.by]
    BY <2>3, <2>6
  <2> QED
    BY <2>5, <2>6
<1> QED
  BY <1>1, <1>2, <1>3

LEMMA RunsTypes ==
  ASSUME WorkflowTypes, ReadsInv, NEW c \in Cnx,
         RunFireAutotransition(c) \/ RunWorkflowChanged(c) \/ RunSubWorkflowExit(c)
  PROVE  /\ cache' \in [Cnx -> CacheRecord] /\ call' \in [Cnx -> InProgress \cup {None}]
         /\ \A o \in Cnx \ {c} : cache'[o] = cache[o] /\ call'[o] = call[o]
<1>0. /\ cache \in [Cnx -> CacheRecord] /\ cache[c] \in CacheRecord
      /\ call \in [Cnx -> InProgress \cup {None}]
  BY DEF WorkflowTypes, CacheRecord
<1>1. PICK s \in CurrentStates(c) :
         \/ call' = call /\ (cache' = cache \/ cache' = [cache EXCEPT ![c].state = s])
         \/ \E by \in Transition \cup {None}, to \in State \cup {None},
               wf \in Workflows \cup {None} :
               Begin(c, by, to, wf) /\ (by # None \/ to # None)
         \/ \E to \in State :
               /\ s # None /\ WorkflowHistory(c) = <<>>
               /\ call' = [call EXCEPT ![c] = [step |-> "write", from |-> s, to |-> to,
                                               trinfo |-> FALSE]]
               /\ cache' = [cache EXCEPT ![c].rank = 0, ![c].state = s]
  BY RunsBegin
<1>2. s \in State \cup {None}
  BY StatesRead
<1>3. CASE call' = call /\ (cache' = cache \/ cache' = [cache EXCEPT ![c].state = s])
  BY <1>0, <1>2, <1>3 DEF CacheRecord
<1>4. ASSUME NEW by \in Transition \cup {None}, NEW to \in State \cup {None},
             NEW wf \in Workflows \cup {None}, Begin(c, by, to, wf)
      PROVE  /\ cache' \in [Cnx -> CacheRecord] /\ call' \in [Cnx -> InProgress \cup {None}]
             /\ \A o \in Cnx \ {c} : cache'[o] = cache[o] /\ call'[o] = call[o]
  <2>1. /\ cache' \in [Cnx -> CacheRecord] /\ call' \in [Cnx -> InProgress \cup {None}]
        /\ cache' = [cache EXCEPT ![c] = cache'[c]]
        /\ call' = [call EXCEPT ![c] = call'[c]]
    BY <1>4, BeginTypes
  <2> QED
    BY <1>0, <2>1
<1>5. ASSUME NEW to \in State, s # None,
             call' = [call EXCEPT ![c] = [step |-> "write", from |-> s, to |-> to,
                                          trinfo |-> FALSE]],
             cache' = [cache EXCEPT ![c].rank = 0, ![c].state = s]
      PROVE  /\ cache' \in [Cnx -> CacheRecord] /\ call' \in [Cnx -> InProgress \cup {None}]
             /\ \A o \in Cnx \ {c} : cache'[o] = cache[o] /\ call'[o] = call[o]
  <2>1. [step |-> "write", from |-> s, to |-> to, trinfo |-> FALSE] \in InProgress
    BY <1>2, <1>5 DEF InProgress
  <2>2. call' \in [Cnx -> InProgress \cup {None}] /\ \A o \in Cnx \ {c} : call'[o] = call[o]
    BY <1>0, <1>5, <2>1
  <2>3. cache' \in [Cnx -> CacheRecord] /\ \A o \in Cnx \ {c} : cache'[o] = cache[o]
    BY <1>0, <1>2, <1>5 DEF CacheRecord
  <2> QED
    BY <2>2, <2>3
<1> QED
  BY <1>1, <1>3, <1>4, <1>5
--------------------------------------------------------------------------------
(* One connection acts, another sees the same as before, unless c commits. *)

OthersSame(c) ==
    \A o \in Cnx \ {c} :
        /\ gone'[o] = gone[o] /\ added'[o] = added[o] /\ mine'[o] = mine[o]
        /\ changed'[o] = changed[o] /\ cache'[o] = cache[o] /\ phase'[o] = phase[o]
        /\ ops'[o] = ops[o] /\ call'[o] = call[o]

LEMMA TypesStep ==
  ASSUME WorkflowTypes, ReadsInv, NEW c \in Cnx,
         \/ Create(c) \/ Look(c)
         \/ \E s \in State : SetInitialState(c, s) \/ ChangeState(c, s)
         \/ \E t \in Transition : FireTransition(c, t)
         \/ \E w \in {Custom, None} : SetCustomWorkflow(c, w)
         \/ AddTrInfo(c) \/ Write(c)
         \/ Precommit(c)
         \/ RunSetInitialState(c) \/ RunFireAutotransition(c)
         \/ RunWorkflowChanged(c) \/ RunSubWorkflowExit(c)
         \/ Rollback(c)
  PROVE  WorkflowTypes' /\ OthersSame(c)
<1> USE DEF database, writes, control, races
<1>0. /\ cache \in [Cnx -> CacheRecord] /\ cache[c] \in CacheRecord
      /\ exists \in BOOLEAN /\ raced \in BOOLEAN
      /\ inState \subseteq State /\ history \in Seq(TrInfo)
      /\ creator \in Cnx \cup {None}
      /\ gone \in [Cnx -> SUBSET State] /\ added \in [Cnx -> SUBSET State]
      /\ mine \in [Cnx -> Seq(TrInfo)] /\ mine[c] \in Seq(TrInfo)
      /\ changed \in [Cnx -> Workflows \cup {None, Unread}]
      /\ custom \in Workflows \cup {None}
      /\ phase \in [Cnx -> {"open", "precommit"}]
      /\ ops \in [Cnx -> Seq(Operation)] /\ ops[c] \in Seq(Operation)
      /\ call \in [Cnx -> InProgress \cup {None}]
  BY DEF WorkflowTypes, CacheRecord
<1> DEFINE Rest == /\ exists' = exists /\ raced' = raced /\ inState' = inState
                   /\ history' = history /\ custom' = custom
<1>1. CASE Create(c)
  <2>1. /\ creator' = c /\ ops' = [ops EXCEPT ![c] = Append(@, [op |-> "initial"])] /\ Rest
        /\ UNCHANGED <<gone, added, mine, changed, cache, phase, call>>
    BY <1>1 DEF Create
  <2>2. ops' \in [Cnx -> Seq(Operation)] /\ \A o \in Cnx \ {c} : ops'[o] = ops[o]
    BY <2>1, <1>0, QueueTypes
  <2> QED
    BY <2>1, <2>2, <1>0 DEF WorkflowTypes, OthersSame, CacheRecord
<1>2. CASE Look(c)
  <2>1. PICK s \in CurrentStates(c) : cache' = [cache EXCEPT ![c].state = s]
    BY <1>2 DEF Look
  <2>2. cache' \in [Cnx -> CacheRecord] /\ \A o \in Cnx \ {c} : cache'[o] = cache[o]
    BY <1>0, <2>1, StatesRead DEF CacheRecord
  <2>3. Rest /\ UNCHANGED <<creator, gone, added, mine, changed, phase, ops, call>>
    BY <1>2 DEF Look
  <2> QED
    BY <2>2, <2>3, <1>0 DEF WorkflowTypes, OthersSame, CacheRecord
<1>3. CASE \E s \in State : SetInitialState(c, s)
  <2>1. PICK s \in State : SetInitialState(c, s)
    BY <1>3
  <2>2. /\ added' = [added EXCEPT ![c] = {s}]
        /\ cache' = [cache EXCEPT ![c].state = s, ![c].custom = CustomWorkflow(c)]
        /\ Rest /\ UNCHANGED <<creator, gone, mine, changed, phase, ops, call>>
    BY <2>1 DEF SetInitialState
  <2>3. cache' \in [Cnx -> CacheRecord] /\ \A o \in Cnx \ {c} : cache'[o] = cache[o]
    BY <1>0, <2>2, WorkflowRead DEF CacheRecord
  <2>4. added' \in [Cnx -> SUBSET State] /\ \A o \in Cnx \ {c} : added'[o] = added[o]
    BY <1>0, <2>2
  <2> QED
    BY <2>2, <2>3, <2>4, <1>0 DEF WorkflowTypes, OthersSame, CacheRecord
<1>4. CASE \/ \E s \in State : ChangeState(c, s)
           \/ \E t \in Transition : FireTransition(c, t)
  <2>1. PICK by \in Transition \cup {None}, to \in State \cup {None} : Begin(c, by, to, None)
    BY <1>4 DEF ChangeState, FireTransition
  <2>2. Rest /\ UNCHANGED <<creator, gone, added, mine, changed, phase, ops>>
    BY <1>4 DEF ChangeState, FireTransition
  <2>3. /\ cache' \in [Cnx -> CacheRecord] /\ call' \in [Cnx -> InProgress \cup {None}]
        /\ cache' = [cache EXCEPT ![c] = cache'[c]] /\ call' = [call EXCEPT ![c] = call'[c]]
    BY <2>1, BeginTypes
  <2>4. \A o \in Cnx \ {c} : cache'[o] = cache[o] /\ call'[o] = call[o]
    BY <1>0, <2>3
  <2> QED
    BY <2>2, <2>3, <2>4, <1>0 DEF WorkflowTypes, OthersSame, CacheRecord
<1>5. CASE \E w \in {Custom, None} : SetCustomWorkflow(c, w)
  <2>1. PICK w \in {Custom, None} : SetCustomWorkflow(c, w)
    BY <1>5
  <2>2. PICK v : v = IF w = None THEN Default ELSE w
    OBVIOUS
  <2>3. v \in Workflows /\ w \in Workflows \cup {None}
    BY <2>2, WorkflowRead
  <2>4. /\ changed' = [changed EXCEPT ![c] = w]
        /\ cache' = [cache EXCEPT ![c].custom = w]
        /\ ops' = [ops EXCEPT ![c] = Append(@, [op |-> "workflow", wf |-> v])]
        /\ Rest /\ UNCHANGED <<creator, gone, added, mine, phase, call>>
    BY <2>1, <2>2 DEF SetCustomWorkflow
  <2>5. ops' \in [Cnx -> Seq(Operation)] /\ \A o \in Cnx \ {c} : ops'[o] = ops[o]
    BY <2>3, <2>4, <1>0, QueueTypes
  <2>6. /\ cache' \in [Cnx -> CacheRecord] /\ \A o \in Cnx \ {c} : cache'[o] = cache[o]
        /\ changed' \in [Cnx -> Workflows \cup {None, Unread}]
        /\ \A o \in Cnx \ {c} : changed'[o] = changed[o]
    BY <1>0, <2>3, <2>4 DEF CacheRecord
  <2> QED
    BY <2>4, <2>5, <2>6, <1>0 DEF WorkflowTypes, OthersSame, CacheRecord
<1>6. CASE AddTrInfo(c)
  <2>1. Checking(c)
    BY <1>6 DEF AddTrInfo, Checking
  <2>2. PICK s \in CurrentStates(c),
             to \in {IF call[c].to = None THEN DestinationOf(c, call[c].by)
                     ELSE call[c].to} :
           /\ Allowed(c, call[c], s)
           /\ mine' = [mine EXCEPT ![c] =
                           Append(@, [by |-> call[c].by, from |-> s, to |-> to])]
           /\ cache' = [cache EXCEPT ![c].rank = @ + 1, ![c].state = s]
           /\ call' = [call EXCEPT ![c] = [step |-> "write", from |-> s, to |-> to,
                                           trinfo |-> TRUE]]
    BY <1>6 DEF AddTrInfo
  <2>3. s \in State /\ to \in State
    BY <2>1, <2>2, StatesRead, LeadsToState DEF Allowed
  <2>4. call[c].by \in Transition \cup {None} /\ cache[c].rank \in Nat
    BY <1>0, <2>1 DEF Checking, InProgress, ReadsInv, ReadsOf
  <2>5. [by |-> call[c].by, from |-> s, to |-> to] \in TrInfo
    BY <2>3, <2>4 DEF TrInfo
  <2>6. Append(mine[c], [by |-> call[c].by, from |-> s, to |-> to]) \in Seq(TrInfo)
    BY <1>0, <2>5, AppendProperties
  <2>7. mine' \in [Cnx -> Seq(TrInfo)] /\ \A o \in Cnx \ {c} : mine'[o] = mine[o]
    BY <1>0, <2>2, <2>6
  <2>8. cache' \in [Cnx -> CacheRecord] /\ \A o \in Cnx \ {c} : cache'[o] = cache[o]
    <3>1. PICK n : n = cache[c].rank + 1
      OBVIOUS
    <3>2. cache' = [cache EXCEPT ![c] = [cache[c] EXCEPT !.rank = n, !.state = s]]
      BY <1>0, <2>2, <3>1 DEF CacheRecord
    <3>3. n \in Nat
      BY <2>4, <3>1
    <3>4. [cache[c] EXCEPT !.rank = n, !.state = s] \in CacheRecord
      BY <1>0, <2>3, <3>3 DEF CacheRecord
    <3> QED
      BY <1>0, <3>2, <3>4
  <2>9. [step |-> "write", from |-> s, to |-> to, trinfo |-> TRUE] \in InProgress
    BY <2>3 DEF InProgress
  <2>10. call' \in [Cnx -> InProgress \cup {None}] /\ \A o \in Cnx \ {c} : call'[o] = call[o]
    BY <1>0, <2>2, <2>9
  <2>11. /\ ops' = [ops EXCEPT ![c] = Append(@, [op |-> "auto"])] /\ Rest
         /\ UNCHANGED <<creator, gone, added, changed, phase>>
    BY <1>6 DEF AddTrInfo
  <2>12. ops' \in [Cnx -> Seq(Operation)] /\ \A o \in Cnx \ {c} : ops'[o] = ops[o]
    BY <2>11, <1>0, QueueTypes
  <2> QED
    BY <2>7, <2>8, <2>10, <2>11, <2>12, <1>0 DEF WorkflowTypes, OthersSame, CacheRecord
<1>7. CASE Write(c)
  <2>1. PICK i, old : i = call[c] /\ old = {i.from} \cup (InDatabase(c) \ {i.to})
    OBVIOUS
  <2>2. i \in InProgress /\ i.step = "write" /\ i.from \in State /\ i.to \in State
    BY <1>0, <1>7, <2>1 DEF Write, InProgress
  <2>3. /\ gone' = [gone EXCEPT ![c] = @ \cup (old \cap inState)]
        /\ added' = [added EXCEPT ![c] = (@ \ old) \cup {i.to}]
        /\ ops' = [ops EXCEPT ![c] =
               IF ~i.trinfo THEN Append(@, [op |-> "auto"])
               ELSE IF MainWorkflow(c) # StateOf[i.to]
               THEN Append(@, [op |-> "exit", state |-> i.to]) ELSE @]
        /\ cache' = [cache EXCEPT ![c].state = i.to,
                         ![c].custom = IF i.trinfo THEN CustomWorkflow(c) ELSE @]
        /\ call' = [call EXCEPT ![c] = None]
        /\ Rest /\ UNCHANGED <<creator, mine, changed, phase>>
    BY <1>7, <2>1 DEF Write
  <2>4. /\ gone' \in [Cnx -> SUBSET State] /\ added' \in [Cnx -> SUBSET State]
        /\ call' \in [Cnx -> InProgress \cup {None}]
        /\ \A o \in Cnx \ {c} : gone'[o] = gone[o] /\ added'[o] = added[o] /\ call'[o] = call[o]
    BY <1>0, <2>2, <2>3
  <2>5. ops' \in [Cnx -> Seq(Operation)] /\ \A o \in Cnx \ {c} : ops'[o] = ops[o]
    BY <1>0, <2>2, <2>3, QueueTypes
  <2>6. cache' \in [Cnx -> CacheRecord] /\ \A o \in Cnx \ {c} : cache'[o] = cache[o]
    BY <1>0, <2>2, <2>3, WorkflowRead DEF CacheRecord
  <2> QED
    BY <2>3, <2>4, <2>5, <2>6, <1>0 DEF WorkflowTypes, OthersSame, CacheRecord
<1>8. CASE Precommit(c)
  <2>1. /\ phase' = [phase EXCEPT ![c] = "precommit"] /\ Rest
        /\ UNCHANGED <<creator, gone, added, mine, changed, cache, ops, call>>
    BY <1>8 DEF Precommit
  <2>2. phase' \in [Cnx -> {"open", "precommit"}] /\ \A o \in Cnx \ {c} : phase'[o] = phase[o]
    BY <1>0, <2>1
  <2> QED
    BY <2>1, <2>2, <1>0 DEF WorkflowTypes, OthersSame, CacheRecord
<1>9. CASE RunSetInitialState(c)
  <2>0. ops[c] # <<>>
    BY <1>9, RunsQueue DEF RunSetInitialState
  <2>1. Rest /\ UNCHANGED <<creator, gone, mine, changed, phase, call>>
    BY <1>9 DEF RunSetInitialState
  <2>2. CASE CurrentStates(c) = {None}
    <3>1. PICK s : s = InitialOf(c)
      OBVIOUS
    <3>2. /\ added' = [added EXCEPT ![c] = {s}]
          /\ ops' = [ops EXCEPT ![c] = Append(Tail(@), [op |-> "auto"])]
          /\ cache' = [cache EXCEPT ![c].state = s, ![c].custom = CustomWorkflow(c)]
      BY <1>9, <2>2, <3>1 DEF RunSetInitialState
    <3>3. s \in State
      <4>1. MainWorkflow(c) \in Workflows
        BY <1>0, <1>9, WorkflowRead DEF MainWorkflow, CustomWorkflow, CacheRecord
      <4> QED
        BY <3>1, <4>1, WorkflowRead DEF InitialOf
    <3>4. ops' \in [Cnx -> Seq(Operation)] /\ \A o \in Cnx \ {c} : ops'[o] = ops[o]
      BY <1>0, <2>0, <3>2, QueueTypes
    <3>5. cache' \in [Cnx -> CacheRecord] /\ \A o \in Cnx \ {c} : cache'[o] = cache[o]
      BY <1>0, <3>2, <3>3, WorkflowRead DEF CacheRecord
    <3>6. added' \in [Cnx -> SUBSET State] /\ \A o \in Cnx \ {c} : added'[o] = added[o]
      BY <1>0, <3>2, <3>3
    <3> QED
      BY <2>1, <3>4, <3>5, <3>6, <1>0 DEF WorkflowTypes, OthersSame, CacheRecord
  <2>3. CASE CurrentStates(c) # {None}
    <3>1. ops' = [ops EXCEPT ![c] = Tail(@)] /\ UNCHANGED <<added, cache>>
      BY <1>9, <2>3 DEF RunSetInitialState
    <3>2. ops' \in [Cnx -> Seq(Operation)] /\ \A o \in Cnx \ {c} : ops'[o] = ops[o]
      BY <1>0, <2>0, <3>1, QueueTypes
    <3> QED
      BY <2>1, <3>1, <3>2, <1>0 DEF WorkflowTypes, OthersSame, CacheRecord
  <2> QED
    BY <2>2, <2>3
<1>10. CASE RunFireAutotransition(c) \/ RunWorkflowChanged(c) \/ RunSubWorkflowExit(c)
  <2>1. /\ ops[c] # <<>> /\ ops' = [ops EXCEPT ![c] = Tail(@)] /\ Rest
        /\ UNCHANGED <<creator, gone, added, mine, changed, phase>>
    BY <1>10, RunsQueue DEF RunFireAutotransition, RunWorkflowChanged, RunSubWorkflowExit
  <2>2. ops' \in [Cnx -> Seq(Operation)] /\ \A o \in Cnx \ {c} : ops'[o] = ops[o]
    BY <1>0, <2>1, QueueTypes
  <2>3. /\ cache' \in [Cnx -> CacheRecord] /\ call' \in [Cnx -> InProgress \cup {None}]
        /\ \A o \in Cnx \ {c} : cache'[o] = cache[o] /\ call'[o] = call[o]
    BY <1>10, RunsTypes
  <2> QED
    BY <2>1, <2>2, <2>3, <1>0 DEF WorkflowTypes, OthersSame, CacheRecord
<1>11. CASE Rollback(c)
  <2>1. Clear(c) /\ Rest
    BY <1>11 DEF Rollback
  <2> QED
    BY <2>1, ClearTypes, <1>0 DEF WorkflowTypes, OthersSame, CacheRecord
<1> QED
  BY <1>1, <1>2, <1>3, <1>4, <1>5, <1>6, <1>7, <1>8, <1>9, <1>10, <1>11
\* The invariant from what the connection that acts keeps.
LEMMA LocalStep ==
  ASSUME WorkflowInv, ~raced, NEW c \in Cnx, WorkflowTypes', OthersSame(c),
         exists' = exists, inState' = inState, history' = history, raced' = raced,
         outdated' = outdated \/ outdated' = outdated \ {c},
         \/ creator' = creator
         \/ creator' = c /\ creator = None /\ ~exists
         \/ creator = c /\ creator' = None,
         mine'[c] = mine[c] \/ mine'[c] = <<>> \/ \A o \in Cnx \ {c} : mine[o] = <<>>,
         exists \/ creator' = c \/ Untouched(c)',
         ReadsOf(c)', Live(c)' => SeesTruly(c)'
  PROVE  WorkflowInv'
<1>1. /\ ReadsInv /\ OneWriter /\ CreatorInv /\ CommittedInv /\ LiveInv /\ WorkflowTypes
  BY DEF WorkflowInv
<1>2. ASSUME NEW o \in Cnx \ {c}
      PROVE  /\ View(o)' = View(o) /\ InDatabase(o)' = InDatabase(o)
             /\ Checking(o)' = Checking(o) /\ Writing(o)' = Writing(o)
             /\ cache'[o] = cache[o] /\ call'[o] = call[o] /\ ops'[o] = ops[o]
             /\ gone'[o] = gone[o] /\ added'[o] = added[o] /\ mine'[o] = mine[o]
             /\ Untouched(o) => Untouched(o)'
             /\ o \in outdated' <=> o \in outdated
             /\ creator' = o => creator = o
             /\ o \in Cnx /\ o # c
  BY NoneAssumption DEF OthersSame, View, InDatabase, Checking, Writing, Untouched
<1>3. ReadsInv'
  <2>1. ASSUME NEW o \in Cnx \ {c} PROVE ReadsOf(o)'
    <3>1. ReadsOf(o)
      BY <1>1 DEF ReadsInv
    <3> QED
      BY <3>1, <1>2 DEF ReadsOf
  <2> QED
    BY <2>1 DEF ReadsInv
<1>4. OneWriter'
  <2> SUFFICES ASSUME NEW a \in Cnx, NEW b \in Cnx, mine'[a] # <<>>, mine'[b] # <<>>
               PROVE  a = b
    BY DEF OneWriter
  <2>1. CASE a # c /\ b # c
    BY <1>1, <1>2, <2>1 DEF OneWriter
  <2>2. CASE a = c /\ b # c
    <3>1. mine[b] # <<>> /\ b \in Cnx \ {c}
      BY <1>2, <2>2
    <3>2. mine[c] # <<>>
      BY <2>2, <3>1
    <3> QED
      BY <1>1, <2>2, <3>1, <3>2 DEF OneWriter
  <2>3. CASE b = c /\ a # c
    <3>1. mine[a] # <<>> /\ a \in Cnx \ {c}
      BY <1>2, <2>3
    <3>2. mine[c] # <<>>
      BY <2>3, <3>1
    <3> QED
      BY <1>1, <2>3, <3>1, <3>2 DEF OneWriter
  <2> QED
    BY <2>1, <2>2, <2>3
<1>5. CreatorInv'
  <2>1. creator' # None => ~exists'
    BY <1>1 DEF CreatorInv
  <2>2. ~exists' => inState' = {} /\ history' = <<>>
    BY <1>1 DEF CreatorInv
  <2>3. ASSUME ~exists, NEW o \in Cnx, creator' # o PROVE Untouched(o)'
    <3>1. CASE o = c
      BY <2>3, <3>1
    <3>2. CASE o # c
      <4>1. creator # o
        BY <2>3, <3>2, NoneAssumption
      <4> QED
        BY <1>1, <1>2, <2>3, <3>2, <4>1 DEF CreatorInv
    <3> QED
      BY <3>1, <3>2
  <2> QED
    BY <2>1, <2>2, <2>3 DEF CreatorInv
<1>6. CommittedInv'
  BY <1>1 DEF CommittedInv, Chained, EndsIn, OneState
<1>7. LiveInv'
  <2>1. ASSUME NEW o \in Cnx \ {c}, Live(o)' PROVE SeesTruly(o)'
    <3>1. Live(o)
      BY <1>2, <2>1 DEF Live, Behind
    <3>2. SeesTruly(o)
      BY <1>1, <3>1 DEF LiveInv
    <3> QED
      BY <1>2, <3>2 DEF SeesTruly, Chained, EndsIn, OneState
  <2> QED
    BY <2>1 DEF LiveInv
<1> QED
  BY <1>3, <1>4, <1>5, <1>6, <1>7 DEF WorkflowInv
--------------------------------------------------------------------------------
(* The actions, one after the other.                                       *)

\* A live transaction that reads the state reads the one state there is, if any.
LEMMA SeenState ==
  ASSUME WorkflowInv, ~raced, NEW c \in Cnx, Live(c), NEW s \in CurrentStates(c)
  PROVE  InDatabase(c) = IF s = None THEN {} ELSE {s}
<1>1. SeesTruly(c) /\ ReadsOf(c) /\ CreatorInv
  BY DEF WorkflowInv, LiveInv, ReadsInv
<1>2. CASE cache[c].state # Unread
  BY <1>1, <1>2 DEF SeesTruly, CurrentStates
<1>3. CASE cache[c].state = Unread /\ InDatabase(c) = {}
  BY <1>3 DEF CurrentStates
<1>4. CASE cache[c].state = Unread /\ InDatabase(c) # {}
  <2>1. s \in InDatabase(c)
    BY <1>4 DEF CurrentStates
  <2>2. InDatabase(c) = inState
    BY <1>1, <1>4 DEF ReadsOf, InDatabase
  <2>3. exists
    BY <1>1, <1>4, <2>2 DEF CreatorInv
  <2>4. PICK t \in State : InDatabase(c) = {t}
    BY <1>1, <2>3 DEF SeesTruly, OneState
  <2> QED
    BY <2>1, <2>4, NoneAssumption
<1> QED
  BY <1>2, <1>3, <1>4

\* Who does something with the entity created it, or it is committed.
LEMMA Acting ==
  ASSUME WorkflowInv, ~raced, NEW c \in Cnx, ~Untouched(c)
  PROVE  exists \/ creator = c
BY DEF WorkflowInv, CreatorInv

LEMMA CreateStep ==
  ASSUME WorkflowInv, ~raced, NEW c \in Cnx, Create(c)
  PROVE  WorkflowInv'
<1>1. WorkflowTypes /\ ReadsInv /\ LiveInv /\ CreatorInv /\ ReadsOf(c) /\ ops[c] \in Seq(Operation)
  BY DEF WorkflowInv, ReadsInv, WorkflowTypes
<1>2. WorkflowTypes' /\ OthersSame(c)
  BY <1>1, TypesStep
<1>3. /\ ~exists /\ creator = None /\ creator' = c
      /\ ops' = [ops EXCEPT ![c] = Append(@, [op |-> "initial"])]
      /\ UNCHANGED <<exists, inState, history, raced, outdated>>
      /\ UNCHANGED <<gone, added, mine, cache, call>>
  BY DEF Create, database, races
<1>4. /\ View(c)' = View(c) /\ InDatabase(c)' = InDatabase(c)
      /\ Checking(c)' = Checking(c) /\ Writing(c)' = Writing(c)
  BY <1>3 DEF View, InDatabase, Checking, Writing
<1>5. ReadsOf(c)'
  BY <1>1, <1>3, <1>4 DEF ReadsOf
<1>6. ASSUME Live(c)' PROVE SeesTruly(c)'
  <2>1. Live(c)
    BY <1>3, <1>4, <1>6 DEF Live, Behind
  <2>2. SeesTruly(c)
    BY <1>1, <2>1 DEF LiveInv
  <2>3. ops'[c] = Append(ops[c], [op |-> "initial"])
    BY <1>1, <1>3 DEF WorkflowTypes
  <2>4. Len(ops[c]) + 1 \in DOMAIN ops'[c] /\ ops'[c][Len(ops[c]) + 1].op = "initial"
    BY <1>1, <2>3, LenProperties
  <2> QED
    BY <1>3, <1>4, <2>2, <2>4 DEF SeesTruly
<1> QED
  BY <1>2, <1>3, <1>5, <1>6, LocalStep

LEMMA LookUpStep ==
  ASSUME WorkflowInv, ~raced, NEW c \in Cnx, Look(c)
  PROVE  WorkflowInv'
<1>1. WorkflowTypes /\ ReadsInv /\ LiveInv /\ ReadsOf(c)
      /\ cache \in [Cnx -> CacheRecord]
  BY DEF WorkflowInv, ReadsInv, WorkflowTypes, CacheRecord
<1>2. WorkflowTypes' /\ OthersSame(c)
  BY <1>1, TypesStep
<1>3. PICK s \in CurrentStates(c) : cache' = [cache EXCEPT ![c].state = s]
  BY DEF Look
<1>4. /\ exists /\ cache[c] = Fresh /\ call[c] = None
      /\ UNCHANGED <<exists, inState, history, raced, outdated>>
      /\ UNCHANGED <<creator, gone, added, mine, ops, call>>
  BY DEF Look, Asking, database, writes, control, races
<1>5. /\ View(c)' = View(c) /\ InDatabase(c)' = InDatabase(c)
      /\ ~Checking(c)' /\ ~Writing(c)' /\ ~Checking(c) /\ ~Writing(c)
  BY <1>4 DEF View, InDatabase, Checking, Writing
<1>6. cache'[c].state = s /\ cache'[c].rank = Unread /\ s # Unread
  BY <1>1, <1>3, <1>4, StatesRead DEF CacheRecord, Fresh
<1>7. ReadsOf(c)'
  BY <1>5, <1>6 DEF ReadsOf
<1>8. ASSUME Live(c)' PROVE SeesTruly(c)'
  <2>1. Live(c)
    BY <1>4, <1>5, <1>8 DEF Live, Behind
  <2>2. SeesTruly(c) /\ InDatabase(c) = IF s = None THEN {} ELSE {s}
    BY <1>1, <2>1, SeenState DEF LiveInv
  <2> QED
    BY <1>4, <1>5, <1>6, <2>2 DEF SeesTruly
<1> QED
  BY <1>2, <1>4, <1>7, <1>8, LocalStep

LEMMA PrecommitStep ==
  ASSUME WorkflowInv, ~raced, NEW c \in Cnx, Precommit(c)
  PROVE  WorkflowInv'
<1>1. WorkflowTypes /\ ReadsInv /\ LiveInv /\ ReadsOf(c)
  BY DEF WorkflowInv, ReadsInv
<1>2. WorkflowTypes' /\ OthersSame(c)
  BY <1>1, TypesStep
<1>3. /\ ops[c] # <<>>
      /\ UNCHANGED <<exists, inState, history, raced, outdated>>
      /\ UNCHANGED <<creator, gone, added, mine, cache, ops, call>>
  BY DEF Precommit, database, writes, races
<1>4. /\ View(c)' = View(c) /\ InDatabase(c)' = InDatabase(c)
      /\ Checking(c)' = Checking(c) /\ Writing(c)' = Writing(c)
  BY <1>3 DEF View, InDatabase, Checking, Writing
<1>5. exists \/ creator' = c
  BY <1>3, Acting DEF Untouched
<1>6. ReadsOf(c)'
  BY <1>1, <1>3, <1>4 DEF ReadsOf
<1>7. ASSUME Live(c)' PROVE SeesTruly(c)'
  <2>1. SeesTruly(c)
    BY <1>1, <1>3, <1>4, <1>7 DEF Live, Behind, LiveInv
  <2> QED
    BY <1>3, <1>4, <2>1 DEF SeesTruly
<1> QED
  BY <1>2, <1>3, <1>5, <1>6, <1>7, LocalStep

LEMMA RollbackStep ==
  ASSUME WorkflowInv, ~raced, NEW c \in Cnx, Rollback(c)
  PROVE  WorkflowInv'
<1>1. WorkflowTypes /\ ReadsInv /\ LiveInv /\ CommittedInv /\ CreatorInv
      /\ history \in Seq(TrInfo)
  BY DEF WorkflowInv, WorkflowTypes
<1>2. WorkflowTypes' /\ OthersSame(c)
  BY <1>1, TypesStep
<1>3. /\ UNCHANGED <<exists, inState, history, raced>> /\ outdated' = outdated \ {c}
      /\ Clear(c)
  BY DEF Rollback, database
<1>4. Untouched(c)' /\ creator' = IF creator = c THEN None ELSE creator
  BY <1>1, <1>3, ClearTypes
<1>5. /\ View(c)' = history /\ InDatabase(c)' = inState
      /\ ~Checking(c)' /\ ~Writing(c)'
      /\ cache'[c].state = Unread /\ cache'[c].rank = Unread
  BY <1>1, <1>3, <1>4, ConcatEmptySeq DEF View, InDatabase, Checking, Writing, Untouched, Fresh
<1>6. ReadsOf(c)'
  BY <1>4, <1>5 DEF ReadsOf, Untouched
<1>7. SeesTruly(c)'
  <2>1. creator' # c
    BY <1>4, NoneAssumption
  <2> QED
    BY <1>1, <1>3, <1>5, <2>1 DEF SeesTruly, CommittedInv, Chained, EndsIn, OneState
<1>8. mine'[c] = <<>>
  BY <1>4 DEF Untouched
<1>9. creator' = creator \/ (creator = c /\ creator' = None)
  BY <1>4
<1> QED
  BY <1>2, <1>3, <1>4, <1>6, <1>7, <1>8, <1>9, LocalStep
\* A change of state begins with the count of those there are.
LEMMA BeginStep ==
  ASSUME WorkflowInv, ~raced, NEW c \in Cnx,
         NEW by \in Transition \cup {None}, NEW to \in State \cup {None},
         NEW wf \in Workflows \cup {None},
         Begin(c, by, to, wf), by # None \/ to # None, call[c] = None,
         exists \/ creator = c,
         UNCHANGED <<exists, inState, history, raced, outdated>>,
         UNCHANGED <<creator, gone, added, mine>>, WorkflowTypes', OthersSame(c),
         (\E i \in DOMAIN ops[c] : ops[c][i].op = "initial")
         => \E i \in DOMAIN ops'[c] : ops'[c][i].op = "initial"
  PROVE  WorkflowInv'
<1>1. WorkflowTypes /\ ReadsInv /\ LiveInv /\ ReadsOf(c)
  BY DEF WorkflowInv, ReadsInv
<1>2. /\ cache'[c].rank = Len(WorkflowHistory(c)) /\ cache'[c].rank \in Nat
      /\ cache'[c].state = cache[c].state /\ Checking(c)'
      /\ call'[c] = [step |-> "check", by |-> by, to |-> to, wf |-> wf]
  <2>1. /\ cache' \in [Cnx -> CacheRecord] /\ call' \in [Cnx -> InProgress \cup {None}]
        /\ cache' = [cache EXCEPT ![c] = cache'[c]]
        /\ cache'[c] = [cache[c] EXCEPT !.rank = cache'[c].rank]
        /\ cache'[c].rank = Len(WorkflowHistory(c)) /\ cache'[c].rank \in Nat
        /\ cache'[c].state = cache[c].state
        /\ call' = [call EXCEPT ![c] = call'[c]] /\ Checking(c)'
        /\ call'[c] = [step |-> "check", by |-> by, to |-> to, wf |-> wf]
    BY <1>1, BeginTypes
  <2> QED
    BY <2>1
<1>3. /\ View(c)' = View(c) /\ InDatabase(c)' = InDatabase(c)
      /\ ~Writing(c) /\ ~Checking(c)
  BY DEF View, InDatabase, Writing, Checking
<1>4. ~Writing(c)'
  BY <1>2 DEF Writing
<1>5. /\ cache'[c].rank = IF cache[c].rank = Unread THEN Len(View(c)) ELSE cache[c].rank
      /\ Len(View(c)) = Len(history) + Len(mine[c])
      /\ Len(history) \in Nat /\ Len(mine[c]) \in Nat
  BY <1>1, <1>2, HistoryRead
<1>6. cache'[c].rank \in Len(mine[c]) .. Len(View(c))
  BY <1>1, <1>5 DEF ReadsOf
<1>7. ReadsOf(c)'
  BY <1>1, <1>2, <1>3, <1>6 DEF ReadsOf
<1>8. ASSUME Live(c)' PROVE SeesTruly(c)'
  <2>1. SeesTruly(c)
    BY <1>1, <1>3, <1>8 DEF Live, Behind, LiveInv
  <2>2. cache'[c].rank = Len(View(c))
    BY <1>5, <2>1 DEF SeesTruly
  <2> QED
    BY <1>2, <1>3, <1>4, <2>1, <2>2 DEF SeesTruly
<1> QED
  BY <1>7, <1>8, LocalStep

LEMMA AskStep ==
  ASSUME WorkflowInv, ~raced, NEW c \in Cnx,
         \/ \E s \in State : ChangeState(c, s)
         \/ \E t \in Transition : FireTransition(c, t)
  PROVE  WorkflowInv'
<1>1. WorkflowTypes /\ ReadsInv
  BY DEF WorkflowInv
<1>2. WorkflowTypes' /\ OthersSame(c)
  BY <1>1, TypesStep
<1>3. PICK by \in Transition \cup {None}, to \in State \cup {None} :
         Begin(c, by, to, None) /\ (by # None \/ to # None)
  BY NoneAssumption DEF ChangeState, FireTransition
<1>4. /\ call[c] = None /\ (exists \/ creator = c)
      /\ UNCHANGED <<exists, inState, history, raced, outdated>>
      /\ UNCHANGED <<creator, gone, added, mine, ops>>
  BY DEF ChangeState, FireTransition, Asking, database, writes, races
<1> QED
  BY <1>2, <1>3, <1>4, BeginStep

\* The first operation of the queue is gone, and another of another kind stays.
LEMMA TailKeeps ==
  ASSUME NEW q \in Seq(Operation), q # <<>>, Head(q).op # "initial"
  PROVE  (\E i \in DOMAIN q : q[i].op = "initial")
         => \E i \in DOMAIN Tail(q) : Tail(q)[i].op = "initial"
<1> SUFFICES ASSUME NEW i \in DOMAIN q, q[i].op = "initial"
             PROVE  \E j \in DOMAIN Tail(q) : Tail(q)[j].op = "initial"
  OBVIOUS
<1>1. /\ Len(q) \in Nat /\ DOMAIN q = 1..Len(q) /\ Head(q) = q[1]
      /\ Tail(q) \in Seq(Operation) /\ Len(Tail(q)) = Len(q) - 1
      /\ \A j \in 1 .. Len(Tail(q)) : Tail(q)[j] = q[j + 1]
  BY HeadTailProperties, LenProperties
<1>2. i # 1 /\ i - 1 \in 1 .. Len(Tail(q)) /\ (i - 1) + 1 = i
  BY <1>1
<1>3. Tail(q)[i - 1].op = "initial" /\ i - 1 \in DOMAIN Tail(q)
  BY <1>1, <1>2, LenProperties
<1> QED
  BY <1>3

LEMMA AppendKeeps ==
  ASSUME NEW q \in Seq(Operation), NEW o
  PROVE  (\E i \in DOMAIN q : q[i].op = "initial")
         => \E i \in DOMAIN Append(q, o) : Append(q, o)[i].op = "initial"
<1> SUFFICES ASSUME NEW i \in DOMAIN q, q[i].op = "initial"
             PROVE  \E j \in DOMAIN Append(q, o) : Append(q, o)[j].op = "initial"
  OBVIOUS
<1>1. i \in DOMAIN Append(q, o) /\ Append(q, o)[i] = q[i]
  BY LenProperties
<1> QED
  BY <1>1

LEMMA SetCustomStep ==
  ASSUME WorkflowInv, ~raced, NEW c \in Cnx, NEW w \in {Custom, None}, SetCustomWorkflow(c, w)
  PROVE  WorkflowInv'
<1>1. WorkflowTypes /\ ReadsInv /\ LiveInv /\ ReadsOf(c)
      /\ cache \in [Cnx -> CacheRecord] /\ ops[c] \in Seq(Operation)
  BY DEF WorkflowInv, ReadsInv, WorkflowTypes, CacheRecord
<1>2. WorkflowTypes' /\ OthersSame(c)
  BY <1>1, TypesStep
<1>3. PICK v : v = [op |-> "workflow", wf |-> IF w = None THEN Default ELSE w]
  OBVIOUS
<1>4. /\ call[c] = None /\ (exists \/ creator = c)
      /\ cache' = [cache EXCEPT ![c].custom = w]
      /\ ops' = [ops EXCEPT ![c] = Append(@, v)]
      /\ UNCHANGED <<exists, inState, history, raced, outdated>>
      /\ UNCHANGED <<creator, gone, added, mine, call>>
  BY <1>3 DEF SetCustomWorkflow, Asking, database, races
<1>5. cache'[c].state = cache[c].state /\ cache'[c].rank = cache[c].rank
  BY <1>1, <1>4 DEF CacheRecord
<1>6. /\ View(c)' = View(c) /\ InDatabase(c)' = InDatabase(c)
      /\ ~Checking(c) /\ ~Writing(c) /\ ~Checking(c)' /\ ~Writing(c)'
  BY <1>4 DEF View, InDatabase, Checking, Writing
<1>7. ReadsOf(c)'
  BY <1>1, <1>4, <1>5, <1>6 DEF ReadsOf
<1>8. ASSUME Live(c)' PROVE SeesTruly(c)'
  <2>1. SeesTruly(c)
    BY <1>1, <1>4, <1>6, <1>8 DEF Live, Behind, LiveInv
  <2>2. ops'[c] = Append(ops[c], v)
    BY <1>1, <1>4 DEF WorkflowTypes
  <2>3. (\E i \in DOMAIN ops[c] : ops[c][i].op = "initial")
        => \E i \in DOMAIN ops'[c] : ops'[c][i].op = "initial"
    BY <1>1, <2>2, AppendKeeps
  <2> QED
    BY <1>4, <1>5, <1>6, <2>1, <2>3 DEF SeesTruly
<1> QED
  BY <1>2, <1>4, <1>7, <1>8, LocalStep

\* The first state of a info entity.
LEMMA FirstState ==
  ASSUME WorkflowInv, ~raced, NEW c \in Cnx, NEW s \in State, WorkflowTypes', OthersSame(c),
         CurrentStates(c) = {None}, call[c] = None, creator = c \/ exists,
         added' = [added EXCEPT ![c] = {s}],
         cache' = [cache EXCEPT ![c].state = s, ![c].custom = CustomWorkflow(c)],
         UNCHANGED <<exists, inState, history, raced, outdated>>,
         UNCHANGED <<creator, gone, mine, call>>
  PROVE  WorkflowInv'
<1>1. /\ WorkflowTypes /\ ReadsInv /\ LiveInv /\ ReadsOf(c) /\ CreatorInv
      /\ cache \in [Cnx -> CacheRecord] /\ added \in [Cnx -> SUBSET State]
  BY DEF WorkflowInv, ReadsInv, WorkflowTypes, CacheRecord
<1>2. cache'[c].state = s /\ cache'[c].rank = cache[c].rank /\ added'[c] = {s}
  BY <1>1 DEF CacheRecord
<1>3. s # Unread /\ s # None
  BY NoneAssumption, UnreadAssumption
<1>4. View(c)' = View(c) /\ ~Checking(c) /\ ~Writing(c) /\ ~Checking(c)' /\ ~Writing(c)'
  BY DEF View, Checking, Writing
<1>5. ReadsOf(c)'
  BY <1>1, <1>2, <1>3, <1>4 DEF ReadsOf
<1>6. ASSUME Live(c)' PROVE SeesTruly(c)'
  <2>1. Live(c) /\ SeesTruly(c)
    BY <1>1, <1>4, <1>6 DEF Live, Behind, LiveInv
  <2>2. InDatabase(c) = {}
    BY <2>1, SeenState
  <2>3. ~exists
    BY <2>1, <2>2 DEF SeesTruly, OneState
  <2>4. inState = {}
    BY <1>1, <2>3 DEF CreatorInv
  <2>5. InDatabase(c)' = {s}
    BY <1>2, <2>4 DEF InDatabase
  <2>6. View(c) = <<>>
    BY <1>4, <2>1, <2>2 DEF SeesTruly, EndsIn
  <2> QED
    BY <1>2, <1>3, <1>4, <2>1, <2>3, <2>5, <2>6 DEF SeesTruly, EndsIn
<1> QED
  BY <1>5, <1>6, LocalStep

LEMMA SetInitialStep ==
  ASSUME WorkflowInv, ~raced, NEW c \in Cnx, NEW s \in State, SetInitialState(c, s)
  PROVE  WorkflowInv'
<1>1. WorkflowTypes /\ ReadsInv
  BY DEF WorkflowInv
<1>2. WorkflowTypes' /\ OthersSame(c)
  BY <1>1, TypesStep
<1>3. /\ CurrentStates(c) = {None} /\ call[c] = None /\ creator = c
      /\ added' = [added EXCEPT ![c] = {s}]
      /\ cache' = [cache EXCEPT ![c].state = s, ![c].custom = CustomWorkflow(c)]
      /\ UNCHANGED <<exists, inState, history, raced, outdated>>
      /\ UNCHANGED <<creator, gone, mine, call>>
  BY DEF SetInitialState, Asking, database, control, races
<1> QED
  BY <1>2, <1>3, FirstState

LEMMA RunSetInitialStep ==
  ASSUME WorkflowInv, ~raced, NEW c \in Cnx, RunSetInitialState(c)
  PROVE  WorkflowInv'
<1>1. WorkflowTypes /\ ReadsInv /\ LiveInv /\ ReadsOf(c)
  BY DEF WorkflowInv, ReadsInv
<1>2. WorkflowTypes' /\ OthersSame(c)
  BY <1>1, TypesStep
<1>3. /\ ops[c] # <<>> /\ call[c] = None
      /\ UNCHANGED <<exists, inState, history, raced, outdated>>
      /\ UNCHANGED <<creator, gone, mine, call>>
  BY <1>1, RunsQueue DEF RunSetInitialState, database, races
<1>4. exists \/ creator = c
  BY <1>3, Acting DEF Untouched
<1>5. CASE CurrentStates(c) = {None}
  <2>1. PICK s : s = InitialOf(c)
    OBVIOUS
  <2>2. /\ added' = [added EXCEPT ![c] = {s}]
        /\ cache' = [cache EXCEPT ![c].state = s, ![c].custom = CustomWorkflow(c)]
    BY <1>5, <2>1 DEF RunSetInitialState
  <2>3. s \in State
    <3>1. MainWorkflow(c) \in Workflows
      <4>1. cache[c] \in CacheRecord
        BY <1>1 DEF WorkflowTypes, CacheRecord
      <4> QED
        BY <1>1, <4>1, WorkflowRead DEF MainWorkflow, CustomWorkflow, CacheRecord, WorkflowTypes
    <3> QED
      BY <1>1, <2>1, <3>1, WorkflowRead DEF InitialOf
  <2> QED
    BY <1>2, <1>3, <1>4, <1>5, <2>2, <2>3, FirstState
<1>6. CASE CurrentStates(c) # {None}
  <2>1. UNCHANGED <<added, cache>>
    BY <1>6 DEF RunSetInitialState
  <2>2. /\ View(c)' = View(c) /\ InDatabase(c)' = InDatabase(c)
        /\ ~Checking(c) /\ ~Writing(c) /\ ~Checking(c)' /\ ~Writing(c)'
    BY <1>3, <2>1 DEF View, InDatabase, Checking, Writing
  <2>3. ReadsOf(c)'
    BY <1>1, <1>3, <2>1, <2>2 DEF ReadsOf
  <2>4. ASSUME Live(c)' PROVE SeesTruly(c)'
    <3>1. Live(c) /\ SeesTruly(c)
      BY <1>1, <1>3, <2>2, <2>4 DEF Live, Behind, LiveInv
    <3>2. InDatabase(c) # {}
      BY <1>6, <3>1 DEF CurrentStates, SeesTruly
    <3> QED
      BY <1>3, <2>1, <2>2, <3>1, <3>2 DEF SeesTruly
  <2> QED
    BY <1>2, <1>3, <1>4, <2>1, <2>3, <2>4, LocalStep
<1> QED
  BY <1>5, <1>6
\* A change that is about to be written is not None.
LEMMA WriteCall ==
  ASSUME NEW s \in State, NEW to \in State, NEW b \in BOOLEAN
  PROVE  /\ [step |-> "write", from |-> s, to |-> to, trinfo |-> b] # None
         /\ [step |-> "write", from |-> s, to |-> to, trinfo |-> b].step = "write"
<1>1. [step |-> "write", from |-> s, to |-> to, trinfo |-> b]
         \in [step : {"write"}, from : State, to : State, trinfo : BOOLEAN]
  OBVIOUS
<1>2. [step |-> "write", from |-> s, to |-> to, trinfo |-> b] \in InProgress
  BY <1>1 DEF InProgress
<1> QED
  BY <1>2, NoneAssumption

LEMMA RunsStep ==
  ASSUME WorkflowInv, ~raced, NEW c \in Cnx,
         RunFireAutotransition(c) \/ RunWorkflowChanged(c) \/ RunSubWorkflowExit(c)
  PROVE  WorkflowInv'
<1>1. /\ WorkflowTypes /\ ReadsInv /\ LiveInv /\ ReadsOf(c)
      /\ cache \in [Cnx -> CacheRecord] /\ call \in [Cnx -> InProgress \cup {None}]
  BY DEF WorkflowInv, ReadsInv, WorkflowTypes, CacheRecord
<1>2. WorkflowTypes' /\ OthersSame(c)
  BY <1>1, TypesStep
<1>3. /\ ops[c] \in Seq(Operation) /\ ops[c] # <<>> /\ Head(ops[c]).op # "initial"
      /\ call[c] = None
  BY <1>1, RunsQueue DEF RunFireAutotransition, RunWorkflowChanged, RunSubWorkflowExit
<1>4. /\ ops' = [ops EXCEPT ![c] = Tail(@)]
      /\ UNCHANGED <<exists, inState, history, raced, outdated>>
      /\ UNCHANGED <<creator, gone, added, mine>>
  BY DEF RunFireAutotransition, RunWorkflowChanged, RunSubWorkflowExit, database, writes, races
<1>5. exists \/ creator = c
  BY <1>3, Acting DEF Untouched
<1>6. (\E i \in DOMAIN ops[c] : ops[c][i].op = "initial")
      => \E i \in DOMAIN ops'[c] : ops'[c][i].op = "initial"
  <2>1. ops'[c] = Tail(ops[c])
    BY <1>1, <1>4 DEF WorkflowTypes
  <2> QED
    BY <1>3, <2>1, TailKeeps
<1>7. /\ View(c)' = View(c) /\ InDatabase(c)' = InDatabase(c)
      /\ ~Checking(c) /\ ~Writing(c)
  BY <1>3, <1>4 DEF View, InDatabase, Checking, Writing
<1>8. PICK s \in CurrentStates(c) :
         \/ call' = call /\ (cache' = cache \/ cache' = [cache EXCEPT ![c].state = s])
         \/ \E by \in Transition \cup {None}, to \in State \cup {None},
               wf \in Workflows \cup {None} :
               Begin(c, by, to, wf) /\ (by # None \/ to # None)
         \/ \E to \in State :
               /\ s # None /\ WorkflowHistory(c) = <<>>
               /\ call' = [call EXCEPT ![c] = [step |-> "write", from |-> s, to |-> to,
                                               trinfo |-> FALSE]]
               /\ cache' = [cache EXCEPT ![c].rank = 0, ![c].state = s]
  BY <1>1, RunsBegin
<1>9. s \in State \cup {None} /\ s # Unread
  BY <1>1, StatesRead
<1>10. ASSUME Live(c)'
       PROVE  Live(c) /\ SeesTruly(c) /\ InDatabase(c) = IF s = None THEN {} ELSE {s}
  <2>1. Live(c)
    BY <1>4, <1>7, <1>10 DEF Live, Behind
  <2> QED
    BY <1>1, <2>1, SeenState DEF LiveInv
<1>11. CASE call' = call /\ (cache' = cache \/ cache' = [cache EXCEPT ![c].state = s])
  <2>1. /\ cache'[c].rank = cache[c].rank /\ call'[c] = None
        /\ cache'[c].state = cache[c].state \/ cache'[c].state = s
    BY <1>1, <1>3, <1>11 DEF CacheRecord
  <2>2. ~Checking(c)' /\ ~Writing(c)'
    BY <2>1 DEF Checking, Writing
  <2>3. ReadsOf(c)'
    BY <1>1, <1>4, <1>7, <1>9, <2>1, <2>2 DEF ReadsOf
  <2>4. ASSUME Live(c)' PROVE SeesTruly(c)'
    BY <1>4, <1>6, <1>7, <1>9, <1>10, <2>1, <2>2, <2>4 DEF SeesTruly
  <2> QED
    BY <1>2, <1>4, <1>5, <2>3, <2>4, LocalStep
<1>12. ASSUME NEW by \in Transition \cup {None}, NEW to \in State \cup {None},
              NEW wf \in Workflows \cup {None},
              Begin(c, by, to, wf), by # None \/ to # None
       PROVE  WorkflowInv'
  BY <1>2, <1>3, <1>4, <1>5, <1>6, <1>12, BeginStep
<1>13. ASSUME NEW to \in State, s # None, WorkflowHistory(c) = <<>>,
              call' = [call EXCEPT ![c] = [step |-> "write", from |-> s, to |-> to,
                                           trinfo |-> FALSE]],
              cache' = [cache EXCEPT ![c].rank = 0, ![c].state = s]
       PROVE  WorkflowInv'
  <2>1. /\ cache'[c].rank = 0 /\ cache'[c].state = s
        /\ call'[c] = [step |-> "write", from |-> s, to |-> to, trinfo |-> FALSE]
    BY <1>1, <1>13 DEF CacheRecord
  <2>2. s \in State
    BY <1>9, <1>13
  <2>3. Writing(c)' /\ ~Checking(c)'
    BY <2>1, <2>2, WriteCall DEF Writing, Checking
  <2>4. /\ Len(View(c)) \in Nat /\ Len(mine[c]) \in Nat /\ View(c) \in Seq(TrInfo)
        /\ IF cache[c].rank = Unread THEN Len(View(c)) = 0 ELSE cache[c].rank = 0
        /\ Len(View(c)) = Len(history) + Len(mine[c]) /\ Len(history) \in Nat
    BY <1>1, <1>13, HistoryRead, EmptySeq
  <2>5. Len(mine[c]) = 0
    <3>1. cache[c].rank # Unread => cache[c].rank \in Len(mine[c]) .. Len(View(c))
      BY <1>1 DEF ReadsOf
    <3> QED
      BY <2>4, <3>1
  <2>6. ReadsOf(c)'
    BY <1>4, <1>7, <1>9, <2>1, <2>3, <2>4, <2>5 DEF ReadsOf
  <2>7. ASSUME Live(c)' PROVE SeesTruly(c)'
    <3>1. SeesTruly(c) /\ InDatabase(c) = {s}
      BY <1>10, <1>13, <2>7
    <3>2. Len(View(c)) = 0
      BY <2>4, <3>1 DEF SeesTruly
    <3>3. View(c) = <<>>
      BY <2>4, <3>2, EmptySeq
    <3>4. /\ View(c)' = <<>> /\ InDatabase(c)' = {s} /\ cache'[c].state = s
          /\ cache'[c].rank = Len(View(c)')
          /\ call'[c].from = s /\ call'[c].trinfo = FALSE
      BY <1>7, <2>1, <3>1, <3>2, <3>3
    <3>5. Chained(View(c)')
      BY <1>7, <3>1 DEF SeesTruly
    <3>6. (exists => OneState(InDatabase(c)))'
      BY <1>4, <1>7, <3>1 DEF SeesTruly
    <3>7. InDatabase(c)' # {}
      BY <3>4
    <3> QED
      BY <1>9, <1>13, <2>3, <3>4, <3>5, <3>6, <3>7 DEF SeesTruly
  <2> QED
    BY <1>2, <1>4, <1>5, <2>6, <2>7, LocalStep
<1> QED
  BY <1>8, <1>11, <1>12, <1>13

LEMMA AddTrInfoStep ==
  ASSUME WorkflowInv, ~raced, NEW c \in Cnx, AddTrInfo(c)
  PROVE  WorkflowInv'
<1>1. /\ WorkflowTypes /\ ReadsInv /\ LiveInv /\ ReadsOf(c)
      /\ cache \in [Cnx -> CacheRecord] /\ call \in [Cnx -> InProgress \cup {None}]
      /\ mine \in [Cnx -> Seq(TrInfo)] /\ mine[c] \in Seq(TrInfo)
      /\ ops[c] \in Seq(Operation) /\ history \in Seq(TrInfo)
  BY DEF WorkflowInv, ReadsInv, WorkflowTypes, CacheRecord
<1>2. WorkflowTypes' /\ OthersSame(c)
  BY <1>1, TypesStep
<1>3. /\ Checking(c) /\ call[c] # None
      /\ \A o \in Cnx \ {c} : mine[o] = <<>>
      /\ cache[c].rank = Len(history) + Len(mine[c])
  BY DEF AddTrInfo, Checking, RankIsFree, Others
<1>4. PICK s \in CurrentStates(c),
           to \in {IF call[c].to = None THEN DestinationOf(c, call[c].by)
                   ELSE call[c].to} :
         /\ Allowed(c, call[c], s)
         /\ mine' = [mine EXCEPT ![c] =
                         Append(@, [by |-> call[c].by, from |-> s, to |-> to])]
         /\ cache' = [cache EXCEPT ![c].rank = @ + 1, ![c].state = s]
         /\ call' = [call EXCEPT ![c] = [step |-> "write", from |-> s, to |-> to,
                                         trinfo |-> TRUE]]
  BY DEF AddTrInfo
<1> PICK info : info = [by |-> call[c].by, from |-> s, to |-> to]
  OBVIOUS
<1>5. /\ ops' = [ops EXCEPT ![c] = Append(@, [op |-> "auto"])]
      /\ UNCHANGED <<exists, inState, history, raced, outdated>>
      /\ UNCHANGED <<creator, gone, added>>
  BY DEF AddTrInfo, database, races
<1>6. /\ s \in State /\ s # None /\ s # Unread /\ to \in State
      /\ info \in TrInfo /\ info.from = s /\ info.to = to
  <2>1. s # None /\ s \in State /\ s # Unread
    BY <1>1, <1>4, StatesRead DEF Allowed
  <2>2. to \in State
    BY <1>1, <1>3, <1>4, LeadsToState
  <2>3. call[c].by \in Transition \cup {None}
    BY <1>1, <1>3 DEF Checking, InProgress
  <2> QED
    BY <1>4, <2>1, <2>2, <2>3 DEF TrInfo
<1>7. /\ mine'[c] = Append(mine[c], info) /\ cache'[c].rank = cache[c].rank + 1
      /\ cache'[c].state = s
      /\ call'[c] = [step |-> "write", from |-> s, to |-> to, trinfo |-> TRUE]
  BY <1>1, <1>4 DEF CacheRecord
<1>9. Writing(c)' /\ ~Checking(c)' /\ ~Writing(c)
  <2>1. s \in State /\ to \in State
    BY <1>6
  <2>2. call'[c] = [step |-> "write", from |-> s, to |-> to, trinfo |-> TRUE]
    BY <1>7
  <2>3. call'[c] # None /\ call'[c].step = "write"
    BY <2>1, <2>2, WriteCall
  <2>4. call[c].step = "check"
    BY <1>3 DEF Checking
  <2> QED
    BY <2>3, <2>4 DEF Writing, Checking
<1>10. /\ View(c) \in Seq(TrInfo) /\ Len(View(c)) \in Nat /\ Len(history) \in Nat
       /\ Len(mine[c]) \in Nat /\ Len(View(c)) = Len(history) + Len(mine[c])
  BY <1>1, HistoryRead
<1>11. /\ View(c)' = Append(View(c), info) /\ View(c)' # <<>>
       /\ Len(View(c)') = Len(View(c)) + 1
       /\ Last(View(c)') = info
       /\ \A i \in 1 .. Len(View(c)) : View(c)'[i] = View(c)[i]
       /\ View(c)'[Len(View(c)) + 1] = info
  <2>1. PICK v : v = View(c)
    OBVIOUS
  <2>2. View(c)' = history \o Append(mine[c], info)
    BY <1>5, <1>7 DEF View
  <2>3. history \o Append(mine[c], info) = Append(history \o mine[c], info)
    BY <1>1, <1>6
  <2>4. View(c)' = Append(v, info)
    BY <2>1, <2>2, <2>3 DEF View
  <2>5. /\ v \in Seq(TrInfo) /\ Len(v) \in Nat
    BY <1>10, <2>1
  <2>6. /\ Append(v, info) # <<>> /\ Len(Append(v, info)) = Len(v) + 1
        /\ \A i \in 1 .. Len(v) : Append(v, info)[i] = v[i]
        /\ Append(v, info)[Len(v) + 1] = info
    BY <1>6, <2>5, AppendProperties
  <2>7. Last(Append(v, info)) = info
    BY <2>6 DEF Last
  <2> QED
    BY <2>1, <2>4, <2>6, <2>7
<1>12. Len(mine'[c]) = Len(mine[c]) + 1
  BY <1>1, <1>6, <1>7, AppendProperties
<1>13. ReadsOf(c)'
  <2>1. cache'[c].rank \in Len(mine'[c]) .. Len(View(c)')
    BY <1>3, <1>7, <1>10, <1>11, <1>12
  <2> QED
    BY <1>6, <1>7, <1>9, <2>1 DEF ReadsOf
<1>14. exists \/ creator = c
  BY <1>3, Acting DEF Untouched
<1>15. InDatabase(c)' = InDatabase(c)
  BY <1>5 DEF InDatabase
<1>16. ASSUME Live(c)' PROVE SeesTruly(c)'
  <2>1. Live(c)
    BY <1>3, <1>5, <1>10, <1>16 DEF Live, Behind
  <2>2. SeesTruly(c) /\ InDatabase(c) = {s}
    BY <1>1, <1>6, <2>1, SeenState DEF LiveInv
  <2>3. Chained(View(c)')
    <3> SUFFICES ASSUME NEW i \in 1 .. Len(View(c)') - 1
                 PROVE  View(c)'[i].to = View(c)'[i + 1].from
      BY DEF Chained
    <3>1. i \in 1 .. Len(View(c))
      BY <1>10, <1>11
    <3>2. CASE i = Len(View(c))
      <4>1. View(c) # <<>>
        BY <3>1, EmptySeq
      <4>2. InDatabase(c) = {Last(View(c)).to}
        BY <1>9, <2>2, <4>1 DEF SeesTruly, EndsIn
      <4>3. Last(View(c)) = View(c)[i]
        BY <3>2 DEF Last
      <4>4. View(c)[i].to = s
        BY <2>2, <4>2, <4>3
      <4> QED
        BY <1>6, <1>11, <3>1, <3>2, <4>4
    <3>3. CASE i # Len(View(c))
      <4>1. i \in 1 .. Len(View(c)) - 1 /\ i + 1 \in 1 .. Len(View(c))
        BY <1>10, <3>1, <3>3
      <4>2. View(c)[i].to = View(c)[i + 1].from
        BY <2>2, <4>1 DEF SeesTruly, Chained
      <4> QED
        BY <1>11, <3>1, <4>1, <4>2
    <3> QED
      BY <3>2, <3>3
  <2>4. cache'[c].rank = Len(View(c)')
    BY <1>3, <1>7, <1>10, <1>11
  <2>5. exists' => OneState(InDatabase(c))'
    BY <1>5, <1>15, <2>2 DEF SeesTruly, OneState
  <2>6. Last(View(c)').to = to
    BY <1>6, <1>11
  <2>7. /\ cache'[c].state = s /\ call'[c].from = s /\ call'[c].trinfo /\ call'[c].to = to
    BY <1>7
  <2>8. creator' = c => InDatabase(c)' # {}
    BY <1>15, <2>2
  <2> QED
    BY <1>6, <1>9, <1>11, <1>15, <2>2, <2>3, <2>4, <2>5, <2>6, <2>7, <2>8 DEF SeesTruly
<1> QED
  BY <1>2, <1>3, <1>5, <1>13, <1>14, <1>16, LocalStep

LEMMA WriteStep ==
  ASSUME WorkflowInv, ~raced, NEW c \in Cnx, Write(c)
  PROVE  WorkflowInv'
<1>1. /\ WorkflowTypes /\ ReadsInv /\ LiveInv /\ ReadsOf(c)
      /\ cache \in [Cnx -> CacheRecord] /\ call \in [Cnx -> InProgress \cup {None}]
      /\ gone \in [Cnx -> SUBSET State] /\ added \in [Cnx -> SUBSET State]
  BY DEF WorkflowInv, ReadsInv, WorkflowTypes, CacheRecord
<1>2. WorkflowTypes' /\ OthersSame(c)
  BY <1>1, TypesStep
<1>3. /\ Writing(c) /\ call[c] # None /\ ~Checking(c)
      /\ UNCHANGED <<exists, inState, history, raced, outdated>>
      /\ UNCHANGED <<creator, mine>> /\ call' = [call EXCEPT ![c] = None]
  BY DEF Write, Writing, Checking, database, races
<1>4. PICK i, old : i = call[c] /\ old = {i.from} \cup (InDatabase(c) \ {i.to})
  OBVIOUS
<1>5. i.from \in State /\ i.to \in State /\ i.trinfo \in BOOLEAN /\ i.from # Unread
  <2>1. i \in InProgress /\ i.step = "write"
    BY <1>1, <1>3, <1>4 DEF Writing
  <2> QED
    BY <2>1, UnreadAssumption DEF InProgress
<1>6. /\ gone' = [gone EXCEPT ![c] = @ \cup (old \cap inState)]
      /\ added' = [added EXCEPT ![c] = (@ \ old) \cup {i.to}]
      /\ cache' = [cache EXCEPT ![c].state = i.to,
                       ![c].custom = IF i.trinfo THEN CustomWorkflow(c) ELSE @]
  BY <1>4 DEF Write
<1>7. /\ cache'[c].state = i.to /\ cache'[c].rank = cache[c].rank
      /\ i.to # Unread /\ call'[c] = None
  BY <1>1, <1>3, <1>5, <1>6, UnreadAssumption DEF CacheRecord
<1>8. InDatabase(c)' = (InDatabase(c) \ old) \cup {i.to}
  <2>1. gone'[c] = gone[c] \cup (old \cap inState) /\ added'[c] = (added[c] \ old) \cup {i.to}
    BY <1>1, <1>6
  <2> QED
    BY <1>3, <2>1 DEF InDatabase
<1>9. View(c)' = View(c) /\ ~Writing(c)' /\ ~Checking(c)'
  BY <1>3, <1>7 DEF View, Writing, Checking
<1>10. ReadsOf(c)'
  BY <1>1, <1>3, <1>7, <1>9 DEF ReadsOf
<1>11. exists \/ creator = c
  BY <1>3, Acting DEF Untouched
<1>12. ASSUME Live(c)' PROVE SeesTruly(c)'
  <2>1. SeesTruly(c)
    BY <1>1, <1>3, <1>9, <1>12 DEF Live, Behind, LiveInv
  <2>2. cache[c].state = i.from
    BY <1>3, <1>4, <2>1 DEF SeesTruly
  <2>3. InDatabase(c) = {i.from}
    BY <1>5, <2>1, <2>2, NoneAssumption DEF SeesTruly
  <2>4. InDatabase(c)' = {i.to}
    BY <1>4, <1>8, <2>3
  <2>5. EndsIn(View(c)', InDatabase(c)')
    BY <1>3, <1>4, <1>5, <1>9, <2>1, <2>4 DEF SeesTruly, EndsIn
  <2>6. Chained(View(c)')
    BY <1>9, <2>1 DEF SeesTruly
  <2>7. cache'[c].rank # Unread => cache'[c].rank = Len(View(c)')
    BY <1>7, <1>9, <2>1 DEF SeesTruly
  <2>8. i.to # None /\ OneState(InDatabase(c))'
    BY <1>5, <2>4, NoneAssumption DEF OneState
  <2> QED
    BY <1>7, <1>9, <2>4, <2>5, <2>6, <2>7, <2>8 DEF SeesTruly, EndsIn
<1> QED
  BY <1>2, <1>3, <1>10, <1>11, <1>12, LocalStep
--------------------------------------------------------------------------------
(* The commit, after which another transaction sees other rows.            *)

LEMMA CommitTypes ==
  ASSUME WorkflowTypes, NEW c \in Cnx, Commit(c)
  PROVE  WorkflowTypes' /\ OthersSame(c) /\ Untouched(c)'
         /\ creator' = IF creator = c THEN None ELSE creator
<1>1. /\ history \in Seq(TrInfo) /\ mine[c] \in Seq(TrInfo)
      /\ gone[c] \subseteq State /\ added[c] \subseteq State /\ inState \subseteq State
      /\ changed[c] \in Workflows \cup {None, Unread} /\ custom \in Workflows \cup {None}
      /\ exists \in BOOLEAN /\ raced \in BOOLEAN
  BY DEF WorkflowTypes
<1>2. /\ Clear(c)
      /\ exists' = (exists \/ creator = c) /\ raced' = (raced \/ c \in outdated)
      /\ inState' = InDatabase(c) /\ history' = history \o mine[c]
      /\ custom' = IF changed[c] = Unread THEN custom ELSE changed[c]
  BY DEF Commit
<1>3. /\ exists' \in BOOLEAN /\ raced' \in BOOLEAN /\ inState' \subseteq State
      /\ history' \in Seq(TrInfo) /\ custom' \in Workflows \cup {None}
  BY <1>1, <1>2, ConcatProperties DEF InDatabase
<1>4. /\ creator' \in Cnx \cup {None} /\ creator' = IF creator = c THEN None ELSE creator
      /\ gone' \in [Cnx -> SUBSET State] /\ added' \in [Cnx -> SUBSET State]
      /\ mine' \in [Cnx -> Seq(TrInfo)]
      /\ changed' \in [Cnx -> Workflows \cup {None, Unread}]
      /\ cache' \in [Cnx -> CacheRecord]
      /\ phase' \in [Cnx -> {"open", "precommit"}]
      /\ ops' \in [Cnx -> Seq(Operation)]
      /\ call' \in [Cnx -> InProgress \cup {None}]
      /\ Untouched(c)'
      /\ \A o \in Cnx \ {c} :
            /\ gone'[o] = gone[o] /\ added'[o] = added[o] /\ mine'[o] = mine[o]
            /\ changed'[o] = changed[o] /\ cache'[o] = cache[o] /\ phase'[o] = phase[o]
            /\ ops'[o] = ops[o] /\ call'[o] = call[o]
  BY <1>2, ClearTypes
<1>5. OthersSame(c)
  BY <1>4 DEF OthersSame
<1>6. WorkflowTypes'
  BY <1>3, <1>4 DEF WorkflowTypes, CacheRecord
<1> QED
  BY <1>4, <1>5, <1>6

\* Who is neither outdated nor behind after the commit of another was neither before.
LEMMA StillLive ==
  ASSUME WorkflowInv, ~raced, NEW c \in Cnx, Commit(c), NEW o \in Cnx \ {c}, Live(o)'
  PROVE  /\ Live(o) /\ ~Outdates(c, o)
         /\ Checking(o) => cache[o].rank = Len(View(o)') /\ mine[c] = <<>>
<1>1. /\ WorkflowTypes /\ ReadsOf(o) /\ OthersSame(c)
      /\ history \in Seq(TrInfo) /\ mine[c] \in Seq(TrInfo) /\ mine[o] \in Seq(TrInfo)
      /\ o \in Cnx /\ o # c
  BY CommitTypes DEF WorkflowInv, ReadsInv, WorkflowTypes
<1>2. /\ cache'[o] = cache[o] /\ call'[o] = call[o] /\ mine'[o] = mine[o]
      /\ history' = history \o mine[c]
      /\ outdated' = (outdated \ {c}) \cup {p \in Others(c) : Outdates(c, p)}
  BY <1>1 DEF OthersSame, Commit
<1>3. o \notin outdated /\ ~Outdates(c, o) /\ ~Behind(o)'
  BY <1>1, <1>2 DEF Live, Others
<1>4. /\ Len(View(o)) \in Nat /\ Len(mine[c]) \in Nat
      /\ Len(View(o)') = Len(View(o)) + Len(mine[c])
  <2>1. /\ Len(history) \in Nat /\ Len(mine[c]) \in Nat /\ Len(mine[o]) \in Nat
        /\ history \o mine[c] \in Seq(TrInfo)
        /\ Len(history \o mine[c]) = Len(history) + Len(mine[c])
    BY <1>1, LenProperties, ConcatProperties
  <2>2. /\ Len(View(o)) = Len(history) + Len(mine[o])
        /\ Len((history \o mine[c]) \o mine[o]) = Len(history \o mine[c]) + Len(mine[o])
    BY <1>1, <2>1, ConcatProperties DEF View
  <2>3. View(o)' = (history \o mine[c]) \o mine[o]
    BY <1>2 DEF View
  <2>4. Len(View(o)') = Len((history \o mine[c]) \o mine[o])
    BY <2>3
  <2>5. PICK h, a, b : h = Len(history) /\ a = Len(mine[c]) /\ b = Len(mine[o])
    OBVIOUS
  <2>6. Len(View(o)') = (h + a) + b /\ Len(View(o)) = h + b
    BY <2>1, <2>2, <2>4, <2>5
  <2>7. h \in Nat /\ a \in Nat /\ b \in Nat
    BY <2>1, <2>5
  <2>8. h + b \in Nat /\ (h + a) + b = (h + b) + a
    BY <2>7
  <2>9. Len(View(o)) \in Nat
    BY <2>6, <2>8
  <2>10. Len(View(o)') = Len(View(o)) + a
    BY <2>6, <2>8
  <2>11. Len(mine[c]) = a
    BY <2>5
  <2> QED
    BY <2>7, <2>9, <2>10, <2>11
<1>5. Checking(o)' = Checking(o)
  BY <1>2, NoneAssumption DEF Checking
<1>6. ASSUME Checking(o)
      PROVE  cache[o].rank = Len(View(o)') /\ cache[o].rank = Len(View(o)) /\ Len(mine[c]) = 0
  <2>1. cache[o].rank = Len(View(o)')
    BY <1>2, <1>3, <1>5, <1>6 DEF Behind
  <2>2. cache[o].rank \in Nat
    BY <1>1, <1>6 DEF ReadsOf
  <2>3. cache[o].rank # Unread => cache[o].rank \in Len(mine[o]) .. Len(View(o))
    BY <1>1 DEF ReadsOf
  <2>4. cache[o].rank # Unread
    BY <2>2, UnreadAssumption
  <2> QED
    BY <1>4, <2>1, <2>3, <2>4
<1>7. Checking(o) => mine[c] = <<>>
  BY <1>1, <1>6, EmptySeq
<1> QED
  BY <1>3, <1>6, <1>7 DEF Live, Behind

LEMMA CommitStep ==
  ASSUME WorkflowInv, ~raced, NEW c \in Cnx, Commit(c)
  PROVE  WorkflowInv'
<1>1. /\ WorkflowTypes /\ ReadsInv /\ OneWriter /\ CreatorInv /\ CommittedInv /\ LiveInv
      /\ ReadsOf(c) /\ history \in Seq(TrInfo) /\ mine[c] \in Seq(TrInfo)
      /\ cache[c] \in CacheRecord
  BY DEF WorkflowInv, ReadsInv, WorkflowTypes, CacheRecord
<1>2. WorkflowTypes' /\ OthersSame(c) /\ Untouched(c)'
  BY <1>1, CommitTypes
<1>3. creator' = IF creator = c THEN None ELSE creator
  BY <1>1, CommitTypes
<1>4. /\ phase[c] = "precommit" /\ call[c] = None /\ ops[c] = <<>>
      /\ exists' = (exists \/ creator = c) /\ raced' = (raced \/ c \in outdated)
      /\ inState' = InDatabase(c) /\ history' = View(c)
  BY DEF Commit, View
<1>5. exists' /\ creator' = None
  <2>1. exists \/ creator = c
    BY <1>4, Acting DEF Untouched
  <2> QED
    BY <1>1, <1>3, <1>4, <2>1 DEF CreatorInv
<1>6. CASE c \in outdated
  BY <1>2, <1>4, <1>6 DEF WorkflowInv
<1>7. CASE c \notin outdated
  <2>1. ~Checking(c) /\ ~Writing(c) /\ SeesTruly(c)
    BY <1>1, <1>4, <1>7 DEF Checking, Writing, Live, Behind, LiveInv
  <2>2. CommittedInv'
    <3>1. Chained(history') /\ EndsIn(history', inState')
      BY <1>4, <2>1 DEF SeesTruly
    <3>2. OneState(inState')
      <4>1. CASE exists
        BY <1>4, <2>1, <4>1 DEF SeesTruly
      <4>2. CASE ~exists
        <5>1. InDatabase(c) # {}
          <6>1. creator = c /\ DOMAIN ops[c] = {}
            BY <1>4, <4>2, Acting DEF Untouched
          <6> QED
            BY <2>1, <6>1 DEF SeesTruly
        <5>2. inState = {}
          BY <1>1, <4>2 DEF CreatorInv
        <5>3. cache[c].state # Unread
          BY <1>1, <5>1, <5>2 DEF ReadsOf, InDatabase
        <5>4. cache[c].state \in State /\ InDatabase(c) = {cache[c].state}
          BY <1>1, <2>1, <5>1, <5>3 DEF SeesTruly, CacheRecord
        <5> QED
          BY <1>4, <5>4 DEF OneState
      <4> QED
        BY <4>1, <4>2
    <3> QED
      BY <3>1, <3>2 DEF CommittedInv, Chained, EndsIn, OneState
  <2>3. ASSUME NEW o \in Cnx, Untouched(o)'
        PROVE  ReadsOf(o)' /\ SeesTruly(o)'
    <3>1. /\ cache'[o].state = Unread /\ cache'[o].rank = Unread /\ gone'[o] = {}
          /\ added'[o] = {} /\ mine'[o] = <<>> /\ call'[o] = None
      BY <2>3 DEF Untouched, Fresh
    <3>2. history' \in Seq(TrInfo)
      BY <1>2 DEF WorkflowTypes
    <3>3. /\ View(o)' = history' /\ InDatabase(o)' = inState'
          /\ ~Checking(o)' /\ ~Writing(o)'
      BY <3>1, <3>2, ConcatEmptySeq DEF View, InDatabase, Checking, Writing
    <3>4. ReadsOf(o)'
      BY <3>1, <3>3 DEF ReadsOf
    <3>5. creator' # o
      BY <1>5, NoneAssumption
    <3>6. SeesTruly(o)'
      BY <2>2, <3>1, <3>3, <3>5 DEF SeesTruly, CommittedInv, Chained, EndsIn, OneState
    <3> QED
      BY <3>4, <3>6
  <2>4. ASSUME NEW o \in Cnx \ {c}
        PROVE  /\ gone'[o] = gone[o] /\ added'[o] = added[o] /\ mine'[o] = mine[o]
               /\ cache'[o] = cache[o] /\ ops'[o] = ops[o] /\ call'[o] = call[o]
               /\ Checking(o)' = Checking(o) /\ Writing(o)' = Writing(o)
               /\ Untouched(o) => Untouched(o)'
               /\ o \in Cnx /\ o # c
    BY <1>2, NoneAssumption DEF OthersSame, Untouched, Checking, Writing
  <2>5. ReadsInv'
    <3>1. ASSUME NEW o \in Cnx \ {c} PROVE ReadsOf(o)'
      <4>1. ReadsOf(o) /\ mine[o] \in Seq(TrInfo)
        BY <1>1 DEF ReadsInv, WorkflowTypes
      <4>2. View(o)' = (history \o mine[c]) \o mine[o] /\ View(o) = history \o mine[o]
        BY <1>4, <2>4, <3>1 DEF View
      <4>3. PICK h, a, b : h = Len(history) /\ a = Len(mine[c]) /\ b = Len(mine[o])
        OBVIOUS
      <4>4. h \in Nat /\ a \in Nat /\ b \in Nat
        BY <1>1, <4>1, <4>3, LenProperties
      <4>5. Len(View(o)) = h + b /\ Len((history \o mine[c]) \o mine[o]) = (h + a) + b
        <5>1. history \o mine[c] \in Seq(TrInfo) /\ Len(history \o mine[c]) = h + a
          BY <1>1, <4>3, ConcatProperties
        <5> QED
          BY <1>1, <4>1, <4>2, <4>3, <5>1, ConcatProperties
      <4>6. Len(View(o)') = (h + a) + b
        BY <4>2, <4>5
      <4>7. cache'[o].rank # Unread => cache'[o].rank \in Len(mine'[o]) .. Len(View(o)')
        <5>1. b .. (h + b) \subseteq b .. ((h + a) + b)
          BY <4>4
        <5>2. cache[o].rank # Unread => cache[o].rank \in b .. (h + b)
          BY <4>1, <4>3, <4>5 DEF ReadsOf
        <5> QED
          BY <2>4, <3>1, <4>3, <4>6, <5>1, <5>2
      <4> QED
        BY <2>4, <3>1, <4>1, <4>7 DEF ReadsOf
    <3> QED
      BY <1>2, <2>3, <3>1 DEF ReadsInv
  <2>6. OneWriter'
    <3>1. mine'[c] = <<>>
      BY <1>2 DEF Untouched
    <3>2. \A o \in Cnx \ {c} : mine'[o] = mine[o]
      BY <2>4
    <3> QED
      BY <1>1, <3>1, <3>2 DEF OneWriter
  <2>7. CreatorInv'
    BY <1>5 DEF CreatorInv
  <2>8. LiveInv'
    <3> SUFFICES ASSUME NEW o \in Cnx, Live(o)' PROVE SeesTruly(o)'
      BY DEF LiveInv
    <3>1. CASE o = c
      BY <1>2, <2>3, <3>1
    <3>2. CASE o # c /\ ~exists
      <4>1. creator # o
        <5>1. creator = c
          BY <1>4, <3>2, Acting DEF Untouched
        <5> QED
          BY <3>2, <5>1
      <4>2. Untouched(o)
        BY <1>1, <3>2, <4>1 DEF CreatorInv
      <4> QED
        BY <2>3, <2>4, <3>2, <4>2
    <3>3. CASE o # c /\ exists
      <4>1. /\ Live(o) /\ ~Outdates(c, o)
            /\ Checking(o) => cache[o].rank = Len(View(o)') /\ mine[c] = <<>>
        BY <3>3, StillLive
      <4>2. SeesTruly(o) /\ ReadsOf(o)
        BY <1>1, <4>1 DEF LiveInv, ReadsInv
      <4>3. \/ cache[o].state = Unread
            \/ InDatabase(c) = inState /\ mine[c] = <<>>
            \/ mine[c] # <<>> /\ Checking(o)
        BY <4>1 DEF Outdates, Checking
      <4>4. CASE mine[c] # <<>> /\ Checking(o)
        BY <4>1, <4>4
      <4>5. CASE InDatabase(c) = inState /\ mine[c] = <<>>
        <5>1. history' = history /\ inState' = inState
          BY <1>1, <1>4, <4>5, ConcatEmptySeq DEF View
        <5>2. View(o)' = View(o) /\ InDatabase(o)' = InDatabase(o)
          BY <2>4, <3>3, <5>1 DEF View, InDatabase
        <5>3. creator' # o
          BY <1>5, NoneAssumption
        <5> QED
          BY <2>4, <3>3, <4>2, <5>2, <5>3 DEF SeesTruly, Chained, EndsIn, OneState
      <4>6. CASE cache[o].state = Unread
        <5>1. gone[o] = {} /\ added[o] = {} /\ mine[o] = <<>>
          BY <4>2, <4>6 DEF ReadsOf
        <5>2. history' \in Seq(TrInfo)
          BY <1>2 DEF WorkflowTypes
        <5>3. View(o)' = history' /\ InDatabase(o)' = inState'
          BY <2>4, <3>3, <5>1, <5>2, ConcatEmptySeq DEF View, InDatabase
        <5>4. ~Writing(o)
          <6>1. ASSUME Writing(o) PROVE FALSE
            <7>1. call[o] \in InProgress /\ call[o].step = "write"
              BY <1>1, <6>1 DEF Writing, WorkflowTypes
            <7>2. call[o].from \in State
              BY <7>1 DEF InProgress
            <7> QED
              BY <4>2, <4>6, <6>1, <7>2, UnreadAssumption DEF SeesTruly
          <6> QED
            BY <6>1
        <5>5. creator' # o
          BY <1>5, NoneAssumption
        <5>6. cache'[o].rank # Unread =>
                 cache'[o].rank = Len(View(o)') /\ Checking(o)'
          BY <2>4, <3>3, <4>1, <4>2, <4>6 DEF SeesTruly
        <5>7. cache'[o].state = Unread /\ ~Writing(o)'
          BY <2>4, <3>3, <4>6, <5>4
        <5> QED
          BY <2>2, <5>3, <5>5, <5>6, <5>7 DEF SeesTruly, CommittedInv, Chained, EndsIn, OneState
      <4> QED
        BY <4>3, <4>4, <4>5, <4>6
    <3> QED
      BY <3>1, <3>2, <3>3
  <2> QED
    BY <1>2, <2>2, <2>5, <2>6, <2>7, <2>8 DEF WorkflowInv
<1> QED
  BY <1>6, <1>7

LEMMA WorkflowInit == Init => WorkflowInv
<1> SUFFICES ASSUME Init PROVE WorkflowInv
  OBVIOUS
<1>1. Fresh \in CacheRecord
  BY DEF Fresh, CacheRecord
<1>2. <<>> \in Seq(TrInfo) /\ <<>> \in Seq(Operation)
  BY EmptySeq
<1>3. /\ exists = FALSE /\ raced = FALSE /\ inState = {} /\ history = <<>> /\ custom = None
      /\ creator = None /\ gone = [d \in Cnx |-> {}] /\ added = [d \in Cnx |-> {}]
      /\ mine = [d \in Cnx |-> <<>>] /\ changed = [d \in Cnx |-> Unread]
      /\ cache = [d \in Cnx |-> Fresh] /\ phase = [d \in Cnx |-> "open"]
      /\ ops = [d \in Cnx |-> <<>>] /\ call = [d \in Cnx |-> None]
  BY DEF Init
<1>4. WorkflowTypes
  BY <1>1, <1>2, <1>3 DEF WorkflowTypes, CacheRecord
<1>5. ASSUME NEW c \in Cnx PROVE Untouched(c) /\ creator # c
  BY <1>3, NoneAssumption DEF Untouched
<1>6. ASSUME NEW c \in Cnx PROVE View(c) = <<>> /\ InDatabase(c) = {}
  BY <1>2, <1>3, <1>5, ConcatEmptySeq DEF View, InDatabase, Untouched
<1>7. ReadsInv
  BY <1>5, <1>6 DEF ReadsInv, ReadsOf, Untouched, Fresh, Checking
<1>8. OneWriter /\ CreatorInv
  BY <1>3, <1>5 DEF OneWriter, CreatorInv
<1>9. CommittedInv /\ LiveInv
  <2>1. Chained(<<>>) /\ \A S : EndsIn(<<>>, S)
    <3>1. Len(<<>>) = 0
      BY EmptySeq
    <3> QED
      BY <3>1 DEF Chained, EndsIn
  <2>2. CommittedInv
    BY <1>3, <2>1 DEF CommittedInv
  <2>3. ASSUME NEW c \in Cnx PROVE SeesTruly(c)
    <3>1. cache[c].state = Unread /\ cache[c].rank = Unread /\ ~Writing(c)
      BY <1>5 DEF Untouched, Fresh, Writing
    <3> QED
      BY <1>3, <1>5, <1>6, <2>1, <3>1 DEF SeesTruly
  <2> QED
    BY <2>2, <2>3 DEF LiveInv
<1> QED
  BY <1>4, <1>7, <1>8, <1>9 DEF WorkflowInv

\* What a live transaction read is what there is, and every committed change of state
\* follows the one before it.
THEOREM WorkflowInvariant == Spec => []WorkflowInv
<1>1. WorkflowInv /\ [Next]_vars => WorkflowInv'
  <2> SUFFICES ASSUME WorkflowInv, [Next]_vars PROVE WorkflowInv'
    OBVIOUS
  <2>1. CASE UNCHANGED vars
    <3>1. /\ exists' = exists /\ inState' = inState /\ history' = history /\ custom' = custom
          /\ creator' = creator /\ gone' = gone /\ added' = added /\ mine' = mine
          /\ changed' = changed /\ cache' = cache /\ phase' = phase /\ ops' = ops
          /\ call' = call /\ outdated' = outdated /\ raced' = raced
      BY <2>1 DEF vars, database, writes, control, races
    <3>2. WorkflowTypes'
      BY <3>1 DEF WorkflowInv, WorkflowTypes
    <3>3. /\ ReadsInv' = ReadsInv /\ OneWriter' = OneWriter
      BY <3>1 DEF ReadsInv, ReadsOf, OneWriter, View, Checking
    <3>4. CreatorInv' = CreatorInv /\ CommittedInv' = CommittedInv
      BY <3>1 DEF CreatorInv, Untouched, CommittedInv, Chained, EndsIn, OneState
    <3>5. LiveInv' = LiveInv
      <4>1. ASSUME NEW c \in Cnx PROVE Live(c)' = Live(c) /\ SeesTruly(c)' = SeesTruly(c)
        BY <3>1 DEF Live, Behind, SeesTruly, View, InDatabase, Checking, Writing, Chained, EndsIn,
                    OneState
      <4> QED
        BY <4>1 DEF LiveInv
    <3> QED
      BY <3>1, <3>2, <3>3, <3>4, <3>5 DEF WorkflowInv
  <2>2. CASE Next
    <3>1. ~raced
      BY <2>2 DEF Next
    <3>2. PICK c \in Cnx :
             \/ Create(c) \/ Look(c)
             \/ \E s \in State : SetInitialState(c, s) \/ ChangeState(c, s)
             \/ \E t \in Transition : FireTransition(c, t)
             \/ \E w \in {Custom, None} : SetCustomWorkflow(c, w)
             \/ AddTrInfo(c) \/ Write(c)
             \/ Precommit(c)
             \/ RunSetInitialState(c) \/ RunFireAutotransition(c)
             \/ RunWorkflowChanged(c) \/ RunSubWorkflowExit(c)
             \/ Commit(c) \/ Rollback(c)
      BY <2>2 DEF Next
    <3> QED
      BY <3>1, <3>2, CreateStep, LookUpStep, SetInitialStep, AskStep, SetCustomStep, AddTrInfoStep,
         WriteStep, PrecommitStep, RunSetInitialStep, RunsStep, CommitStep, RollbackStep
  <2> QED
    BY <2>1, <2>2
<1> QED
  BY <1>1, WorkflowInit, PTL DEF Spec

\* An entity has one state and the history of its changes of state is a chain that ends
\* there, as long as no transaction commits after having changed something it read before
\* another one changed it: _change_state and FireTransitionHook, with the unique index.
THEOREM HistoryChainHolds == Spec => []HistoryChain
<1>1. WorkflowInv => HistoryChain
  <2> SUFFICES ASSUME WorkflowInv, ~raced PROVE HistoryChain
    BY DEF HistoryChain
  <2>1. CommittedInv
    BY DEF WorkflowInv
  <2>2. exists => Cardinality(inState) = 1
    <3>1. \A s \in State : Cardinality({s}) = 1
      BY FS_Singleton
    <3> QED
      BY <2>1, <3>1 DEF CommittedInv, OneState
  <2> QED
    BY <2>1, <2>2 DEF HistoryChain, CommittedInv, Chained, EndsIn
<1> QED
  BY <1>1, WorkflowInvariant, PTL
================================================================================
