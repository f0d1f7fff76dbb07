-------------------------------- MODULE LDAPFeed -------------------------------
(***************************************************************************)
(* The users and groups that a repository copies from an LDAP directory,   *)
(* pull after pull (cubicweb/sobjects/ldapparser.py, called by             *)
(* DataFeedSource._pull_data of cubicweb/server/sources/datafeed.py).      *)
(*                                                                         *)
(* A pull is one transaction.  The directory changes at any time, among    *)
(* others between its two searches; the managers of the repository change  *)
(* users between two pulls.  A person has the same login on both sides.    *)
(***************************************************************************)
EXTENDS Naturals

CONSTANTS
    Login,
    LocalGroup,    \* names of groups that the directory does not use
    TeamGroup,     \* and of groups of the directory
    DefaultGroup,  \* option user-default-group of the source
    NoGroup,
    MaxMoves       \* bound: changes of the directory, and by managers

ASSUME GroupAssumption == DefaultGroup \subseteq LocalGroup \cup TeamGroup

VARIABLES
    people,        \* users of the directory
    teams,         \* its groups: their members, or NoGroup
    accounts,      \* accounts[l]: "none", "activated" or "deactivated"
    managed,       \* users whose cw_source is this source
    groups,
    in_group,      \* pairs of a user and a group
    before,        \* accounts, managed, groups and in_group when the pull began
    pullStep,      \* idle, users, groups, relations, members, deletion, commit
    found,         \* what the search of users answered
    foundTeams,    \* and that of groups
    imported,      \* users that the importer created or updated
    toFill,        \* groups whose members are left to set
    error,         \* process() raised, and process_urls() caught it
    moves          \* bound: changes so far

directory == <<people, teams>>
copied == <<accounts, managed, groups, in_group>>
ofPull == <<before, pullStep, found, foundTeams, imported, toFill, error>>
ldapVars == <<directory, copied, ofPull, moves>>

NoTeams == [g \in TeamGroup |-> NoGroup]
Listed(t) == {g \in TeamGroup : t[g] # NoGroup}
Snapshot == [accounts |-> accounts, managed |-> managed, groups |-> groups,
             in_group |-> in_group]
NoSnapshot == [accounts |-> [l \in Login |-> "none"], managed |-> {}, groups |-> {},
               in_group |-> {}]

LdapInit ==
    /\ people \in SUBSET Login /\ teams = NoTeams
    /\ accounts = [l \in Login |-> "none"] /\ managed = {}
    /\ groups = LocalGroup /\ in_group = {}
    /\ before = NoSnapshot
    /\ pullStep = "idle"
    /\ found = {} /\ foundTeams = NoTeams /\ imported = {} /\ toFill = {}
    /\ error = FALSE
    /\ moves = 0

--------------------------------------------------------------------------------
(* Outside of the pulls.                                                   *)

Moves == moves < MaxMoves /\ moves' = moves + 1

DirectoryChanges ==
    /\ Moves
    /\ \/ /\ \E l \in Login : people' = (people \ {l}) \cup ({l} \ people)
          /\ UNCHANGED teams
       \/ /\ \E g \in TeamGroup, m \in (SUBSET Login) \cup {NoGroup} :
                teams' = [teams EXCEPT ![g] = m]
          /\ UNCHANGED people
    /\ UNCHANGED <<copied, ofPull>>

ManagerChanges(l) ==
    /\ Moves
    /\ pullStep = "idle"
    /\ \/ /\ accounts[l] # "none"
          /\ \E s \in {"activated", "deactivated"} : accounts' = [accounts EXCEPT ![l] = s]
          /\ UNCHANGED <<managed, in_group>>
       \/ /\ accounts[l] = "none"
          /\ accounts' = [accounts EXCEPT ![l] = "activated"]
          /\ UNCHANGED <<managed, in_group>>
       \/ /\ l \in managed /\ managed' = managed \ {l}
          /\ UNCHANGED <<accounts, in_group>>
       \/ /\ accounts[l] # "none"
          /\ \E g \in groups : in_group' = (in_group \ {<<l, g>>}) \cup ({<<l, g>>} \ in_group)
          /\ UNCHANGED <<accounts, managed>>
    /\ UNCHANGED <<directory, groups, ofPull>>

--------------------------------------------------------------------------------
(* process_urls()                                                          *)

Goes(from, to) == pullStep = from /\ pullStep' = to

BeginPull ==
    /\ Goes("idle", "users")
    /\ before' = Snapshot
    /\ UNCHANGED <<directory, copied, found, foundTeams, imported, toFill, error, moves>>

\* The exception is recorded; what was written is kept.
Caught == pullStep' = "commit" /\ error' = TRUE

\* The importer, for some of the users whose login no other source has.
ImportUsers(some) ==
    /\ accounts' = [l \in Login |-> IF l \in some /\ accounts[l] = "none"
                                    THEN "activated" ELSE accounts[l]]
    /\ managed' = managed \cup some
    /\ imported' = some
    /\ UNCHANGED <<directory, groups, in_group, before, foundTeams, toFill, moves>>

Importable(answer) == {l \in answer : accounts[l] = "none" \/ l \in managed}

\* A search that the directory refuses answers nobody, as one that finds nobody.
SearchUsers ==
    /\ Goes("users", "groups")
    /\ found' \in {people, {}}
    /\ ImportUsers(Importable(found'))
    /\ UNCHANGED error

UsersRaise ==
    /\ pullStep = "users" /\ Caught
    /\ found' = people
    /\ \E some \in SUBSET Importable(found') : ImportUsers(some)

SearchGroups ==
    /\ Goes("groups", "relations")
    /\ foundTeams' \in {teams, NoTeams}
    /\ groups' = groups \cup Listed(foundTeams')
    /\ toFill' = Listed(foundTeams')
    /\ UNCHANGED <<directory, accounts, managed, in_group, before, found, imported, error,
                   moves>>

GroupsRaise ==
    /\ pullStep = "groups" /\ Caught
    /\ foundTeams' = teams
    /\ \E some \in SUBSET Listed(teams) : groups' = groups \cup some
    /\ UNCHANGED <<directory, accounts, managed, in_group, before, found, imported, toFill,
                   moves>>

\* The default groups, looked for once, before the import.
DefaultRelations ==
    /\ Goes("relations", "members")
    /\ in_group' = in_group \cup (imported \X (DefaultGroup \cap before.groups))
    /\ UNCHANGED <<directory, accounts, managed, groups, before, found, foundTeams, imported,
                   toFill, error, moves>>

Emptied(g) == {x \in in_group : x[2] # g}

SetMembers(g) ==
    /\ pullStep = "members" /\ g \in toFill
    /\ in_group' = Emptied(g) \cup {<<l, g>> : l \in {l \in foundTeams[g] : accounts[l] # "none"}}
    /\ toFill' = toFill \ {g}
    /\ UNCHANGED <<directory, accounts, managed, groups, before, pullStep, found, foundTeams,
                   imported, error, moves>>

\* The query that sets them is built from what the directory holds, and fails.
MembersRaise(g) ==
    /\ pullStep = "members" /\ g \in toFill /\ Caught
    /\ in_group' = Emptied(g)
    /\ UNCHANGED <<directory, accounts, managed, groups, before, found, foundTeams, imported,
                   toFill, moves>>

ChangeStates(s, some) ==
    /\ accounts' = [l \in Login |-> IF l \in some THEN s ELSE accounts[l]]
    /\ UNCHANGED <<directory, managed, groups, in_group, before, found, foundTeams, imported,
                   toFill, error, moves>>

\* Those who were there when the pull began, updated since.
ensure_activated ==
    /\ toFill = {}
    /\ Goes("members", "deletion")
    /\ ChangeStates("activated", imported \cap before.managed)

\* Mutant: whoever is not in the answer, users of other sources with them.
handle_deletion_Everybody ==
    /\ Goes("deletion", "commit")
    /\ ChangeStates("deactivated", {l \in Login \ found : accounts[l] = "activated"})

handle_deletion ==
    /\ Goes("deletion", "commit")
    /\ ChangeStates("deactivated", {l \in before.managed \ found : accounts[l] = "activated"})

EndsPull ==
    /\ pullStep' = "idle"
    /\ found' = {} /\ foundTeams' = NoTeams /\ imported' = {} /\ toFill' = {}
    /\ before' = NoSnapshot
    /\ error' = FALSE
    /\ UNCHANGED <<directory, moves>>

CommitPull == pullStep = "commit" /\ EndsPull /\ UNCHANGED copied

\* An error that process_urls() does not catch, or that the database does not survive.
AbandonPull ==
    /\ pullStep # "idle" /\ EndsPull
    /\ accounts' = before.accounts /\ managed' = before.managed
    /\ groups' = before.groups /\ in_group' = before.in_group

LdapNext ==
    \/ DirectoryChanges
    \/ \E l \in Login : ManagerChanges(l)
    \/ BeginPull
    \/ SearchUsers \/ UsersRaise
    \/ SearchGroups \/ GroupsRaise
    \/ DefaultRelations
    \/ \E g \in TeamGroup : SetMembers(g) \/ MembersRaise(g)
    \/ ensure_activated
    \/ handle_deletion
    \/ CommitPull \/ AbandonPull

LdapSpec == LdapInit /\ [][LdapNext]_ldapVars

--------------------------------------------------------------------------------

\* datafeed.py:214, "some error occurred, don't attempt to delete entities": a pull that
\* reports an error deactivates nobody.  The others leave activated the users of the
\* source that the search has found and only them, in the groups that list them and the
\* default groups that the directory does not list, and the users of other sources as
\* they were.
DirectoryFollowed ==
    pullStep = "commit" =>
        /\ \A l \in Login \ managed : accounts[l] = before.accounts[l]
        /\ error => \A l \in Login :
              before.accounts[l] = "activated" => accounts[l] = "activated"
        /\ ~error =>
              /\ \A l \in managed : accounts[l] = "activated" <=> l \in found
              /\ \A l \in found : accounts[l] # "none"
              /\ \A l \in Login, g \in Listed(foundTeams) :
                    <<l, g>> \in in_group <=> l \in foundTeams[g] /\ accounts[l] # "none"
              /\ \A g \in (DefaultGroup \cap before.groups) \ Listed(foundTeams) :
                    \A l \in found \cap managed : <<l, g>> \in in_group
================================================================================
