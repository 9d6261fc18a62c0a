---------------------------- MODULE Permissions ----------------------------
(***************************************************************************)
(* The groups users are put in, and the permissions of commands that name  *)
(* them (datastore/shared.cpp, misc/perms.cpp, and the users of            *)
(* backends/twitch/message.cpp), over a restart.                           *)
(*                                                                         *)
(* A user has an account in each channel that saw him.  Messages arrive on *)
(* one thread, and a console session runs commands in the same channels on *)
(* another.  What follows an undefined operation is not modelled.          *)
(***************************************************************************)
EXTENDS Naturals, Functions, PermissionSets

CONSTANTS Channels, Users, Names,   \* Names: what a group may be called
          Commands,                 \* whose permissions are changed
          MaxOperations             \* bound on the steps of a behaviour

Accounts == Channels \X Users
Threads == {"rx_worker", "console"}

VARIABLES groups,     \* name -> id and members, of the groups there are
          groupIds,   \* id -> name
          knownUsers, \* account -> its group ids, of the accounts there are
          usernames,  \* the accounts usernameMapping finds; never saved
          perms,      \* command -> permission set
          usermod,    \* what each thread is about to do to whom
          granted,    \* history: the groups each account was put in, by name
          disk,       \* what the database file holds
          undefined,  \* an operation had no defined result
          operations  \* how many steps there were

data == <<groups, groupIds, knownUsers, usernames, perms, usermod, granted, disk, undefined>>
vars == <<data, operations>>

NoUsermod == [items |-> <<>>]

Stored == [groups |-> groups, knownUsers |-> knownUsers, perms |-> perms, granted |-> granted]

Init ==
  /\ groups = <<>> /\ groupIds = <<>> /\ knownUsers = <<>> /\ usernames = {}
  /\ perms = [c \in Commands |-> fromFlags({"OWNER"})]
  /\ usermod = [t \in Threads |-> NoUsermod]
  /\ granted = [a \in Accounts |-> {}]
  /\ disk = Stored
  /\ undefined = FALSE /\ operations = 0

\* map[key] = value
Put(map, key, value) ==
  [k \in {key} \cup DOMAIN map |-> IF k = key THEN value ELSE map[k]]

-----------------------------------------------------------------------------
(* Groups *)

addGroup(n) ==
  /\ n \notin DOMAIN groups
  /\ LET id == Cardinality(DOMAIN groups)
     IN /\ groups' = Put(groups, n, [id |-> id, members |-> {}])
        /\ groupIds' = Put(groupIds, id, n)
  /\ UNCHANGED <<knownUsers, usernames, perms, usermod, granted, disk, undefined>>

\* Mutant: the group that was found is removed.
removeGroupFound(n) ==
  /\ n \in DOMAIN groups
  /\ groups' = Restrict(groups, DOMAIN groups \ {n})
  /\ groupIds' = Restrict(groupIds, DOMAIN groupIds \ {groups[n].id})
  /\ UNCHANGED <<knownUsers, usernames, perms, usermod, granted, disk, undefined>>

\* A group that is there stays, and its absence is reported; one that is not
\* there is looked at and erased through the end iterator.
removeGroup(n) ==
  /\ n \notin DOMAIN groups /\ undefined' = TRUE
  /\ UNCHANGED <<groups, groupIds, knownUsers, usernames, perms, usermod, granted, disk>>

-----------------------------------------------------------------------------
(* Users *)

\* update_user_creds: a message of a user.  An insertion may move the table a
\* console's usermod points into.
MessageFrom(a) ==
  /\ usermod["rx_worker"] = NoUsermod
  /\ a \notin usernames
  /\ usernames' = usernames \cup {a}
  /\ IF a \in DOMAIN knownUsers
     THEN UNCHANGED <<knownUsers, usermod>>
     ELSE /\ knownUsers' = Put(knownUsers, a, {})
          /\ \/ UNCHANGED usermod
             \/ /\ usermod["console"].items # <<>>
                /\ usermod["console"].account[1] = a[1]
                /\ usermod' = [usermod EXCEPT !["console"].moved = TRUE]
  /\ UNCHANGED <<groups, groupIds, perms, granted, disk, undefined>>

Item(mode, n) == [mode |-> mode, id |-> groups[n].id, name |-> n]
Items == {Item(m, n) : m \in {"+", "-"}, n \in DOMAIN groups}

\* updateUserPermissions up to get_user_from_db: the groups are looked up, then
\* the user, and a pointer to him leaves the lock.
Usermod(t, a, items) ==
  /\ usermod[t] = NoUsermod /\ a \in usernames
  /\ usermod' = [usermod EXCEPT ![t] = [items |-> items, account |-> a, moved |-> FALSE]]
  /\ UNCHANGED <<groups, groupIds, knownUsers, usernames, perms, granted, disk, undefined>>

\* Group::addUser, Group::removeUser: a member is a user of a backend.
Member(g, user, add, remove) ==
  [g EXCEPT !.members = IF g.id \in add THEN @ \cup {user}
                        ELSE IF g.id \in remove THEN @ \ {user} ELSE @]

NamesOf(items, mode) == {items[i].name : i \in {j \in DOMAIN items : items[j].mode = mode}}

\* update_user_groups, under the lock again.
UpdateUserGroups(t) ==
  LET u == usermod[t]
      ps == parseGroups(u.items, NoPermissions)
  IN /\ u # NoUsermod /\ usermod' = [usermod EXCEPT ![t] = NoUsermod]
     /\ IF u.moved
        THEN undefined' = TRUE /\ UNCHANGED <<groups, knownUsers, granted>>
        ELSE /\ knownUsers' = [knownUsers EXCEPT ![u.account] =
                                 (@ \cup ps.whitelist) \ ps.blacklist]
             /\ groups' = [n \in DOMAIN groups |->
                             Member(groups[n], u.account[2], ps.whitelist, ps.blacklist)]
             /\ granted' = [granted EXCEPT ![u.account] =
                              (@ \cup NamesOf(u.items, "+")) \ NamesOf(u.items, "-")]
             /\ UNCHANGED undefined
     /\ UNCHANGED <<groupIds, usernames, perms, disk>>

-----------------------------------------------------------------------------
(* chmod, saving and restarting *)

\* chmod with "+" and one group: its flags stay.
Chmod(c, item) ==
  /\ perms' = [perms EXCEPT ![c] = parse({}, TRUE, <<item>>, @)]
  /\ UNCHANGED <<groups, groupIds, knownUsers, usernames, usermod, granted, disk, undefined>>

Save == /\ disk' = Stored
        /\ UNCHANGED <<groups, groupIds, knownUsers, usernames, perms, usermod, granted, undefined>>

\* SharedDB::deserialise makes groupIds anew; usernameMapping starts empty.
Restart ==
  /\ groups' = disk.groups
  /\ groupIds' = [id \in {g.id : g \in Range(disk.groups)} |->
                    CHOOSE n \in DOMAIN disk.groups : disk.groups[n].id = id]
  /\ knownUsers' = disk.knownUsers /\ perms' = disk.perms /\ granted' = disk.granted
  /\ usernames' = {}
  /\ usermod' = [t \in Threads |-> NoUsermod]
  /\ UNCHANGED <<disk, undefined>>

Next ==
  /\ ~undefined /\ operations < MaxOperations /\ operations' = operations + 1
  /\ \/ \E n \in Names : addGroup(n) \/ removeGroup(n)
     \/ \E a \in Accounts : MessageFrom(a)
     \/ \E t \in Threads, a \in Accounts, i \in Items : Usermod(t, a, <<i>>)
     \/ \E t \in Threads : UpdateUserGroups(t)
     \/ \E c \in Commands, i \in Items : Chmod(c, i)
     \/ Save
     \/ Restart

Spec == Init /\ [][Next]_vars

-----------------------------------------------------------------------------
TypeOK ==
  /\ DOMAIN groups \subseteq Names
  /\ \A n \in DOMAIN groups : groups[n].id \in Nat /\ groups[n].members \subseteq Users
  /\ Range(groupIds) \subseteq Names
  /\ DOMAIN knownUsers \subseteq Accounts /\ usernames \subseteq DOMAIN knownUsers
  /\ undefined \in BOOLEAN

IdOf(n) == groups[n].id

\* Each id means one group, the one it was granted for, over groups that come
\* and usermods in several channels and threads, and over restarts: the ids of
\* an account are the groups it was put in, whoever a group lists has an account
\* with it, and no group is on both lists of a command.
GrantsMeanTheirGroup ==
  /\ \A n \in DOMAIN groups : groupIds[IdOf(n)] = n
  /\ \A a \in DOMAIN knownUsers : knownUsers[a] = {IdOf(n) : n \in granted[a]}
  /\ \A n \in DOMAIN groups : \A u \in groups[n].members :
       \E a \in DOMAIN knownUsers : a[2] = u /\ IdOf(n) \in knownUsers[a]
  /\ \A c \in Commands : perms[c].whitelist \cap perms[c].blacklist = {}
=============================================================================
