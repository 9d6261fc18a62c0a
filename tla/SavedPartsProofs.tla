-------------------------- MODULE SavedPartsProofs --------------------------
(***************************************************************************)
(* The small parts about what is saved: the groups and permissions of the  *)
(* users, and the buffer that a save is written into.  Each id means the   *)
(* group it was granted for, and every write fits.                         *)
(***************************************************************************)
EXTENDS SmallParts, FiniteSetTheorems, TLAPS

-----------------------------------------------------------------------------
(* Permissions *)

\* What is saved, and what is in memory: groups g, accounts k, permissions p, and who
\* was put where, gr.  Ids are given out one after the other: no two are the same.
Ids(g) == \A n \in DOMAIN g : /\ g[n].id \in Nat /\ g[n].id < Cardinality(DOMAIN g)
                              /\ \A m \in DOMAIN g : g[m].id = g[n].id => m = n

\* There are finitely many groups, and an account that is not there is in none.
GroupTypes(g) == /\ IsFiniteSet(DOMAIN g) /\ g = [n \in DOMAIN g |-> g[n]]
                 /\ \A n \in DOMAIN g : g[n] = [id |-> g[n].id, members |-> g[n].members]
AccountTypes(g, k, gr) ==
  /\ DOMAIN k \subseteq Perms!Accounts /\ k = [a \in DOMAIN k |-> k[a]]
  /\ gr \in [Perms!Accounts -> SUBSET DOMAIN g]
  /\ \A a \in Perms!Accounts : a \notin DOMAIN k => gr[a] = {}

\* The ids of an account are the groups it was put in, a member has an account that
\* says so, and no list has what the other list has.
Granted(g, k, gr) == \A a \in DOMAIN k : k[a] = {g[n].id : n \in gr[a]}
Members(g, k) == \A n \in DOMAIN g : \A u \in g[n].members :
                   \E a \in DOMAIN k : a[2] = u /\ g[n].id \in k[a]
Sets == [flags : SUBSET {"OWNER"}, whitelist : SUBSET Nat, blacklist : SUBSET Nat]
Lists(p) == /\ p \in [Restricted -> Sets]
            /\ \A c \in Restricted : p[c].whitelist \cap p[c].blacklist = {}

\* All of that at once: of memory and of what the disk holds, which a restart reads.
Consistent(g, k, p, gr) ==
  /\ GroupTypes(g) /\ Ids(g) /\ AccountTypes(g, k, gr)
  /\ Granted(g, k, gr) /\ Members(g, k) /\ Lists(p)

\* A usermod that is under way is of groups and of an account that there are.
Underway ==
  /\ DOMAIN usermod = Perms!Threads
  /\ \A t \in Perms!Threads :
       usermod[t] # Perms!NoUsermod =>
         /\ DOMAIN usermod[t] = {"items", "account", "moved"}
         /\ usermod[t].account \in usernames
         /\ \E i \in Perms!Items : usermod[t].items = <<i>>

\* The inductive invariant: groupIds is the inverse of the ids.
PermissionsInv ==
  /\ Consistent(groups, knownUsers, perms, granted)
  /\ \E g, k, p, gr : /\ disk = [groups |-> g, knownUsers |-> k, perms |-> p, granted |-> gr]
                      /\ Consistent(g, k, p, gr)
  /\ groupIds = [id \in DOMAIN groupIds |-> groupIds[id]]
  /\ \A n \in DOMAIN groups : groups[n].id \in DOMAIN groupIds /\ groupIds[groups[n].id] = n
  /\ usernames \subseteq DOMAIN knownUsers
  /\ Underway

\* The size of a set, as Permissions has it.
LEMMA SameSize == \A X : Perms!Cardinality(X) = Cardinality(X)
  BY DEF Perms!Cardinality, Cardinality

\* The fold of parseGroups over one item, as chmod and usermod make it in the model,
\* is one step of it.
LEMMA ParseOne ==
  ASSUME NEW item, NEW p
  PROVE  Perms!parseGroups(<<item>>, p) = Perms!foozle(p, item)
<1> DEFINE D == DOMAIN <<item>>
           F(s, g) == IF s = {} THEN p
                      ELSE Perms!foozle(g[s \ {Perms!Max(s)}], <<item>>[Perms!Max(s)])
           iter == CHOOSE g : g = [s \in SUBSET D |-> F(s, g)]
           h == [s \in SUBSET D |-> IF s = {} THEN p
                      ELSE Perms!foozle(p, item)]
<1>1. D = {1} /\ <<item>>[1] = item /\ \A s \in SUBSET D : s = {} \/ s = {1}
  <2>1. D = {1} /\ <<item>>[1] = item
    OBVIOUS
  <2> HIDE DEF D
  <2> QED
    BY <2>1
<1>2. Perms!parseGroups(<<item>>, p) = iter[D]
  BY DEF Perms!parseGroups, Perms!FoldLeft, Perms!MapThenFoldSet
<1> HIDE DEF D
<1>3. Perms!Max({1}) = 1
  BY DEF Perms!Max
<1>4. ASSUME NEW s \in SUBSET D PROVE h[s] = F(s, h)
  <2>1. CASE s = {}
    BY <2>1
  <2>2. CASE s = {1}
    <3>1. s \ {1} = {} /\ s \ {1} \in SUBSET D /\ s # {}
      BY <2>2
    <3>2. h[s \ {1}] = p
      BY <3>1
    <3> QED
      BY <1>1, <1>3, <2>2, <3>1, <3>2
  <2> QED
    BY <1>1, <2>1, <2>2
<1>5. h = [s \in SUBSET D |-> F(s, h)]
  BY <1>4
<1>6. iter = [s \in SUBSET D |-> F(s, iter)]
  <2> HIDE DEF F, h
  <2> QED
    BY <1>5
<1>7. {} \in SUBSET D /\ {1} \in SUBSET D
  BY <1>1
<1> HIDE DEF iter
<1>8. iter[{}] = p
  BY <1>6, <1>7
<1>9. iter[{1}] = Perms!foozle(iter[{}], item)
  <2>1. iter[{1}] = F({1}, iter)
    <3> HIDE DEF F
    <3> QED
      BY <1>6, <1>7
  <2>2. {1} \ {1} = {} /\ {1} # {}
    OBVIOUS
  <2> QED
    BY <1>1, <1>3, <2>1, <2>2
<1> QED
  BY <1>1, <1>2, <1>8, <1>9


\* There are no groups and no accounts at first.
LEMMA PermissionsInit == Perms!Init => PermissionsInv
<1> SUFFICES ASSUME Perms!Init PROVE PermissionsInv
  OBVIOUS
<1>1. /\ groups = <<>> /\ groupIds = <<>> /\ knownUsers = <<>> /\ usernames = {}
      /\ granted = [a \in Perms!Accounts |-> {}] /\ DOMAIN <<>> = {}
      /\ perms = [c \in Restricted |-> [flags |-> {"OWNER"}, whitelist |-> {}, blacklist |-> {}]]
  <2>1. DOMAIN <<>> = {}
    OBVIOUS
  <2>2. Perms!fromFlags({"OWNER"}) = [flags |-> {"OWNER"}, whitelist |-> {}, blacklist |-> {}]
    BY DEF Perms!fromFlags, Perms!NoPermissions
  <2> QED
    BY <2>1, <2>2 DEF Perms!Init
<1>2. GroupTypes(groups) /\ Ids(groups)
  BY <1>1, FS_EmptySet DEF GroupTypes, Ids
<1>3. AccountTypes(groups, knownUsers, granted)
  BY <1>1 DEF AccountTypes
<1>4. Granted(groups, knownUsers, granted) /\ Members(groups, knownUsers)
  BY <1>1 DEF Granted, Members
<1>5. Lists(perms)
  BY <1>1 DEF Lists, Sets
<1>6. Consistent(groups, knownUsers, perms, granted)
  BY <1>2, <1>3, <1>4, <1>5 DEF Consistent
<1>7. Underway
  BY DEF Perms!Init, Underway
<1>8. disk = [groups |-> groups, knownUsers |-> knownUsers, perms |-> perms, granted |-> granted]
  BY DEF Perms!Init, Perms!Stored
<1>9. /\ groupIds = [id \in DOMAIN groupIds |-> groupIds[id]]
      /\ \A n \in DOMAIN groups : /\ groups[n].id \in DOMAIN groupIds
                                 /\ groupIds[groups[n].id] = n
  BY <1>1
<1> QED
  BY <1>1, <1>6, <1>7, <1>8, <1>9 DEF PermissionsInv

\* What is under way stays possible when there are more groups and names.
LEMMA StillUnderway ==
  ASSUME Underway, UNCHANGED usermod, usernames \subseteq usernames',
         \A n \in DOMAIN groups : n \in DOMAIN groups' /\ groups'[n].id = groups[n].id
  PROVE  Underway'
<1>1. Perms!Items \subseteq Perms!Items'
  BY DEF Perms!Items, Perms!Item
<1> QED
  BY <1>1 DEF Underway

\* The number of the groups is an id that none has.
LEMMA AddGroupStep == ASSUME PermissionsInv, NEW n, Perms!addGroup(n) PROVE PermissionsInv'
<1> DEFINE N == DOMAIN groups
           id == Cardinality(N)
<1>0. Perms!Cardinality(DOMAIN groups) = id
  BY SameSize
<1>1. /\ n \notin N /\ DOMAIN groups' = N \cup {n}
      /\ groups'[n] = [id |-> id, members |-> {}]
      /\ \A m \in N : groups'[m] = groups[m]
      /\ groups' = [m \in DOMAIN groups' |-> groups'[m]]
  BY <1>0 DEF Perms!addGroup, Perms!Put
<1>2. /\ DOMAIN groupIds' = {id} \cup DOMAIN groupIds /\ groupIds'[id] = n
      /\ \A i \in DOMAIN groupIds : i # id => groupIds'[i] = groupIds[i]
      /\ groupIds' = [i \in DOMAIN groupIds' |-> groupIds'[i]]
  BY <1>0 DEF Perms!addGroup, Perms!Put
<1>3. /\ UNCHANGED <<knownUsers, usernames, perms, usermod, granted, disk>>
  BY DEF Perms!addGroup
<1>4. GroupTypes(groups) /\ Ids(groups) /\ AccountTypes(groups, knownUsers, granted)
  BY DEF PermissionsInv, Consistent
<1>5. id \in Nat /\ IsFiniteSet(N) /\ IsFiniteSet(N \cup {n}) /\ Cardinality(N \cup {n}) = id + 1
  BY <1>1, <1>4, FS_CardinalityType, FS_AddElement DEF GroupTypes
<1> HIDE DEF N, id
<1>6. \A m \in N : groups[m].id \in Nat /\ groups[m].id < id
  BY <1>4 DEF Ids, N, id
<1>7. GroupTypes(groups')
  BY <1>1, <1>4, <1>5 DEF GroupTypes, N
<1>8. Ids(groups')
  <2>1. ASSUME NEW m \in N PROVE groups'[m].id \in Nat /\ groups'[m].id < id
    BY <1>1, <1>6
  <2>2. groups'[n].id = id
    BY <1>1
  <2>3. ASSUME NEW m \in N, NEW o \in N, groups'[m].id = groups'[o].id PROVE m = o
    BY <1>1, <1>4, <2>3 DEF Ids, N
  <2> QED
    BY <1>1, <1>5, <2>1, <2>2, <2>3 DEF Ids
<1>9. AccountTypes(groups', knownUsers', granted')
  BY <1>1, <1>3, <1>4 DEF AccountTypes, N
<1>10. Granted(groups', knownUsers', granted')
  <2>1. ASSUME NEW a \in DOMAIN knownUsers
        PROVE  knownUsers[a] = {groups'[m].id : m \in granted[a]}
    <3>1. a \in Perms!Accounts /\ granted[a] \subseteq N
      BY <1>4 DEF AccountTypes, N
    <3>2. knownUsers[a] = {groups[m].id : m \in granted[a]}
      BY DEF PermissionsInv, Consistent, Granted
    <3> QED
      BY <1>1, <3>1, <3>2
  <2> QED
    BY <1>3, <2>1 DEF Granted
<1>11. Members(groups', knownUsers')
  BY <1>1, <1>3 DEF PermissionsInv, Consistent, Members, N
<1>12. Consistent(groups', knownUsers', perms', granted')
  BY <1>3, <1>7, <1>8, <1>9, <1>10, <1>11 DEF PermissionsInv, Consistent
<1>13. \A m \in DOMAIN groups' : /\ groups'[m].id \in DOMAIN groupIds'
                                 /\ groupIds'[groups'[m].id] = m
  BY <1>1, <1>2, <1>6 DEF PermissionsInv, N
<1>14. Underway'
  BY <1>1, <1>3, StillUnderway DEF PermissionsInv, N
<1> QED
  BY <1>2, <1>3, <1>12, <1>13, <1>14 DEF PermissionsInv

\* A new account has no ids and was put in no group.
LEMMA MessageStep ==
  ASSUME PermissionsInv, NEW a \in Perms!Accounts, Perms!MessageFrom(a)
  PROVE  PermissionsInv'
<1>1. /\ UNCHANGED <<groups, groupIds, perms, granted, disk>>
      /\ usernames' = usernames \cup {a}
  BY DEF Perms!MessageFrom
<1>2. AccountTypes(groups, knownUsers, granted)
  BY DEF PermissionsInv, Consistent
<1>3. a \in DOMAIN knownUsers' /\ DOMAIN knownUsers \subseteq DOMAIN knownUsers'
  BY DEF Perms!MessageFrom, Perms!Put
<1>4. Underway'
  <2>1. UNCHANGED usermod \/ usermod' = [usermod EXCEPT !["console"].moved = TRUE]
    BY DEF Perms!MessageFrom
  <2>2. CASE UNCHANGED usermod
    BY <1>1, <2>2, StillUnderway DEF PermissionsInv
  <2>3. CASE /\ usermod["console"].items # <<>>
             /\ usermod' = [usermod EXCEPT !["console"].moved = TRUE]
    <3>1. usermod["console"] # Perms!NoUsermod /\ "console" \in Perms!Threads
      BY <2>3 DEF Perms!NoUsermod, Perms!Threads
    <3>2. /\ DOMAIN usermod["console"] = {"items", "account", "moved"}
          /\ usermod["console"].account \in usernames
          /\ \E i \in Perms!Items : usermod["console"].items = <<i>>
          /\ "console" \in DOMAIN usermod
      BY <3>1 DEF PermissionsInv, Underway
    <3>3. /\ DOMAIN usermod'["console"] = DOMAIN usermod["console"]
          /\ usermod'["console"].account = usermod["console"].account
          /\ usermod'["console"].items = usermod["console"].items
      <4>1. usermod'["console"] = [usermod["console"] EXCEPT !.moved = TRUE]
        BY <2>3, <3>2
      <4> QED
        BY <3>2, <4>1
    <3>4. Perms!Items' = Perms!Items
      BY <1>1 DEF Perms!Items, Perms!Item
    <3>5. \A t \in Perms!Threads : t # "console" => usermod'[t] = usermod[t]
      BY <2>3 DEF PermissionsInv, Underway
    <3>6. DOMAIN usermod' = Perms!Threads
      BY <2>3 DEF PermissionsInv, Underway
    <3> QED
      <4>1. ASSUME NEW t \in Perms!Threads, usermod'[t] # Perms!NoUsermod
            PROVE  /\ DOMAIN usermod'[t] = {"items", "account", "moved"}
                   /\ usermod'[t].account \in usernames'
                   /\ \E j \in Perms!Items' : usermod'[t].items = <<j>>
        <5>1. CASE t = "console"
          BY <1>1, <3>2, <3>3, <3>4, <5>1
        <5>2. CASE t # "console"
          BY <1>1, <3>4, <3>5, <4>1, <5>2 DEF PermissionsInv, Underway
        <5> QED
          BY <5>1, <5>2
      <4>2. Perms!NoUsermod' = Perms!NoUsermod
        BY DEF Perms!NoUsermod
      <4> QED
        BY <3>6, <4>1, <4>2 DEF Underway
  <2> QED
    BY <2>2, <2>3 DEF Perms!MessageFrom
<1>5. CASE a \in DOMAIN knownUsers
  <2>1. UNCHANGED knownUsers
    BY <1>5 DEF Perms!MessageFrom
  <2> QED
    BY <1>1, <1>4, <1>5, <2>1 DEF PermissionsInv
<1>6. CASE a \notin DOMAIN knownUsers
  <2>1. /\ DOMAIN knownUsers' = {a} \cup DOMAIN knownUsers /\ knownUsers'[a] = {}
        /\ \A b \in DOMAIN knownUsers : knownUsers'[b] = knownUsers[b]
        /\ knownUsers' = [b \in DOMAIN knownUsers' |-> knownUsers'[b]]
    BY <1>6 DEF Perms!MessageFrom, Perms!Put
  <2>2. AccountTypes(groups, knownUsers', granted)
    BY <1>2, <2>1 DEF AccountTypes
  <2>3. Granted(groups, knownUsers', granted)
    <3>1. granted[a] = {}
      BY <1>2, <1>6 DEF AccountTypes
    <3>2. {groups[m].id : m \in granted[a]} = {}
      BY <3>1
    <3> QED
      BY <2>1, <3>2 DEF PermissionsInv, Consistent, Granted
  <2>4. Members(groups, knownUsers')
    BY <2>1 DEF PermissionsInv, Consistent, Members
  <2>5. Consistent(groups, knownUsers', perms, granted)
    BY <2>2, <2>3, <2>4 DEF PermissionsInv, Consistent
  <2> QED
    BY <1>1, <1>3, <1>4, <2>5 DEF PermissionsInv
<1> QED
  BY <1>5, <1>6

\* The groups and the account are there when a usermod begins.
LEMMA UsermodStep ==
  ASSUME PermissionsInv, NEW t \in Perms!Threads, NEW a, NEW i \in Perms!Items,
         Perms!Usermod(t, a, <<i>>)
  PROVE  PermissionsInv'
<1>1. UNCHANGED <<groups, groupIds, knownUsers, usernames, perms, granted, disk>>
  BY DEF Perms!Usermod
<1>2. Perms!Items' = Perms!Items
  BY <1>1 DEF Perms!Items, Perms!Item
<1>3. Underway'
  <2>1. DOMAIN usermod = Perms!Threads
    BY DEF PermissionsInv, Underway
  <2>2. /\ DOMAIN usermod' = Perms!Threads /\ a \in usernames
        /\ usermod'[t] = [items |-> <<i>>, account |-> a, moved |-> FALSE]
        /\ \A s \in Perms!Threads : s # t => usermod'[s] = usermod[s]
    BY <2>1 DEF Perms!Usermod
  <2>3. ASSUME NEW s \in Perms!Threads, usermod'[s] # Perms!NoUsermod
        PROVE  /\ DOMAIN usermod'[s] = {"items", "account", "moved"}
               /\ usermod'[s].account \in usernames
               /\ \E j \in Perms!Items : usermod'[s].items = <<j>>
    <3>1. CASE s = t
      BY <2>2, <3>1
    <3>2. CASE s # t
      BY <2>2, <2>3, <3>2 DEF PermissionsInv, Underway
    <3> QED
      BY <3>1, <3>2
  <2> QED
    BY <1>1, <1>2, <2>2, <2>3 DEF Underway, Perms!NoUsermod
<1> QED
  BY <1>1, <1>3 DEF PermissionsInv

\* One item moves its id to one of the two lists.
LEMMA OneItem ==
  ASSUME NEW i \in Perms!Items, NEW p
  PROVE  \E n \in DOMAIN groups :
           /\ i.id = groups[n].id /\ i.name = n /\ i.mode \in {"+", "-"}
           /\ Perms!parseGroups(<<i>>, p) =
                IF i.mode = "+"
                THEN [p EXCEPT !.whitelist = @ \cup {i.id}, !.blacklist = @ \ {i.id}]
                ELSE [p EXCEPT !.blacklist = @ \cup {i.id}, !.whitelist = @ \ {i.id}]
<1>1. PICK n \in DOMAIN groups, m \in {"+", "-"} : i = [mode |-> m, id |-> groups[n].id, name |-> n]
  BY DEF Perms!Items, Perms!Item
<1>2. Perms!parseGroups(<<i>>, p) = Perms!foozle(p, i)
  BY ParseOne
<1>3. i.mode = m /\ i.id = groups[n].id /\ i.name = n
  BY <1>1
<1> QED
  BY <1>2, <1>3 DEF Perms!foozle

\* What chmod adds to one list it removes from the other.
LEMMA ChmodStep ==
  ASSUME PermissionsInv, NEW c \in Restricted, NEW i \in Perms!Items, Perms!Chmod(c, i)
  PROVE  PermissionsInv'
<1> DEFINE p == [perms[c] EXCEPT !.flags = {} \cup @]
<1>1. UNCHANGED <<groups, groupIds, knownUsers, usernames, usermod, granted, disk>>
  BY DEF Perms!Chmod
<1>2. Lists(perms) /\ Ids(groups)
  BY DEF PermissionsInv, Consistent
<1>3. p = perms[c] /\ perms[c] \in Sets
  BY <1>2 DEF Lists, Sets
<1>4. perms' = [perms EXCEPT ![c] = Perms!parseGroups(<<i>>, p)]
  BY DEF Perms!Chmod, Perms!parse
<1> HIDE DEF p
<1>5. PICK n \in DOMAIN groups :
           /\ i.id = groups[n].id /\ i.name = n /\ i.mode \in {"+", "-"}
           /\ Perms!parseGroups(<<i>>, p) =
                IF i.mode = "+"
                THEN [p EXCEPT !.whitelist = @ \cup {i.id}, !.blacklist = @ \ {i.id}]
                ELSE [p EXCEPT !.blacklist = @ \cup {i.id}, !.whitelist = @ \ {i.id}]
  BY OneItem
<1>6. i.id \in Nat
  BY <1>2, <1>5 DEF Ids
<1>7. /\ Perms!parseGroups(<<i>>, p) \in Sets
      /\ Perms!parseGroups(<<i>>, p).whitelist \cap Perms!parseGroups(<<i>>, p).blacklist = {}
  <2> DEFINE w == perms[c].whitelist
             b == perms[c].blacklist
             q == Perms!parseGroups(<<i>>, p)
  <2>1. w \cap b = {} /\ w \subseteq Nat /\ b \subseteq Nat
    BY <1>2, <1>3 DEF Lists, Sets
  <2>2. \/ q = [p EXCEPT !.whitelist = w \cup {i.id}, !.blacklist = b \ {i.id}]
        \/ q = [p EXCEPT !.blacklist = b \cup {i.id}, !.whitelist = w \ {i.id}]
    BY <1>3, <1>5
  <2>3. /\ q \in Sets
        /\ \/ q.whitelist = w \cup {i.id} /\ q.blacklist = b \ {i.id}
           \/ q.blacklist = b \cup {i.id} /\ q.whitelist = w \ {i.id}
    <3>1. p \in Sets
      BY <1>3
    <3> HIDE DEF w, b, q
    <3>2. CASE q = [p EXCEPT !.whitelist = w \cup {i.id}, !.blacklist = b \ {i.id}]
      <4>1. q.whitelist = w \cup {i.id} /\ q.blacklist = b \ {i.id} /\ q.flags = p.flags
        BY <3>1, <3>2 DEF Sets
      <4>2. q = [flags |-> p.flags, whitelist |-> w \cup {i.id}, blacklist |-> b \ {i.id}]
        BY <3>1, <3>2 DEF Sets
      <4> QED
        BY <1>6, <2>1, <3>1, <4>1, <4>2 DEF Sets
    <3>3. CASE q = [p EXCEPT !.blacklist = b \cup {i.id}, !.whitelist = w \ {i.id}]
      <4>1. q.blacklist = b \cup {i.id} /\ q.whitelist = w \ {i.id} /\ q.flags = p.flags
        BY <3>1, <3>3 DEF Sets
      <4>2. q = [flags |-> p.flags, whitelist |-> w \ {i.id}, blacklist |-> b \cup {i.id}]
        BY <3>1, <3>3 DEF Sets
      <4> QED
        BY <1>6, <2>1, <3>1, <4>1, <4>2 DEF Sets
    <3> QED
      BY <2>2, <3>2, <3>3
  <2> QED
    BY <2>1, <2>3
<1>8. Lists(perms')
  <2> DEFINE q == Perms!parseGroups(<<i>>, p)
  <2> HIDE DEF q
  <2> QED
    BY <1>2, <1>4, <1>7 DEF Lists, Sets, q
<1>9. Consistent(groups, knownUsers, perms', granted)
  BY <1>8 DEF PermissionsInv, Consistent
<1>10. Underway'
  BY <1>1, StillUnderway DEF PermissionsInv
<1> QED
  BY <1>1, <1>9, <1>10 DEF PermissionsInv

\* What was consistent when it was saved is consistent when it is read.
LEMMA RestartStep == ASSUME PermissionsInv, Perms!Save \/ Perms!Restart PROVE PermissionsInv'
<1>1. CASE Perms!Save
  <2>1. UNCHANGED <<groups, groupIds, knownUsers, usernames, perms, usermod, granted>>
    BY <1>1 DEF Perms!Save
  <2>2. disk' = [groups |-> groups, knownUsers |-> knownUsers, perms |-> perms, granted |-> granted]
    BY <1>1 DEF Perms!Save, Perms!Stored
  <2>3. Underway'
    BY <2>1, StillUnderway DEF PermissionsInv
  <2> QED
    BY <2>1, <2>2, <2>3 DEF PermissionsInv
<1>2. CASE Perms!Restart
  <2>1. PICK g, k, p, gr : /\ disk = [groups |-> g, knownUsers |-> k, perms |-> p, granted |-> gr]
                           /\ Consistent(g, k, p, gr)
    BY DEF PermissionsInv
  <2>2. /\ groups' = g /\ knownUsers' = k /\ perms' = p /\ granted' = gr /\ disk' = disk
        /\ usernames' = {} /\ usermod' = [t \in Perms!Threads |-> Perms!NoUsermod]
        /\ groupIds' = [id \in {x.id : x \in Perms!Range(g)} |->
                          CHOOSE n \in DOMAIN g : g[n].id = id]
    BY <1>2, <2>1 DEF Perms!Restart
  <2>3. Underway'
    BY <2>2 DEF Underway, Perms!NoUsermod
  <2>4. ASSUME NEW n \in DOMAIN g
        PROVE  g[n].id \in DOMAIN groupIds' /\ groupIds'[g[n].id] = n
    <3>1. g[n].id \in {x.id : x \in Perms!Range(g)}
      BY DEF Perms!Range
    <3>2. \A m \in DOMAIN g : g[m].id = g[n].id => m = n
      BY <2>1 DEF Consistent, Ids
    <3>3. (CHOOSE m \in DOMAIN g : g[m].id = g[n].id) = n
      BY <3>2
    <3> QED
      BY <2>2, <3>1, <3>3
  <2>5. groupIds' = [id \in DOMAIN groupIds' |-> groupIds'[id]]
    BY <2>2
  <2> QED
    BY <2>1, <2>2, <2>3, <2>4, <2>5 DEF PermissionsInv
<1> QED
  BY <1>1, <1>2

\* update_user_groups: the account's ids, the group's members and what was granted
\* change together, by the one id of the one name.
LEMMA UpdateStep ==
  ASSUME PermissionsInv, NEW t \in Perms!Threads, Perms!UpdateUserGroups(t)
  PROVE  PermissionsInv'
<1>1. UNCHANGED <<groupIds, usernames, perms, disk>>
  BY DEF Perms!UpdateUserGroups
<1>2. usermod[t] # Perms!NoUsermod /\ usermod' = [usermod EXCEPT ![t] = Perms!NoUsermod]
  BY DEF Perms!UpdateUserGroups
<1>3. PICK i \in Perms!Items, a \in usernames : usermod[t].items = <<i>> /\ usermod[t].account = a
  BY <1>2 DEF PermissionsInv, Underway
<1>4. DOMAIN usermod = Perms!Threads /\ Perms!NoUsermod' = Perms!NoUsermod
  BY DEF PermissionsInv, Underway, Perms!NoUsermod
<1>5. ASSUME Perms!Items \subseteq Perms!Items' PROVE Underway'
  BY <1>1, <1>2, <1>4, <1>5 DEF PermissionsInv, Underway
<1>6. CASE usermod[t].moved
  <2>1. UNCHANGED <<groups, knownUsers, granted>>
    BY <1>3, <1>6 DEF Perms!UpdateUserGroups
  <2>2. Perms!Items' = Perms!Items
    BY <2>1 DEF Perms!Items, Perms!Item
  <2> QED
    BY <1>1, <1>5, <2>1, <2>2 DEF PermissionsInv
<1>7. CASE ~usermod[t].moved
  <2> DEFINE ps == Perms!parseGroups(<<i>>, Perms!NoPermissions)
             plus == Perms!NamesOf(<<i>>, "+")
             minus == Perms!NamesOf(<<i>>, "-")
  <2>1. /\ usermod[t].items = <<i>> /\ usermod[t].account = a /\ ~usermod[t].moved
    BY <1>3, <1>7
  <2>2. /\ knownUsers' = [knownUsers EXCEPT ![a] = (@ \cup ps.whitelist) \ ps.blacklist]
        /\ groups' = [n \in DOMAIN groups |->
                         Perms!Member(groups[n], a[2], ps.whitelist, ps.blacklist)]
        /\ granted' = [granted EXCEPT ![a] = (@ \cup plus) \ minus]
    BY <2>1 DEF Perms!UpdateUserGroups
  <2>3. PICK n \in DOMAIN groups :
          /\ i.id = groups[n].id /\ i.name = n /\ i.mode \in {"+", "-"}
          /\ ps = IF i.mode = "+"
                  THEN [Perms!NoPermissions EXCEPT
                          !.whitelist = @ \cup {i.id}, !.blacklist = @ \ {i.id}]
                  ELSE [Perms!NoPermissions EXCEPT
                          !.blacklist = @ \cup {i.id}, !.whitelist = @ \ {i.id}]
    BY OneItem
  <2> DEFINE id == groups[n].id
             added == IF i.mode = "+" THEN {id} ELSE {}
             removed == IF i.mode = "-" THEN {id} ELSE {}
  <2>4. ps.whitelist = added /\ ps.blacklist = removed
    <3>1. CASE i.mode = "+"
      <4>1. ps = [flags |-> {}, whitelist |-> {} \cup {i.id}, blacklist |-> {} \ {i.id}]
        BY <2>3, <3>1 DEF Perms!NoPermissions
      <4>2. ps.whitelist = {i.id} /\ ps.blacklist = {}
        BY <4>1
      <4> QED
        BY <2>3, <3>1, <4>2
    <3>2. CASE i.mode = "-"
      <4>1. ps = [flags |-> {}, whitelist |-> {} \ {i.id}, blacklist |-> {} \cup {i.id}]
        BY <2>3, <3>2 DEF Perms!NoPermissions
      <4>2. ps.blacklist = {i.id} /\ ps.whitelist = {}
        BY <4>1
      <4> QED
        BY <2>3, <3>2, <4>2
    <3> QED
      BY <2>3, <3>1, <3>2
  <2>5. /\ plus = (IF i.mode = "+" THEN {n} ELSE {})
        /\ minus = (IF i.mode = "-" THEN {n} ELSE {})
    <3>1. DOMAIN <<i>> = {1} /\ <<i>>[1] = i
      OBVIOUS
    <3> QED
      BY <2>3, <3>1 DEF Perms!NamesOf
  <2>6. a \in DOMAIN knownUsers /\ a \in Perms!Accounts
    BY DEF PermissionsInv, Consistent, AccountTypes
  <2> HIDE DEF ps, plus, minus
  <2>7. /\ DOMAIN knownUsers' = DOMAIN knownUsers
        /\ knownUsers'[a] = (knownUsers[a] \cup added) \ removed
        /\ \A b \in DOMAIN knownUsers : b # a => knownUsers'[b] = knownUsers[b]
        /\ knownUsers' = [b \in DOMAIN knownUsers' |-> knownUsers'[b]]
    BY <2>2, <2>4, <2>6
  <2>8. /\ granted' \in [Perms!Accounts -> SUBSET DOMAIN groups]
        /\ granted'[a] = (granted[a] \cup plus) \ minus
        /\ \A b \in Perms!Accounts : b # a => granted'[b] = granted[b]
    BY <2>2, <2>3, <2>5, <2>6 DEF PermissionsInv, Consistent, AccountTypes
  <2>9. /\ DOMAIN groups' = DOMAIN groups
        /\ groups' = [m \in DOMAIN groups' |-> groups'[m]]
        /\ \A m \in DOMAIN groups :
             /\ groups'[m].id = groups[m].id
             /\ groups'[m].members = IF groups[m].id \in added THEN groups[m].members \cup {a[2]}
                                     ELSE IF groups[m].id \in removed
                                          THEN groups[m].members \ {a[2]}
                                     ELSE groups[m].members
             /\ groups'[m] = [id |-> groups'[m].id, members |-> groups'[m].members]
    <3> HIDE DEF added, removed
    <3>1. /\ DOMAIN groups' = DOMAIN groups /\ groups' = [m \in DOMAIN groups' |-> groups'[m]]
          /\ \A m \in DOMAIN groups : groups'[m] = Perms!Member(groups[m], a[2], added, removed)
      BY <2>2, <2>4
    <3>2. \A m \in DOMAIN groups : groups[m] = [id |-> groups[m].id, members |-> groups[m].members]
      BY DEF PermissionsInv, Consistent, GroupTypes
    <3>3. ASSUME NEW m \in DOMAIN groups
          PROVE  /\ groups'[m].id = groups[m].id
                 /\ groups'[m].members = IF groups[m].id \in added
                                              THEN groups[m].members \cup {a[2]}
                                         ELSE IF groups[m].id \in removed
                                              THEN groups[m].members \ {a[2]}
                                         ELSE groups[m].members
                 /\ groups'[m] = [id |-> groups'[m].id, members |-> groups'[m].members]
      <4> DEFINE g == groups[m]
                 u == a[2]
      <4>1. groups'[m] = Perms!Member(g, u, added, removed)
        BY <3>1
      <4>2. g = [id |-> g.id, members |-> g.members]
        BY <3>2
      <4> DEFINE ms == IF g.id \in added THEN g.members \cup {u}
                       ELSE IF g.id \in removed THEN g.members \ {u} ELSE g.members
      <4>3. groups'[m] = [g EXCEPT !.members = ms]
        BY <4>1 DEF Perms!Member
      <4> HIDE DEF g, u, ms
      <4>4. groups'[m] = [[id |-> g.id, members |-> g.members] EXCEPT !.members = ms]
        BY <4>2, <4>3
      <4>5. groups'[m] = [id |-> g.id, members |-> ms]
        BY <4>4
      <4>6. groups'[m].id = g.id /\ groups'[m].members = ms
        BY <4>5
      <4>7. groups'[m] = [id |-> groups'[m].id, members |-> groups'[m].members]
        BY <4>5, <4>6
      <4> QED
        BY <4>6, <4>7 DEF g, u, ms
    <3> QED
      BY <3>1, <3>3
  <2> HIDE DEF added, removed
  <2>10. \A m \in DOMAIN groups : groups'[m].id = groups[m].id
    BY <2>9
  <2>11. GroupTypes(groups')
    BY <2>9 DEF PermissionsInv, Consistent, GroupTypes
  <2>12. Ids(groups')
    BY <2>9, <2>10 DEF PermissionsInv, Consistent, Ids
  <2>13. AccountTypes(groups', knownUsers', granted')
    BY <2>6, <2>7, <2>8, <2>9 DEF PermissionsInv, Consistent, AccountTypes
  <2>14. Granted(groups', knownUsers', granted')
    <3>1. knownUsers[a] = {groups[m].id : m \in granted[a]} /\ granted[a] \subseteq DOMAIN groups
      BY <2>6 DEF PermissionsInv, Consistent, Granted, AccountTypes
    <3>2. \A m \in DOMAIN groups : groups[m].id = id => m = n
      BY DEF PermissionsInv, Consistent, Ids
    <3>3. granted'[a] \subseteq DOMAIN groups
      BY <2>6, <2>8
    <3>4. knownUsers'[a] = {groups[m].id : m \in granted'[a]}
      <4>1. CASE i.mode = "+"
        <5>1. knownUsers'[a] = knownUsers[a] \cup {id} /\ granted'[a] = granted[a] \cup {n}
          BY <2>5, <2>7, <2>8, <4>1 DEF added, removed
        <5> QED
          BY <3>1, <5>1
      <4>2. CASE i.mode = "-"
        <5>1. knownUsers'[a] = knownUsers[a] \ {id} /\ granted'[a] = granted[a] \ {n}
          BY <2>5, <2>7, <2>8, <4>2 DEF added, removed
        <5> QED
          BY <3>1, <3>2, <5>1
      <4> QED
        BY <2>3, <4>1, <4>2
    <3>5. knownUsers'[a] = {groups'[m].id : m \in granted'[a]}
      BY <2>10, <3>3, <3>4
    <3>6. ASSUME NEW b \in DOMAIN knownUsers, b # a
          PROVE  knownUsers'[b] = {groups'[m].id : m \in granted'[b]}
      <4>1. b \in Perms!Accounts /\ granted[b] \subseteq DOMAIN groups /\ granted'[b] = granted[b]
        BY <2>8, <3>6 DEF PermissionsInv, Consistent, AccountTypes
      <4>2. knownUsers[b] = {groups[m].id : m \in granted[b]}
        BY DEF PermissionsInv, Consistent, Granted
      <4> QED
        BY <2>7, <2>10, <3>6, <4>1, <4>2
    <3> QED
      BY <2>7, <3>5, <3>6 DEF Granted
  <2>15. Members(groups', knownUsers')
    <3>1. ASSUME NEW m \in DOMAIN groups, NEW u \in groups'[m].members
          PROVE  \E b \in DOMAIN knownUsers : b[2] = u /\ groups[m].id \in knownUsers'[b]
      <4>1. CASE u \notin groups[m].members
        <5>1. groups[m].id \in added /\ u = a[2]
          BY <2>9, <3>1, <4>1
        <5>2. groups[m].id \in knownUsers'[a]
          BY <2>3, <2>7, <5>1 DEF added, removed
        <5> QED
          BY <2>6, <5>1, <5>2
      <4>2. CASE u \in groups[m].members
        <5>1. PICK b \in DOMAIN knownUsers : b[2] = u /\ groups[m].id \in knownUsers[b]
          BY <4>2 DEF PermissionsInv, Consistent, Members
        <5>2. CASE b # a
          BY <2>7, <5>1, <5>2
        <5>3. CASE b = a
          <6>1. groups[m].id \notin removed
            BY <2>9, <3>1, <5>1, <5>3 DEF added, removed
          <6> QED
            BY <2>7, <5>1, <5>3, <6>1
        <5> QED
          BY <5>2, <5>3
      <4> QED
        BY <4>1, <4>2
    <3> QED
      BY <2>7, <2>9, <2>10, <3>1 DEF Members
  <2>16. Consistent(groups', knownUsers', perms', granted')
    BY <1>1, <2>11, <2>12, <2>13, <2>14, <2>15 DEF PermissionsInv, Consistent
  <2>17. Perms!Items \subseteq Perms!Items'
    BY <2>9, <2>10 DEF Perms!Items, Perms!Item
  <2> QED
    BY <1>1, <1>5, <2>7, <2>9, <2>10, <2>16, <2>17 DEF PermissionsInv
<1> QED
  BY <1>6, <1>7

\* Every step of both threads, saves and restarts keep it.
LEMMA PermissionsStep == PermissionsInv /\ [Perms!Next]_(Perms!vars) => PermissionsInv'
<1> SUFFICES ASSUME PermissionsInv, [Perms!Next]_(Perms!vars) PROVE PermissionsInv'
  OBVIOUS
<1>1. CASE UNCHANGED Perms!vars
  <2>1. UNCHANGED Perms!data
    BY <1>1 DEF Perms!vars
  <2>2. Underway'
    BY <2>1, StillUnderway DEF Perms!data, PermissionsInv
  <2> QED
    BY <2>1, <2>2 DEF Perms!data, PermissionsInv
<1>2. ASSUME NEW n \in Names, Perms!removeGroup(n) PROVE PermissionsInv'
  <2>1. /\ UNCHANGED <<groups, groupIds, knownUsers, usernames, perms, usermod, granted, disk>>
    BY <1>2 DEF Perms!removeGroup
  <2>2. Underway'
    BY <2>1, StillUnderway DEF PermissionsInv
  <2> QED
    BY <2>1, <2>2 DEF PermissionsInv
<1>3. CASE UNCHANGED Perms!vars \/ Perms!Next
  BY <1>1, <1>2, <1>3, AddGroupStep, MessageStep, UsermodStep, UpdateStep, ChmodStep,
     RestartStep DEF Perms!Next
<1> QED
  BY <1>3

-----------------------------------------------------------------------------
(* Buffers *)

\* The texts whose length is a number of two bytes at most.
Short(n) == n < 65536

\* The superblock fits into the new buffer (it has 512 bytes), texts are short, and
\* no type of a list is written, which takes a byte more than was asked for.
WritesInBounds ==
  /\ Superblock \in Nat /\ \A c \in StartCaps : c \in Nat /\ Superblock <= c
  /\ Lengths \subseteq Nat /\ ("string" \in Kinds => \A n \in Lengths : Short(n))
  /\ Kinds \subseteq {"byte", "char", "real", "bool", "number", "tag", "string", "container",
                      "relative", "type"}

\* What the writer does at a time.
AChunk == [room : Nat, bytes : Nat]

\* Where there is room for r bytes, the chunks of q can be copied one after the other,
\* and room for s bytes is left: each asks for enough, or those before it left it.
Bigger(a, b) == IF a >= b THEN a ELSE b
Leaves(q, r, s) ==
  \E left \in [0..Len(q) -> Nat] :
    /\ left[0] = r /\ left[Len(q)] = s
    /\ \A i \in 1..Len(q) : q[i].bytes + left[i] <= Bigger(left[i - 1], q[i].room)

\* The inductive invariant: what is left of the write under way has room.
BufferInv ==
  /\ cap \in Nat /\ len \in Nat /\ len <= cap /\ lost = 0
  /\ todo \in Seq(AChunk)
  /\ \E r, s \in Nat : r <= Buffer!remaining /\ Leaves(todo, r, s)

\* One chunk.
LEMMA LeavesOne ==
  ASSUME NEW k \in Nat, NEW b \in Nat, NEW r \in Nat, NEW s \in Nat,
         b + s <= Bigger(r, k)
  PROVE  <<Buffer!Chunk(k, b)>> \in Seq(AChunk) /\ Leaves(<<Buffer!Chunk(k, b)>>, r, s)
<1> DEFINE c == Buffer!Chunk(k, b)
           left == [i \in 0..1 |-> IF i = 0 THEN r ELSE s]
<1>1. c \in AChunk /\ c.room = k /\ c.bytes = b
  BY DEF Buffer!Chunk, AChunk
<1> HIDE DEF c
<1>2. <<c>> \in Seq(AChunk) /\ Len(<<c>>) = 1 /\ <<c>>[1] = c
  BY <1>1
<1>3. /\ left \in [0..Len(<<c>>) -> Nat] /\ left[0] = r /\ left[Len(<<c>>)] = s
      /\ \A i \in 1..Len(<<c>>) : i = 1 /\ left[i] = s /\ left[i - 1] = r
  BY <1>2
<1>4. \A i \in 1..Len(<<c>>) : <<c>>[i].bytes + left[i] <= Bigger(left[i - 1], <<c>>[i].room)
  BY <1>1, <1>2, <1>3
<1>5. Leaves(<<c>>, r, s)
  <2> HIDE DEF left
  <2> QED
    BY <1>3, <1>4 DEF Leaves
<1> QED
  BY <1>2, <1>5 DEF c

\* One after the other.
LEMMA LeavesBoth ==
  ASSUME NEW p \in Seq(AChunk), NEW q \in Seq(AChunk), NEW r, NEW s, NEW t,
         Leaves(p, r, s), Leaves(q, s, t)
  PROVE  p \o q \in Seq(AChunk) /\ Leaves(p \o q, r, t)
<1>1. PICK f \in [0..Len(p) -> Nat] :
        /\ f[0] = r /\ f[Len(p)] = s
        /\ \A i \in 1..Len(p) : p[i].bytes + f[i] <= Bigger(f[i - 1], p[i].room)
  BY DEF Leaves
<1>2. PICK g \in [0..Len(q) -> Nat] :
        /\ g[0] = s /\ g[Len(q)] = t
        /\ \A i \in 1..Len(q) : q[i].bytes + g[i] <= Bigger(g[i - 1], q[i].room)
  BY DEF Leaves
<1>3. PICK m \in Nat, n \in Nat :
        /\ Len(p) = m /\ Len(q) = n /\ p \o q \in Seq(AChunk) /\ Len(p \o q) = m + n
        /\ \A i \in 1..m : (p \o q)[i] = p[i]
        /\ \A i \in 1..n : (p \o q)[m + i] = q[i]
  <2>1. Len(p) \in Nat /\ Len(q) \in Nat /\ p \o q \in Seq(AChunk)
    OBVIOUS
  <2>2. Len(p \o q) = Len(p) + Len(q)
    OBVIOUS
  <2>3. \A i \in 1..Len(p) : (p \o q)[i] = p[i]
    OBVIOUS
  <2>4. \A i \in 1..Len(q) : (p \o q)[Len(p) + i] = q[i]
    OBVIOUS
  <2> QED
    BY <2>1, <2>2, <2>3, <2>4
<1> DEFINE left == [i \in 0..(m + n) |-> IF i <= m THEN f[i] ELSE g[i - m]]
<1>4. left \in [0..(m + n) -> Nat]
  <2>1. ASSUME NEW i \in 0..(m + n) PROVE left[i] \in Nat
    <3>1. CASE i <= m
      BY <1>1, <1>3, <3>1
    <3>2. CASE i > m
      <4>1. i - m \in 0..n
        BY <3>2
      <4> QED
        BY <1>2, <1>3, <3>2, <4>1
    <3> QED
      BY <3>1, <3>2
  <2> QED
    BY <2>1
<1>5. left[0] = r /\ left[m + n] = t
  BY <1>1, <1>2, <1>3
<1>6. ASSUME NEW i \in 1..(m + n)
      PROVE  (p \o q)[i].bytes + left[i] <= Bigger(left[i - 1], (p \o q)[i].room)
  <2>1. CASE i <= m
    BY <1>1, <1>3, <2>1
  <2>2. CASE i > m
    <3>1. /\ i - m \in 1..n /\ (p \o q)[i] = q[i - m] /\ left[i] = g[i - m]
          /\ left[i - 1] = g[(i - m) - 1]
      <4>1. i - m \in 1..n /\ i = m + (i - m)
        BY <2>2
      <4>2. (p \o q)[i] = q[i - m] /\ left[i] = g[i - m]
        BY <1>3, <2>2, <4>1
      <4>3. CASE i = m + 1
        BY <1>1, <1>2, <1>3, <4>1, <4>2, <4>3
      <4>4. CASE i > m + 1
        <5>1. i - 1 \in 0..(m + n) /\ ~(i - 1 <= m) /\ (i - 1) - m = (i - m) - 1
          BY <1>3, <4>1, <4>4
        <5> QED
          BY <4>1, <4>2, <5>1
      <4> QED
        BY <2>2, <4>1, <4>2, <4>3, <4>4
    <3> QED
      BY <1>2, <1>3, <3>1
  <2> QED
    BY <1>3, <2>1, <2>2
<1> QED
  <2> HIDE DEF left
  <2> QED
    BY <1>3, <1>4, <1>5, <1>6 DEF Leaves

\* The chunks of a number take at most nine bytes of nine, or make their own room.
LEMMA NumberLeaves ==
  ASSUME NEW n \in Nat, NEW r \in Nat
  PROVE  /\ Buffer!Number(n) \in Seq(AChunk)
         /\ \E s \in Nat : Leaves(Buffer!Number(n), r, s) /\ r <= s + 9
                           /\ (Short(n) => r <= s + 3)
<1> DEFINE S == IF n < 128 THEN Bigger(r, 9) - 1 ELSE IF n < 65536 THEN Bigger(r, 9) - 3
                ELSE Bigger(r, 9) - 9
<1>0. S \in Nat /\ Bigger(r, 9) \in Nat /\ r <= S + 9 /\ (Short(n) => r <= S + 3)
  BY DEF Bigger, Short
<1>1. <<Buffer!Ensure(8)>> \in Seq(AChunk) /\ Leaves(<<Buffer!Ensure(8)>>, r, Bigger(r, 9))
  BY <1>0, LeavesOne, 8 + 1 = 9, 0 + Bigger(r, 9) <= Bigger(r, 9) DEF Buffer!Ensure
<1>2. CASE n < 128
  <2>1. <<Buffer!Raw(1)>> \in Seq(AChunk) /\ Leaves(<<Buffer!Raw(1)>>, Bigger(r, 9), S)
    <3>1. 1 + S <= Bigger(Bigger(r, 9), 0)
      BY <1>0, <1>2 DEF Bigger
    <3> QED
      BY <1>0, <3>1, LeavesOne DEF Buffer!Raw
  <2>2. Buffer!Number(n) = <<Buffer!Ensure(8)>> \o <<Buffer!Raw(1)>>
    BY <1>2 DEF Buffer!Number
  <2>3. /\ <<Buffer!Ensure(8)>> \o <<Buffer!Raw(1)>> \in Seq(AChunk)
        /\ Leaves(<<Buffer!Ensure(8)>> \o <<Buffer!Raw(1)>>, r, S)
    <3> HIDE DEF S
    <3> QED
      BY <1>1, <2>1, LeavesBoth
  <2>4. Buffer!Number(n) \in Seq(AChunk) /\ Leaves(Buffer!Number(n), r, S)
    BY <2>2, <2>3
  <2> QED
    BY <1>0, <2>4
<1>3. CASE n >= 128
  <2> DEFINE w == IF n < 65536 THEN 2 ELSE 8
  <2>1. <<Buffer!Tag>> \in Seq(AChunk) /\ Leaves(<<Buffer!Tag>>, Bigger(r, 9), Bigger(r, 9) - 1)
    <3>1. 1 + (Bigger(r, 9) - 1) <= Bigger(Bigger(r, 9), 2) /\ Bigger(r, 9) - 1 \in Nat
      BY DEF Bigger
    <3> QED
      BY <1>0, <3>1, LeavesOne DEF Buffer!Tag
  <2>2. <<Buffer!Raw(w)>> \in Seq(AChunk) /\ Leaves(<<Buffer!Raw(w)>>, Bigger(r, 9) - 1, S)
    <3>1. w + S <= Bigger(Bigger(r, 9) - 1, 0) /\ Bigger(r, 9) - 1 \in Nat /\ w \in Nat
      BY <1>3 DEF Bigger
    <3> QED
      BY <1>0, <3>1, LeavesOne DEF Buffer!Raw
  <2>3. Buffer!Number(n) = (<<Buffer!Ensure(8)>> \o <<Buffer!Tag>>) \o <<Buffer!Raw(w)>>
    BY <1>3 DEF Buffer!Number
  <2>4. /\ <<Buffer!Ensure(8)>> \o <<Buffer!Tag>> \in Seq(AChunk)
        /\ Leaves(<<Buffer!Ensure(8)>> \o <<Buffer!Tag>>, r, Bigger(r, 9) - 1)
    BY <1>1, <2>1, LeavesBoth, Zenon
  <2>5. /\ (<<Buffer!Ensure(8)>> \o <<Buffer!Tag>>) \o <<Buffer!Raw(w)>> \in Seq(AChunk)
        /\ Leaves((<<Buffer!Ensure(8)>> \o <<Buffer!Tag>>) \o <<Buffer!Raw(w)>>, r, S)
    <3> HIDE DEF S, w
    <3> QED
      BY <2>2, <2>4, LeavesBoth
  <2>6. Buffer!Number(n) \in Seq(AChunk) /\ Leaves(Buffer!Number(n), r, S)
    BY <2>3, <2>5
  <2> QED
    BY <1>0, <2>6
<1> QED
  BY <1>2, <1>3

\* What ensure() and a tag, a tag alone and bare bytes leave.
LEMMA PiecesLeave ==
  ASSUME NEW r \in Nat
  PROVE  /\ \A k \in Nat \ {0} : /\ <<Buffer!Ensure(k), Buffer!Tag>> \in Seq(AChunk)
                                 /\ Leaves(<<Buffer!Ensure(k), Buffer!Tag>>, r, Bigger(r, k + 1) - 1)
         /\ <<Buffer!Tag>> \in Seq(AChunk) /\ Leaves(<<Buffer!Tag>>, r, Bigger(r, 2) - 1)
         /\ \A b \in 0..r : <<Buffer!Raw(b)>> \in Seq(AChunk) /\ Leaves(<<Buffer!Raw(b)>>, r, r - b)
<1>1. ASSUME NEW t \in Nat
      PROVE  <<Buffer!Tag>> \in Seq(AChunk) /\ Leaves(<<Buffer!Tag>>, t, Bigger(t, 2) - 1)
  <2>1. 1 + (Bigger(t, 2) - 1) <= Bigger(t, 2) /\ Bigger(t, 2) - 1 \in Nat
    BY DEF Bigger
  <2> QED
    BY <2>1, LeavesOne DEF Buffer!Tag
<1>2. ASSUME NEW k \in Nat \ {0}
      PROVE  /\ <<Buffer!Ensure(k), Buffer!Tag>> \in Seq(AChunk)
             /\ Leaves(<<Buffer!Ensure(k), Buffer!Tag>>, r, Bigger(r, k + 1) - 1)
  <2>1. /\ 0 + Bigger(r, k + 1) <= Bigger(r, k + 1) /\ Bigger(r, k + 1) \in Nat
        /\ Bigger(Bigger(r, k + 1), 2) = Bigger(r, k + 1)
    BY DEF Bigger
  <2>2. <<Buffer!Ensure(k)>> \in Seq(AChunk) /\ Leaves(<<Buffer!Ensure(k)>>, r, Bigger(r, k + 1))
    BY <2>1, LeavesOne DEF Buffer!Ensure
  <2>3. /\ <<Buffer!Tag>> \in Seq(AChunk)
        /\ Leaves(<<Buffer!Tag>>, Bigger(r, k + 1), Bigger(r, k + 1) - 1)
    BY <1>1, <2>1
  <2>4. /\ <<Buffer!Ensure(k)>> \o <<Buffer!Tag>> \in Seq(AChunk)
        /\ Leaves(<<Buffer!Ensure(k)>> \o <<Buffer!Tag>>, r, Bigger(r, k + 1) - 1)
    BY <2>2, <2>3, LeavesBoth
  <2>5. <<Buffer!Ensure(k), Buffer!Tag>> = <<Buffer!Ensure(k)>> \o <<Buffer!Tag>>
    OBVIOUS
  <2> QED
    BY <2>4, <2>5
<1>3. ASSUME NEW b \in 0..r
      PROVE  <<Buffer!Raw(b)>> \in Seq(AChunk) /\ Leaves(<<Buffer!Raw(b)>>, r, r - b)
  <2>1. b + (r - b) <= Bigger(r, 0) /\ r - b \in Nat /\ b \in Nat
    BY DEF Bigger
  <2> QED
    BY <2>1, LeavesOne DEF Buffer!Raw
<1> QED
  BY <1>1, <1>2, <1>3

\* Every write finds or makes the room it takes, however full the buffer is.
LEMMA WriteLeaves ==
  ASSUME WritesInBounds, NEW kind \in Kinds, NEW n \in Lengths, NEW r \in Nat
  PROVE  /\ Buffer!Write(kind, n) \in Seq(AChunk)
         /\ \E s \in Nat : Leaves(Buffer!Write(kind, n), r, s)
<1> DEFINE Good(q) == q \in Seq(AChunk) /\ \E s \in Nat : Leaves(q, r, s)
<1>0. n \in Nat /\ (kind = "string" => Short(n))
  BY DEF WritesInBounds
<1>1. Good(Buffer!Number(n))
  BY <1>0, NumberLeaves
<1>2. Good(<<Buffer!Tag>>)
  <2>1. Bigger(r, 2) - 1 \in Nat
    BY DEF Bigger
  <2> QED
    BY <2>1, PiecesLeave
<1>3. Good(Buffer!Bool)
  <2>1. Bigger(r, 1 + 1) - 1 \in Nat /\ 1 \in Nat \ {0}
    BY DEF Bigger
  <2> QED
    BY <2>1, PiecesLeave DEF Buffer!Bool
<1>4. ASSUME NEW w \in Nat \ {0} PROVE Good(Buffer!Fixed(w))
  <2> DEFINE head == <<Buffer!Ensure(w), Buffer!Tag>>
             t == Bigger(r, w + 1) - 1
  <2>1. t \in Nat /\ w \in 0..t /\ t - w \in Nat
    BY DEF Bigger
  <2>2. head \in Seq(AChunk) /\ Leaves(head, r, t)
    BY PiecesLeave
  <2> HIDE DEF t
  <2>3. <<Buffer!Raw(w)>> \in Seq(AChunk) /\ Leaves(<<Buffer!Raw(w)>>, t, t - w)
    BY <2>1, PiecesLeave
  <2>4. Buffer!Fixed(w) = head \o <<Buffer!Raw(w)>>
    BY DEF Buffer!Fixed
  <2> HIDE DEF head
  <2>5. head \o <<Buffer!Raw(w)>> \in Seq(AChunk) /\ Leaves(head \o <<Buffer!Raw(w)>>, r, t - w)
    BY <2>2, <2>3, LeavesBoth
  <2> QED
    BY <2>1, <2>4, <2>5
<1>5. CASE kind = "string"
  <2> DEFINE head == <<Buffer!Ensure(8 + n), Buffer!Tag>>
             t == Bigger(r, 8 + n + 1) - 1
  <2>1. t \in Nat /\ t >= 8 + n /\ 8 + n \in Nat \ {0}
    BY <1>0 DEF Bigger
  <2>2. head \in Seq(AChunk) /\ Leaves(head, r, t)
    BY <2>1, PiecesLeave
  <2> HIDE DEF t, head
  <2>3. PICK s \in Nat : /\ Buffer!Number(n) \in Seq(AChunk)
                         /\ Leaves(Buffer!Number(n), t, s) /\ t <= s + 3
    <3>1. n \in Nat /\ t \in Nat /\ Short(n)
      BY <1>0, <1>5, <2>1
    <3>2. /\ Buffer!Number(n) \in Seq(AChunk)
          /\ \E s \in Nat : Leaves(Buffer!Number(n), t, s) /\ t <= s + 9
                            /\ (Short(n) => t <= s + 3)
      BY <3>1, NumberLeaves, Zenon
    <3> QED
      BY <3>1, <3>2
  <2>4. n \in 0..s /\ s - n \in Nat
    BY <1>0, <2>1, <2>3
  <2>5. <<Buffer!Raw(n)>> \in Seq(AChunk) /\ Leaves(<<Buffer!Raw(n)>>, s, s - n)
    BY <2>3, <2>4, PiecesLeave
  <2>6. Buffer!Write(kind, n) = (head \o Buffer!Number(n)) \o <<Buffer!Raw(n)>>
    BY <1>5 DEF Buffer!Write, Buffer!String, head
  <2>7. head \o Buffer!Number(n) \in Seq(AChunk) /\ Leaves(head \o Buffer!Number(n), r, s)
    BY <2>2, <2>3, LeavesBoth
  <2>8. /\ (head \o Buffer!Number(n)) \o <<Buffer!Raw(n)>> \in Seq(AChunk)
        /\ Leaves((head \o Buffer!Number(n)) \o <<Buffer!Raw(n)>>, r, s - n)
    BY <2>5, <2>7, LeavesBoth
  <2> QED
    BY <2>4, <2>6, <2>8
<1>6. CASE kind = "container"
  <2> DEFINE head == <<Buffer!Ensure(9), Buffer!Tag>>
             t == Bigger(r, 9 + 1) - 1
  <2>1. t \in Nat
    BY DEF Bigger
  <2>2. head \in Seq(AChunk) /\ Leaves(head, r, t)
    BY PiecesLeave
  <2> HIDE DEF t
  <2>3. PICK s \in Nat : Buffer!Number(n) \in Seq(AChunk) /\ Leaves(Buffer!Number(n), t, s)
    BY <1>0, <2>1, NumberLeaves
  <2>4. Buffer!Write(kind, n) = head \o Buffer!Number(n)
    BY <1>6 DEF Buffer!Write, Buffer!Container
  <2> HIDE DEF head
  <2>5. head \o Buffer!Number(n) \in Seq(AChunk) /\ Leaves(head \o Buffer!Number(n), r, s)
    BY <2>2, <2>3, LeavesBoth
  <2> QED
    BY <2>4, <2>5
<1>7. CASE kind = "relative"
  <2> DEFINE t == Bigger(r, 2) - 1
  <2>1. t \in Nat
    BY DEF Bigger
  <2>2. <<Buffer!Tag>> \in Seq(AChunk) /\ Leaves(<<Buffer!Tag>>, r, t)
    BY PiecesLeave
  <2> HIDE DEF t
  <2>3. PICK s \in Nat : Buffer!Number(n) \in Seq(AChunk) /\ Leaves(Buffer!Number(n), t, s)
    BY <1>0, <2>1, NumberLeaves
  <2>4. PICK u \in Nat : Leaves(Buffer!Number(n), s, u)
    BY <1>0, NumberLeaves
  <2>5. Buffer!Write(kind, n) = (<<Buffer!Tag>> \o Buffer!Number(n)) \o Buffer!Number(n)
    BY <1>7 DEF Buffer!Write, Buffer!Relative
  <2>6. /\ <<Buffer!Tag>> \o Buffer!Number(n) \in Seq(AChunk)
        /\ Leaves(<<Buffer!Tag>> \o Buffer!Number(n), r, s)
    BY <2>2, <2>3, LeavesBoth
  <2>7. /\ (<<Buffer!Tag>> \o Buffer!Number(n)) \o Buffer!Number(n) \in Seq(AChunk)
        /\ Leaves((<<Buffer!Tag>> \o Buffer!Number(n)) \o Buffer!Number(n), r, u)
    BY <2>3, <2>4, <2>6, LeavesBoth
  <2> QED
    BY <2>5, <2>7
<1>8. CASE kind = "type"
  <2> DEFINE t == Bigger(r, 2) - 1
  <2>1. t \in Nat /\ 1 \in 0..t /\ t - 1 \in Nat
    BY DEF Bigger
  <2>2. <<Buffer!Tag>> \in Seq(AChunk) /\ Leaves(<<Buffer!Tag>>, r, t)
    BY PiecesLeave
  <2> HIDE DEF t
  <2>3. Buffer!TypeByte \in Seq(AChunk) /\ Leaves(Buffer!TypeByte, t, t - 1)
    BY <2>1, PiecesLeave DEF Buffer!TypeByte
  <2>4. Buffer!Write(kind, n) = <<Buffer!Tag>> \o Buffer!TypeByte
    BY <1>8 DEF Buffer!Write
  <2>5. /\ <<Buffer!Tag>> \o Buffer!TypeByte \in Seq(AChunk)
        /\ Leaves(<<Buffer!Tag>> \o Buffer!TypeByte, r, t - 1)
    BY <2>2, <2>3, LeavesBoth
  <2> QED
    BY <2>1, <2>4, <2>5
<1>9. CASE kind \in {"byte", "char", "real"}
  <2>1. PICK w \in Nat \ {0} : Buffer!Write(kind, n) = Buffer!Fixed(w)
    <3>1. /\ Buffer!Write("byte", n) = Buffer!Fixed(1) /\ Buffer!Write("char", n) = Buffer!Fixed(4)
          /\ Buffer!Write("real", n) = Buffer!Fixed(8)
      BY DEF Buffer!Write
    <3>2. Buffer!Write(kind, n) \in {Buffer!Fixed(1), Buffer!Fixed(4), Buffer!Fixed(8)}
      BY <1>9, <3>1
    <3> QED
      BY <3>2
  <2> QED
    BY <1>4, <2>1
<1>10. CASE kind \in {"bool", "number", "tag"}
  <2>1. Buffer!Write(kind, n) \in {Buffer!Bool, Buffer!Number(n), <<Buffer!Tag>>}
    BY <1>10 DEF Buffer!Write
  <2> QED
    BY <1>1, <1>2, <1>3, <2>1
<1> QED
  BY <1>5, <1>6, <1>7, <1>8, <1>9, <1>10 DEF WritesInBounds

\* A copy takes the first chunk and leaves the others.
LEMMA LeavesTail ==
  ASSUME NEW q \in Seq(AChunk), q # <<>>, NEW r \in Nat, NEW s \in Nat, Leaves(q, r, s)
  PROVE  /\ Tail(q) \in Seq(AChunk) /\ Head(q) \in AChunk
         /\ \E t \in Nat : /\ Head(q).bytes + t <= Bigger(r, Head(q).room)
                           /\ Leaves(Tail(q), t, s)
<1>1. PICK n \in Nat :
        /\ n >= 1 /\ Len(q) = n /\ Head(q) = q[1] /\ Head(q) \in AChunk
        /\ Tail(q) \in Seq(AChunk) /\ Len(Tail(q)) = n - 1
        /\ \A i \in 1..(n - 1) : Tail(q)[i] = q[i + 1]
  OBVIOUS
<1>2. PICK f \in [0..n -> Nat] :
        /\ f[0] = r /\ f[n] = s
        /\ \A i \in 1..n : q[i].bytes + f[i] <= Bigger(f[i - 1], q[i].room)
  BY <1>1 DEF Leaves
<1> DEFINE left == [i \in 0..(n - 1) |-> f[i + 1]]
<1>3. left \in [0..(n - 1) -> Nat] /\ left[0] = f[1] /\ left[n - 1] = s
  BY <1>1, <1>2
<1>4. ASSUME NEW i \in 1..(n - 1)
      PROVE  Tail(q)[i].bytes + left[i] <= Bigger(left[i - 1], Tail(q)[i].room)
  <2>1. /\ i + 1 \in 1..n /\ (i + 1) - 1 = i /\ i - 1 \in 0..(n - 1) /\ (i - 1) + 1 = i
        /\ i \in 0..(n - 1)
    BY <1>1
  <2>2. left[i] = f[i + 1] /\ left[i - 1] = f[i] /\ Tail(q)[i] = q[i + 1]
    BY <1>1, <2>1
  <2>3. q[i + 1].bytes + f[i + 1] <= Bigger(f[i], q[i + 1].room)
    BY <1>2, <2>1
  <2> QED
    BY <2>2, <2>3
<1>5. Leaves(Tail(q), f[1], s)
  <2> HIDE DEF left
  <2> QED
    BY <1>1, <1>3, <1>4 DEF Leaves
<1>6. q[1].bytes + f[1] <= Bigger(f[0], q[1].room) /\ f[1] \in Nat
  <2>1. 1 \in 1..n /\ 1 \in 0..n /\ 1 - 1 = 0
    BY <1>1
  <2> QED
    BY <1>2, <2>1
<1> QED
  BY <1>1, <1>2, <1>5, <1>6

\* The superblock fits into the new buffer.
LEMMA BufferInit == WritesInBounds /\ Buffer!Init => BufferInv
<1> SUFFICES ASSUME WritesInBounds, Buffer!Init PROVE BufferInv
  OBVIOUS
<1>1. /\ cap \in Nat /\ Superblock \in 0..cap /\ len = 0 /\ lost = 0
      /\ todo = <<Buffer!Raw(Superblock)>>
  BY DEF WritesInBounds, Buffer!Init
<1>2. todo \in Seq(AChunk) /\ Leaves(todo, cap, cap - Superblock) /\ cap - Superblock \in Nat
  BY <1>1, PiecesLeave
<1> QED
  BY <1>1, <1>2 DEF BufferInv, Buffer!remaining

\* A write begins with any room there is, growing leaves more, a copy what is left.
LEMMA BufferStep == ASSUME WritesInBounds, BufferInv, [Buffer!Next]_(Buffer!vars) PROVE BufferInv'
<1>1. PICK r \in Nat, s \in Nat : r <= Buffer!remaining /\ Leaves(todo, r, s)
  BY DEF BufferInv
<1>2. cap \in Nat /\ len \in Nat /\ len <= cap /\ lost = 0 /\ todo \in Seq(AChunk)
  BY DEF BufferInv
<1>3. CASE UNCHANGED Buffer!vars
  BY <1>3 DEF Buffer!vars, BufferInv, Buffer!remaining
<1>4. ASSUME NEW kind \in Kinds, NEW n \in Lengths, Buffer!Begin(kind, n) PROVE BufferInv'
  <2>1. Buffer!remaining \in Nat /\ Buffer!remaining' = Buffer!remaining
    BY <1>2, <1>4 DEF Buffer!Begin, Buffer!remaining
  <2>2. PICK t \in Nat : todo' \in Seq(AChunk) /\ Leaves(todo', Buffer!remaining, t)
    BY <1>4, <2>1, WriteLeaves DEF Buffer!Begin
  <2> QED
    BY <1>2, <1>4, <2>1, <2>2 DEF Buffer!Begin, BufferInv
<1>5. CASE Buffer!Grow
  <2>1. cap' \in Nat /\ cap <= cap' /\ UNCHANGED <<len, todo, lost>>
    BY <1>2, <1>5 DEF Buffer!Grow
  <2>2. r <= Buffer!remaining'
    <3>1. PICK more \in Nat : cap' = cap + more
      BY <1>2, <2>1
    <3>2. Buffer!remaining \in Nat /\ Buffer!remaining' = Buffer!remaining + more
      BY <1>2, <2>1, <3>1 DEF Buffer!remaining
    <3> QED
      BY <1>1, <3>1, <3>2
  <2> QED
    BY <1>1, <1>2, <2>1, <2>2 DEF BufferInv
<1>6. CASE Buffer!Copy
  <2>1. PICK t \in Nat : /\ Head(todo) \in AChunk /\ todo' \in Seq(AChunk)
                         /\ Head(todo).bytes + t <= Bigger(r, Head(todo).room)
                         /\ Leaves(todo', t, s)
    BY <1>1, <1>2, <1>6, LeavesTail DEF Buffer!Copy
  <2>2. Head(todo).bytes \in Nat /\ Head(todo).room \in Nat /\ Buffer!remaining \in Nat
    BY <1>2, <2>1 DEF AChunk, Buffer!remaining
  <2>3. Head(todo).bytes + t <= Buffer!remaining
    BY <1>1, <1>6, <2>1, <2>2 DEF Buffer!Copy, Bigger
  <2>4. Buffer!Fitting(Head(todo).bytes) = Head(todo).bytes
    BY <2>2, <2>3 DEF Buffer!Fitting
  <2>5. cap' = cap /\ len' = len + Head(todo).bytes /\ lost' = 0
    BY <1>2, <1>6, <2>2, <2>4 DEF Buffer!Copy
  <2>6. len' \in Nat /\ len' <= cap' /\ t <= Buffer!remaining'
    BY <1>2, <2>2, <2>3, <2>5 DEF Buffer!remaining
  <2> QED
    BY <1>1, <1>2, <2>1, <2>5, <2>6 DEF BufferInv
<1> QED
  BY <1>3, <1>4, <1>5, <1>6 DEF Buffer!Next

-----------------------------------------------------------------------------
(* The parts together *)

\* The part that a behaviour is of goes its way, and the others stay.
LEMMA PartsAreSpecs ==
  PartsSpec => /\ Perms!Init /\ [][Perms!Next]_(Perms!vars)
               /\ Buffer!Init /\ [][Buffer!Next]_(Buffer!vars)
<1>1. PartsInit => Perms!Init /\ Buffer!Init
  BY DEF PartsInit
<1>2. [PartsNext]_systemVars => [Perms!Next]_(Perms!vars)
  BY DEF PartsNext, PermissionsNext, BufferNext, ReadingNext, PoolNext, TimersNext, ConsoleNext,
     systemVars, partsVars, permissionVars, Perms!vars, Perms!data
<1>3. [PartsNext]_systemVars => [Buffer!Next]_(Buffer!vars)
  BY DEF PartsNext, PermissionsNext, BufferNext, ReadingNext, PoolNext, TimersNext, ConsoleNext,
     systemVars, partsVars, streamVars, bufferVars, Buffer!vars
<1> QED
  BY <1>1, <1>2, <1>3, PTL DEF PartsSpec

\* Each id means the group it was granted for (SharedDB, usermod, chmod), over any
\* number of groups, users, channels and commands, saves and restarts.
THEOREM GrantsMeanTheirGroupHolds == PartsSpec => []GrantsMeanTheirGroup
<1>1. PermissionsInv => GrantsMeanTheirGroup
  BY DEF GrantsMeanTheirGroup, PermissionsInv, Consistent, Granted, Members, Lists,
     Perms!GrantsMeanTheirGroup, Perms!IdOf
<1> QED
  BY <1>1, PermissionsInit, PermissionsStep, PartsAreSpecs, PTL

\* Every byte of a save is in the buffer (Buffer::write after Writer::ensure), however
\* many writes there were and however full the buffer is, for texts of less than
\* 65536 bytes and without the type of a list, which asks for too little
\* (Type::serialise); Buffers_superblock shows a longer text that is cut.
THEOREM NothingIsLostHolds == WritesInBounds => (PartsSpec => []NothingIsLost)
<1> SUFFICES ASSUME WritesInBounds PROVE PartsSpec => []NothingIsLost
  OBVIOUS
<1>1. Buffer!Init => BufferInv
  BY BufferInit
<1>2. BufferInv /\ [Buffer!Next]_(Buffer!vars) => BufferInv'
  BY BufferStep
<1>3. BufferInv => NothingIsLost
  BY DEF BufferInv, NothingIsLost, Buffer!NothingIsLost
<1> QED
  BY <1>1, <1>2, <1>3, PartsAreSpecs, PTL
=============================================================================
