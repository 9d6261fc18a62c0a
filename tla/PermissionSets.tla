--------------------------- MODULE PermissionSets ---------------------------
(***************************************************************************)
(* Who may run a command: permission sets, the check of a user against     *)
(* one, and the language chmod and usermod change them in (misc/perms.cpp, *)
(* include/perms.h).                                                       *)
(*                                                                         *)
(* Flags are a set of names for the bits of the code's integer.  The group *)
(* lists and the role lists of a set follow the same rules, and one pair   *)
(* stands for both: what a list holds is the id of a group or of a role.   *)
(***************************************************************************)
EXTENDS FiniteSets, SequencesExt

NoPermissions == [flags |-> {}, whitelist |-> {}, blacklist |-> {}]

fromFlags(f) == [NoPermissions EXCEPT !.flags = f]

\* PermissionSet::check(): no flags at all mean the owner only.
check(required, given, groups) ==
  IF "OWNER" \in given \/ required.flags \cap given # {}
  THEN required.blacklist \cap groups = {}
  ELSE required.whitelist \cap groups # {}

-----------------------------------------------------------------------------
(* "+group", "-group" and "*group": an item is a mode and the id it means *)

foozle(perms, item) ==
  CASE item.mode = "+" -> [perms EXCEPT !.whitelist = @ \cup {item.id},
                                        !.blacklist = @ \ {item.id}]
    [] item.mode = "-" -> [perms EXCEPT !.blacklist = @ \cup {item.id},
                                        !.whitelist = @ \ {item.id}]
    [] OTHER           -> [perms EXCEPT !.whitelist = @ \ {item.id},
                                        !.blacklist = @ \ {item.id}]

\* The items in turn; the lists of perms are where they start.
parseGroups(items, perms) == FoldLeft(foozle, perms, items)

\* parse(): the flags, merged with the old ones after a leading "+", then the
\* groups.
parse(flag, merge, items, orig) ==
  parseGroups(items, [orig EXCEPT !.flags = flag \cup (IF merge THEN @ ELSE {})])
=============================================================================
