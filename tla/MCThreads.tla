----------------------------- MODULE MCThreads -----------------------------
(***************************************************************************)
(* The threads of ThreadParts, with what two users send to the bot.        *)
(***************************************************************************)
EXTENDS ThreadParts

-----------------------------------------------------------------------------
(* What is sent to the bot *)

Says(who, stages) == [user |-> who, stages |-> stages]
Stage(cmd, arg, expr) == [cmd |-> cmd, arg |-> arg, expr |-> expr, flags |-> {}]
Chmod(cmd, flags) == [cmd |-> "chmod", arg |-> cmd, expr |-> "", flags |-> flags]
Guest(cmd, arg) == Says("guest", <<Stage(cmd, arg, "")>>)
Owner(cmd, arg, expr) == Says("owner", <<Stage(cmd, arg, expr)>>)

\* "y" is an alias of "x", and the code of "z" mentions it.
MCInputs ==
  {Guest("z", ""), Says("guest", <<Stage("x", "", "y"), Stage("x", "", "")>>),
   Says("guest", <<>>), Guest("undef", "x"), Owner("def", "x", ""), Owner("def", "z", "y"),
   Owner("defun", "x", ""), Owner("redef", "x", "x"),
   Says("owner", <<Stage("undef", "x", ""), Stage("def", "x", "")>>), Owner("eval", "", "x"),
   Says("owner", <<Stage("global", "x", ""), Stage("showmod", "def", "")>>),
   Says("owner", <<Chmod("x", {})>>), Says("owner", <<Chmod("undef", {"EVERYONE"})>>)}
MCGiven == [guest |-> {"EVERYONE"}, owner |-> {"OWNER"}]
MCAliases == [y |-> "x"]
MCDefaultPerms == LET Sets == INSTANCE PermissionSets IN [undef |-> Sets!fromFlags({"OWNER"})]
=============================================================================
