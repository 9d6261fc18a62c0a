---------------------------- MODULE MCBackground ----------------------------
(***************************************************************************)
(* The parts of BackgroundParts, with what is said to the bot.             *)
(***************************************************************************)
EXTENDS BackgroundParts

-----------------------------------------------------------------------------
(* What is said *)

Word(text) == [text |-> text, emote |-> FALSE]
Emote(text) == [text |-> text, emote |-> TRUE]

\* An emote that reads like a word.
MCSaid == {<<Word("a"), Emote("a")>>}

\* An empty sentence and one that is trained; two that are trained.
MCLogs == {<<<<>>, <<Emote("a"), Word("b")>>>>, <<<<Word("b")>>, <<Word("b"), Word("a")>>>>}

-----------------------------------------------------------------------------
\* The parts that a behaviour is not of begin in one way only.
MCInit ==
  /\ PartsInit
  /\ part # "sending" => tokens = 0
  /\ part # "saving" => path = 0 /\ \A f \in DOMAIN file : ~file[f].old
  /\ part # "training" => \A l \in MCLogs : Len(l[1]) <= Len(log[1])

MCSpec == MCInit /\ [][PartsNext]_allVars /\ PartsFairness
=============================================================================
