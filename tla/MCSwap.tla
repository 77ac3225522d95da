------------------------------- MODULE MCSwap -------------------------------
(***************************************************************************)
(* The worlds of Swap for TLC.  A unit of time is 12 hours.                *)
(***************************************************************************)
EXTENDS Swap

\* One of the two coins is Bitflash; the other is followed by its own node or
\* by the light client.
OnNodes == [maker |-> "btf", taker |-> "core"]
MakerLight == [maker |-> "light", taker |-> "btf"]
TakerLight == [maker |-> "btf", taker |-> "light"]

\* Two who run this program, or one alone with somebody who does as he pleases.
RogueMaker == [chain : {MakerLight}, rogue : {{"maker"}}]
AllWorlds ==
  [chain : {OnNodes, MakerLight, TakerLight}, rogue : {{}}]
  \cup RogueMaker \cup [chain : {MakerLight, TakerLight}, rogue : {{"taker"}}]
=============================================================================
