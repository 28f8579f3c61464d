---------------------------- MODULE MCWifiEvents ----------------------------
(* Wi-Fi events on a small instance; names are interchangeable.  The events *)
(* are an instance because OperationGuardProofs, which is about them and the *)
(* registry, extends this module.                                           *)
EXTENDS Naturals, TLC

CONSTANTS Slots, Names, DevIds, MaxEvents, MaxRefs, MaxTrouble

VARIABLES record, hub, refs, deploy, resets, edit, dropping, born, condemned, unsure, trouble

We == INSTANCE WifiEvents

ASSUME SlotsAreNumbered == We!Numbered

CONSTANTS tv, lamp

MCSlots == 1..2
MCDevIds == 1..2
MCNames == {tv, lamp}
Symmetry == Permutations(MCNames)

MCSpec == We!Spec

\* A favorite, binding or macro step fires the event it was made for, or
\* nothing, unless a deploy that was not the delete's own left it behind or the
\* delete is taking it off the hub (WifiEvents!RefsFireTheirEvent).
RefsFireTheirEvent == We!RefsFireTheirEvent

\* A device whose brand is the hash of the record has a command for every event
\* of the record, but for known disturbances (WifiEvents!BrandIsEarned).
BrandIsEarned == We!BrandIsEarned

\* An event disappears only when somebody asked for it, or when it was created
\* while its slot was being taken (WifiEvents!EventsDieByDeletion).
EventsDieByDeletion == We!EventsDieByDeletion
=============================================================================
