------------------------------ MODULE MCHubLink ------------------------------
(* HubLink on a small instance.  It is an instance, not an extension, because *)
(* WireSchedulerProofs, which is about the bytes of one hub and about the     *)
(* sessions they travel on, extends this module.                              *)
EXTENDS Naturals

CONSTANTS Hubs, Slots, NoConn, MaxUpsets, MaxBounces

VARIABLES registered, listening, bouncing, backlog, apc, client, existing, refused,
          life, sock, told, bpc, sampled, paused, ppc, taken, open, session, upsets,
          bounces

Link == INSTANCE HubLink

ASSUME LinkConstants == Link!NoConnIsNone /\ Link!LinkBounds

LinkSpec == Link!FairSpec

\* The listening socket is open exactly while a hub is registered and no bounce
\* is under way (HubLink!PortFollowsHubs).
PortFollowsHubs == Link!PortFollowsHubs

\* The bridge never uses a socket that has been closed (HubLink!CurrentIsOpen).
CurrentIsOpen == Link!CurrentIsOpen

\* Once hubs stay and nothing more is paused or bounced, the bridge of a running
\* hub has a session for good (HubLink!SelfHeals).
SelfHeals == Link!SelfHeals
=============================================================================
