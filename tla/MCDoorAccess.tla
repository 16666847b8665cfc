---------------------------- MODULE MCDoorAccess ----------------------------
EXTENDS DoorAccess, TLC

CONSTANTS c1, c2, p1, p2

\* Two cards of two people.
TwoOwners == c1 :> p1 @@ c2 :> p2

\* One card that somebody owns, and one that nobody does.
OneOwner == c1 :> p1 @@ c2 :> NoPerson
=============================================================================
