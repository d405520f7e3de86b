------------------------- MODULE MCPortalInvitation -------------------------
\* Invitations to the portal on a small instance for TLC: one parent, one student.
EXTENDS PortalInvitation

OwnUser == [l \in Links |-> l]

Kinds == [l \in Links |-> IF l = "l1" THEN "parent" ELSE "student"]
=============================================================================
