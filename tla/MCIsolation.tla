---------------------------- MODULE MCIsolation ----------------------------
EXTENDS Isolation, TLC

CONSTANTS h1, h2, campus, m1, m2, vlan10

\* DHCP may give the address h2 to the machine that had h1.
Leases == h1 :> {m1} @@ h2 :> {m1, m2} @@ campus :> {}

\* Every host is in the list VLAN10_POLICY, which is also the default.
OneList == [h \in Host |-> vlan10]
=============================================================================
