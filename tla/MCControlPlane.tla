---- MODULE MCControlPlane ----
(***************************************************************************)
(* Values for the constants of ControlPlane in its runs.                   *)
(***************************************************************************)
EXTENDS ControlPlane, TLC

\* Identifiers of one kind are interchangeable (runs without liveness only).
Interchangeable ==
    Permutations(Cluster) \cup Permutations(Vpc) \cup Permutations(Eip)

\* The access stays as it was, or is opened to the public at any moment.
NoEdits == {}
OpensUp == {<<"private", "public">>}

\* CCE keeps to provisioning and deletion.
NoDrift == {}

\* A cluster put to sleep and woken up.
Sleep == {<<"Available", "Hibernation">>, <<"Hibernation", "Available">>}

\* A creation that fails at first.
LateStart == {<<"Creating", "Unavailable">>, <<"Unavailable", "Available">>}

Restless == LateStart \cup Sleep

====
