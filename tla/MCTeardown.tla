---- MODULE MCTeardown ----
(***************************************************************************)
(* Values for the constants of Teardown in its runs.                       *)
(***************************************************************************)
EXTENDS Teardown

\* Upgrades, through which the control plane stays ready.
Upgrades == {<<"Available", "Upgrading">>, <<"Upgrading", "Available">>}

\* The cluster becomes unavailable, for good or for a while.
Outages == {<<"Available", "Unavailable">>, <<"Unavailable", "Available">>}

====
