---- MODULE Ownership ----
(***************************************************************************)
(* What a reconciler promises of the cloud resources it makes for one      *)
(* object, whatever calls it takes: the abstract specification that        *)
(* ControlPlane (of CCE clusters) and NodePool (of node pools) implement.  *)
(*                                                                         *)
(*   live        the resources that exist                                  *)
(*   guarded     whether the object carries the reconciler's finalizer     *)
(*   incidents   how many events could have separated the two              *)
(***************************************************************************)
EXTENDS Naturals, FiniteSets

VARIABLES live, guarded, incidents

vars == <<live, guarded, incidents>>

Init == live = {} /\ guarded = FALSE /\ incidents = 0

\* Every live resource is put down to an incident: none that the reconciler
\* should know of is left.
Cleared == Cardinality(live) <= incidents

OneMore == \E r \in live' \ live : live' = live \cup {r}

\* The finalizer comes before the first resource ...
Guard ==
    /\ ~guarded
    /\ guarded' = TRUE
    /\ UNCHANGED <<live, incidents>>

\* ... and a resource is made only under it, and only in place of none.
Create ==
    /\ OneMore
    /\ Cleared
    /\ guarded \/ incidents > 0
    /\ UNCHANGED <<guarded, incidents>>

\* Resources go, asked for or not; a cluster takes all its pools with it.
Destroy ==
    /\ live' # live
    /\ live' \subseteq live
    /\ UNCHANGED <<guarded, incidents>>

\* The finalizer is dropped when nothing is left to clean up.
Release ==
    /\ guarded
    /\ guarded' = FALSE
    /\ Cleared
    /\ UNCHANGED <<live, incidents>>

\* A crash, a lost answer, a stale read: a resource more at most, made as
\* Create makes it, or the finalizer stored or dropped by a patch whose answer
\* was an error.
Incident ==
    /\ incidents' = incidents + 1
    /\ \/ live' = live /\ guarded' \in BOOLEAN /\ (guarded /\ ~guarded' => Cleared)
       \/ OneMore /\ Cleared /\ guarded' = guarded

Next == Guard \/ Create \/ Destroy \/ Release \/ Incident

Spec == Init /\ [][Next]_vars

----
\* What follows for who implements it: beside the one resource the object is
\* for, there is at most one more per incident.
Bounded ==
    /\ incidents \in Nat /\ IsFiniteSet(live)
    /\ Cardinality(live) <= incidents + 1

====
