---- MODULE OwnershipProofs ----
(***************************************************************************)
(* Ownership bounds what there can be of a resource.  ControlPlane and     *)
(* NodePool implement Ownership, so the bound is theirs as well.           *)
(***************************************************************************)
EXTENDS Ownership, FiniteSetTheorems, TLAPS

\* One resource more makes the cardinality grow by one.
LEMMA OneMoreBounds ==
    ASSUME Bounded, OneMore
    PROVE  IsFiniteSet(live') /\ Cardinality(live') = Cardinality(live) + 1
<1>1. PICK r \in live' \ live : live' = live \cup {r}
  BY DEF OneMore
<1> QED
  BY <1>1, FS_AddElement DEF Bounded

\* Whatever a reconciler that implements Ownership goes through, it pays for at
\* most one resource more than there were crashes, lost answers or stale reads:
\* createCluster and CreateNodePool are reached with nothing else left.
THEOREM OwnershipBounds == Spec => []Bounded
<1>1. Init => Bounded
  BY FS_EmptySet DEF Init, Bounded
<1>2. Bounded /\ [Next]_vars => Bounded'
  <2> SUFFICES ASSUME Bounded, [Next]_vars
               PROVE  Bounded'
    OBVIOUS
  <2>0. Cardinality(live) \in Nat
    BY FS_CardinalityType DEF Bounded
  <2>1. CASE Guard
    BY <2>1 DEF Guard, Bounded
  <2>2. CASE Create
    <3>1. OneMore /\ Cardinality(live) <= incidents /\ incidents' = incidents
      BY <2>2 DEF Create, Cleared
    <3> QED
      BY <3>1, <2>0, OneMoreBounds DEF Bounded
  <2>3. CASE Destroy
    <3>1. live' \subseteq live /\ incidents' = incidents
      BY <2>3 DEF Destroy
    <3>2. /\ IsFiniteSet(live')
          /\ Cardinality(live') <= Cardinality(live)
          /\ Cardinality(live') \in Nat
      BY <3>1, FS_Subset, FS_CardinalityType DEF Bounded
    <3> QED
      BY <3>1, <3>2, <2>0 DEF Bounded
  <2>4. CASE Release
    BY <2>4 DEF Release, Bounded
  <2>5. CASE Incident
    <3>1. CASE live' = live /\ incidents' = incidents + 1
      BY <3>1, <2>0 DEF Bounded
    <3>2. CASE OneMore /\ Cardinality(live) <= incidents /\ incidents' = incidents + 1
      BY <3>2, <2>0, OneMoreBounds DEF Bounded
    <3> QED
      BY <2>5, <3>1, <3>2 DEF Incident, Cleared
  <2>6. CASE UNCHANGED vars
    BY <2>6 DEF vars, Bounded
  <2> QED
    BY <2>1, <2>2, <2>3, <2>4, <2>5, <2>6 DEF Next
<1> QED
  BY <1>1, <1>2, PTL DEF Spec

====
