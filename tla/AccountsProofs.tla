---- MODULE AccountsProofs ----
(***************************************************************************)
(* The accounts that the ownership proofs keep: each resource that its     *)
(* reconciler has lost is put down to an incident of its own, and so is    *)
(* the one that a reconcile gone astray may yet lose.  The lemmas say what *)
(* the books need in order to balance after a step.                        *)
(***************************************************************************)
EXTENDS Integers, FiniteSets, FiniteSetTheorems, TLAPS

\* One incident for each resource of lost, and one for a reconcile astray.
Balanced(lost, astray, incidents) ==
    /\ IsFiniteSet(lost)
    /\ Cardinality(lost) + (IF astray THEN 1 ELSE 0) <= incidents

\* One element more adds one at most.
LEMMA OneMoreAtMost ==
    ASSUME NEW S, IsFiniteSet(S), NEW x, NEW T, T \subseteq S \cup {x}
    PROVE  /\ IsFiniteSet(T)
           /\ Cardinality(T) \in Nat /\ Cardinality(S) \in Nat
           /\ Cardinality(T) <= Cardinality(S) + 1
  <1>1. IsFiniteSet(S \cup {x}) /\ Cardinality(S) \in Nat
    BY FS_AddElement, FS_CardinalityType
  <1>2. Cardinality(S \cup {x}) <= Cardinality(S) + 1
    BY <1>1, FS_AddElement
  <1>3. IsFiniteSet(T) /\ Cardinality(T) <= Cardinality(S \cup {x})
    BY <1>1, FS_Subset
  <1>4. Cardinality(T) \in Nat /\ Cardinality(S \cup {x}) \in Nat
    BY <1>1, <1>3, FS_CardinalityType
  <1> QED BY <1>1, <1>2, <1>3, <1>4

LEMMA NoMore ==
    ASSUME NEW S, IsFiniteSet(S), NEW T, T \subseteq S
    PROVE  /\ IsFiniteSet(T)
           /\ Cardinality(T) \in Nat /\ Cardinality(S) \in Nat
           /\ Cardinality(T) <= Cardinality(S)
  BY FS_Subset, FS_CardinalityType

LEMMA BalancedEmpty == Balanced({}, FALSE, 0)
  BY FS_EmptySet DEF Balanced

\* A step that loses nothing and does not go astray.
LEMMA KeepsBalance ==
    ASSUME NEW lost, NEW astray, NEW n \in Nat, Balanced(lost, astray, n),
           NEW lost1, NEW astray1, NEW n1 \in Nat,
           lost1 \subseteq lost, astray1 => astray, n <= n1
    PROVE  Balanced(lost1, astray1, n1)
  <1>1. /\ IsFiniteSet(lost1) /\ Cardinality(lost1) <= Cardinality(lost)
        /\ Cardinality(lost) \in Nat /\ Cardinality(lost1) \in Nat
    BY NoMore DEF Balanced
  <1> QED BY <1>1 DEF Balanced

\* An incident pays for one resource, or for a reconcile that goes astray.
LEMMA IncidentPays ==
    ASSUME NEW lost, NEW astray, NEW n \in Nat, Balanced(lost, astray, n),
           NEW lost1, NEW astray1, NEW x,
           \/ lost1 \subseteq lost \cup {x} /\ (astray1 => astray)
           \/ lost1 \subseteq lost
    PROVE  Balanced(lost1, astray1, n + 1)
  <1>1. CASE lost1 \subseteq lost \cup {x} /\ (astray1 => astray)
    <2>1. /\ IsFiniteSet(lost1) /\ Cardinality(lost1) <= Cardinality(lost) + 1
          /\ Cardinality(lost) \in Nat /\ Cardinality(lost1) \in Nat
      BY <1>1, OneMoreAtMost DEF Balanced
    <2> QED BY <1>1, <2>1 DEF Balanced
  <1>2. CASE lost1 \subseteq lost
    <2>1. /\ IsFiniteSet(lost1) /\ Cardinality(lost1) <= Cardinality(lost)
          /\ Cardinality(lost) \in Nat /\ Cardinality(lost1) \in Nat
      BY <1>2, NoMore DEF Balanced
    <2> QED BY <2>1 DEF Balanced
  <1> QED BY <1>1, <1>2

\* What a stray reconcile loses when it is no longer one is paid already.
LEMMA ReturnPays ==
    ASSUME NEW lost, NEW n \in Nat, Balanced(lost, TRUE, n),
           NEW lost1, NEW n1 \in Nat, NEW x,
           lost1 \subseteq lost \cup {x}, n <= n1
    PROVE  Balanced(lost1, FALSE, n1)
  <1>1. /\ IsFiniteSet(lost1) /\ Cardinality(lost1) <= Cardinality(lost) + 1
        /\ Cardinality(lost) \in Nat /\ Cardinality(lost1) \in Nat
    BY OneMoreAtMost DEF Balanced
  <1> QED BY <1>1 DEF Balanced

\* Whatever is lost beside one resource at most, the books bound it.
LEMMA BalancedBounds ==
    ASSUME NEW lost, NEW astray, NEW n \in Nat, Balanced(lost, astray, n),
           NEW S, NEW x,
           S \subseteq lost \/ (astray /\ S \subseteq lost \cup {x})
    PROVE  IsFiniteSet(S) /\ Cardinality(S) <= n
  <1>1. CASE S \subseteq lost
    <2>1. /\ IsFiniteSet(S) /\ Cardinality(S) <= Cardinality(lost)
          /\ Cardinality(lost) \in Nat /\ Cardinality(S) \in Nat
      BY <1>1, NoMore DEF Balanced
    <2> QED BY <2>1 DEF Balanced
  <1>2. CASE astray /\ S \subseteq lost \cup {x}
    <2>1. /\ IsFiniteSet(S) /\ Cardinality(S) <= Cardinality(lost) + 1
          /\ Cardinality(lost) \in Nat /\ Cardinality(S) \in Nat
      BY <1>2, OneMoreAtMost DEF Balanced
    <2> QED BY <1>2, <2>1 DEF Balanced
  <1> QED BY <1>1, <1>2

\* Without incidents nothing is lost and nothing astray.
LEMMA BalancedClean ==
    ASSUME NEW lost, NEW astray \in BOOLEAN, Balanced(lost, astray, 0)
    PROVE  lost = {} /\ ~astray
  <1>1. Cardinality(lost) \in Nat
    BY FS_CardinalityType DEF Balanced
  <1>2. Cardinality(lost) = 0 /\ ~astray
    BY <1>1 DEF Balanced
  <1> QED BY <1>2, FS_EmptySet DEF Balanced

====
