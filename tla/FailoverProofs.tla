--------------------------- MODULE FailoverProofs ----------------------------
(***************************************************************************)
(* What the Failover specification guarantees, for any nodes, requests and *)
(* budgets.  UpstreamProofs carries these facts over to the proxy.         *)
(***************************************************************************)
EXTENDS Failover, FiniteSetTheorems, TLAPS

Attached ==
    \A r \in Requests :
        /\ phase[r] = "served" => at[r] \in Nodes
        /\ phase[r] \in {"idle", "refused"} => at[r] = Unattached

FailoverInv == FailoverTypeOK /\ Attached /\ OpenMatches /\ WithinBudget

Holding(b) == {r \in Requests : at[r] = b}

LEMMA HoldingFinite ==
    ASSUME FailoverAssumption, NEW b
    PROVE  IsFiniteSet(Holding(b))
  BY FS_Subset DEF Holding, FailoverAssumption

(* A step that attaches one request to a node moves that node's set and    *)
(* counter by one.                                                         *)
LEMMA AttachCounts ==
    ASSUME FailoverAssumption, FailoverTypeOK, OpenMatches,
           NEW r \in Requests, NEW b \in Nodes,
           at[r] = Unattached,
           at' = [at EXCEPT ![r] = b],
           open' = [open EXCEPT ![b] = @ + 1]
    PROVE  OpenMatches'
<1> SUFFICES ASSUME NEW c \in Nodes
             PROVE  open'[c] = Cardinality(Holding(c)')
  BY DEF OpenMatches, Holding
<1>0. open[c] = Cardinality(Holding(c))
  BY DEF OpenMatches, Holding
<1>1. CASE c = b
  <2>1. Holding(c)' = Holding(c) \cup {r}
    BY <1>1 DEF Holding, FailoverTypeOK
  <2>2. r \notin Holding(c)
    BY DEF FailoverAssumption, Holding
  <2>3. Cardinality(Holding(c) \cup {r}) = Cardinality(Holding(c)) + 1
    BY <2>2, HoldingFinite, FS_AddElement
  <2>4. open'[c] = open[c] + 1
    BY <1>1 DEF FailoverTypeOK
  <2> QED
    BY <1>0, <2>1, <2>3, <2>4
<1>2. CASE c # b
  <2>1. Holding(c)' = Holding(c)
    BY <1>2 DEF FailoverAssumption, Holding, FailoverTypeOK
  <2> QED
    BY <1>0, <1>2, <2>1 DEF FailoverTypeOK
<1> QED
  BY <1>1, <1>2

(* And a step that detaches it moves them back. *)
LEMMA DetachCounts ==
    ASSUME FailoverAssumption, FailoverTypeOK, OpenMatches,
           NEW r \in Requests, at[r] \in Nodes,
           at' = [at EXCEPT ![r] = Unattached],
           open' = [open EXCEPT ![at[r]] = @ - 1]
    PROVE  OpenMatches'
<1> SUFFICES ASSUME NEW c \in Nodes
             PROVE  open'[c] = Cardinality(Holding(c)')
  BY DEF OpenMatches, Holding
<1>0. open[c] = Cardinality(Holding(c))
  BY DEF OpenMatches, Holding
<1>1. CASE c = at[r]
  <2>1. Holding(c)' = Holding(c) \ {r}
    BY <1>1 DEF FailoverAssumption, Holding, FailoverTypeOK
  <2>2. r \in Holding(c)
    BY <1>1 DEF Holding
  <2>3. Cardinality(Holding(c) \ {r}) = Cardinality(Holding(c)) - 1
    BY <2>2, HoldingFinite, FS_RemoveElement
  <2>4. open'[c] = open[c] - 1
    BY <1>1 DEF FailoverTypeOK
  <2> QED
    BY <1>0, <2>1, <2>3, <2>4
<1>2. CASE c # at[r]
  <2>1. Holding(c)' = Holding(c)
    BY <1>2 DEF FailoverAssumption, Holding, FailoverTypeOK
  <2> QED
    BY <1>0, <1>2, <2>1 DEF FailoverTypeOK
<1> QED
  BY <1>1, <1>2

LEMMA FailoverInitInv ==
    ASSUME FailoverAssumption, FailoverInit
    PROVE  FailoverInv
<1>1. FailoverTypeOK /\ Attached
  BY DEF FailoverInit, FailoverTypeOK, Attached
<1>2. OpenMatches
  <2> SUFFICES ASSUME NEW b \in Nodes
               PROVE  open[b] = Cardinality(Holding(b))
    BY DEF OpenMatches, Holding
  <2>1. Holding(b) = {}
    BY DEF FailoverAssumption, FailoverInit, Holding
  <2> QED
    BY <2>1, FS_EmptySet DEF FailoverInit
<1>3. WithinBudget
  BY FS_EmptySet DEF FailoverAssumption, FailoverInit, WithinBudget
<1> QED
  BY <1>1, <1>2, <1>3 DEF FailoverInv

LEMMA FailoverStep ==
    ASSUME FailoverAssumption, FailoverInv, [FailoverNext]_failoverVars
    PROVE  FailoverInv'
<1> USE DEF FailoverInv
<1>1. ASSUME NEW r \in Requests, Arrive(r) PROVE FailoverInv'
  BY <1>1
  DEF FailoverAssumption, Arrive, FailoverTypeOK, Attached, OpenMatches,
      WithinBudget
<1>2. ASSUME NEW r \in Requests, Attach(r) PROVE FailoverInv'
  <2> PICK b \in Nodes \ failed[r] :
            /\ at' = [at EXCEPT ![r] = b]
            /\ open' = [open EXCEPT ![b] = @ + 1]
    BY <1>2 DEF Attach
  <2>1. FailoverTypeOK' /\ Attached'
    BY <1>2 DEF Attach, FailoverTypeOK, Attached
  <2>2. OpenMatches'
    BY <1>2, AttachCounts DEF Attach
  <2>3. WithinBudget'
    BY <1>2 DEF Attach, WithinBudget, FailoverTypeOK
  <2> QED
    BY <2>1, <2>2, <2>3
<1>3. ASSUME NEW r \in Requests, Fail(r) PROVE FailoverInv'
  <2>1. FailoverTypeOK' /\ Attached'
    BY <1>3 DEF FailoverAssumption, Fail, FailoverTypeOK, Attached
  <2>2. OpenMatches'
    BY <1>3, DetachCounts DEF Fail
  <2>3. WithinBudget'
    <3> SUFFICES ASSUME NEW q \in Requests
                 PROVE  /\ IsFiniteSet(failed'[q])
                        /\ Cardinality(failed'[q]) <= Budget[q]
                        /\ at'[q] \in Nodes /\ phase'[q] = "trying" =>
                              Cardinality(failed'[q]) < Budget[q]
      BY DEF WithinBudget
    <3>1. CASE q = r
      <4>1. failed'[q] = failed[r] \cup {at[r]} /\ at'[q] = Unattached
        BY <1>3, <3>1 DEF Fail, FailoverTypeOK
      <4>2. IsFiniteSet(failed[r]) /\ Cardinality(failed[r]) < Budget[r]
        BY <1>3 DEF Fail, WithinBudget
      <4>3. /\ IsFiniteSet(failed[r] \cup {at[r]})
            /\ \/ Cardinality(failed[r] \cup {at[r]}) = Cardinality(failed[r])
               \/ Cardinality(failed[r] \cup {at[r]}) = Cardinality(failed[r]) + 1
        BY <4>2, FS_AddElement, Zenon
      <4>4. Cardinality(failed[r]) \in Nat
        BY <4>2, FS_CardinalityType
      <4> HIDE DEF FailoverInv
      <4> QED
        BY <3>1, <4>1, <4>2, <4>3, <4>4 DEF FailoverAssumption
    <3>2. CASE q # r
      BY <1>3, <3>2 DEF Fail, FailoverTypeOK, WithinBudget
    <3> QED
      BY <3>1, <3>2
  <2> QED
    BY <2>1, <2>2, <2>3
<1>4. ASSUME NEW r \in Requests, Serve(r) PROVE FailoverInv'
  BY <1>4 DEF Serve, FailoverTypeOK, Attached, OpenMatches, WithinBudget
<1>5. ASSUME NEW r \in Requests, Detach(r) PROVE FailoverInv'
  <2>0. at[r] \in Nodes
    BY <1>5 DEF Detach, Attached
  <2>1. FailoverTypeOK' /\ Attached'
    BY <1>5, <2>0 DEF FailoverAssumption, Detach, FailoverTypeOK, Attached
  <2>2. OpenMatches'
    BY <1>5, <2>0, DetachCounts DEF Detach
  <2>3. WithinBudget'
    <3> SUFFICES ASSUME NEW q \in Requests
                 PROVE  /\ IsFiniteSet(failed'[q])
                        /\ Cardinality(failed'[q]) <= Budget[q]
                        /\ at'[q] \in Nodes /\ phase'[q] = "trying" =>
                              Cardinality(failed'[q]) < Budget[q]
      BY DEF WithinBudget
    <3>1. CASE q = r
      <4>1. failed'[q] = {} /\ phase'[q] = "idle"
        BY <1>5, <3>1 DEF Detach, FailoverTypeOK
      <4>2. IsFiniteSet({}) /\ Cardinality({}) = 0
        BY FS_EmptySet
      <4> QED
        BY <4>1, <4>2 DEF FailoverAssumption
    <3>2. CASE q # r
      BY <1>5, <3>2 DEF Detach, FailoverTypeOK, WithinBudget
    <3> QED
      BY <3>1, <3>2
  <2> QED
    BY <2>1, <2>2, <2>3
<1>6. ASSUME NEW r \in Requests, Refuse(r) PROVE FailoverInv'
  BY <1>6 DEF Refuse, FailoverTypeOK, Attached, OpenMatches, WithinBudget
<1>7. ASSUME NEW r \in Requests, Dismiss(r) PROVE FailoverInv'
  <2>1. FailoverTypeOK' /\ Attached' /\ OpenMatches'
    BY <1>7 DEF Dismiss, FailoverTypeOK, Attached, OpenMatches
  <2>2. WithinBudget'
    <3> SUFFICES ASSUME NEW q \in Requests
                 PROVE  /\ IsFiniteSet(failed'[q])
                        /\ Cardinality(failed'[q]) <= Budget[q]
                        /\ at'[q] \in Nodes /\ phase'[q] = "trying" =>
                              Cardinality(failed'[q]) < Budget[q]
      BY DEF WithinBudget
    <3>1. CASE q = r
      <4>1. failed'[q] = {} /\ phase'[q] = "idle"
        BY <1>7, <3>1 DEF Dismiss, FailoverTypeOK
      <4>2. IsFiniteSet({}) /\ Cardinality({}) = 0
        BY FS_EmptySet
      <4> QED
        BY <4>1, <4>2 DEF FailoverAssumption
    <3>2. CASE q # r
      BY <1>7, <3>2 DEF Dismiss, FailoverTypeOK, WithinBudget
    <3> QED
      BY <3>1, <3>2
  <2> QED
    BY <2>1, <2>2
<1>8. ASSUME NEW r \in Requests, AnswerLocally(r) PROVE FailoverInv'
  BY <1>8
  DEF AnswerLocally, FailoverTypeOK, Attached, OpenMatches, WithinBudget
<1>9. CASE UNCHANGED failoverVars
  BY <1>9
  DEF failoverVars, FailoverTypeOK, Attached, OpenMatches, WithinBudget
<1> QED
  BY <1>1, <1>2, <1>3, <1>4, <1>5, <1>6, <1>7, <1>8, <1>9 DEF FailoverNext

(***************************************************************************)
(* Whoever implements Failover has exact connection counters and never     *)
(* fails a request on more nodes than it has attempts.                     *)
(***************************************************************************)
THEOREM FailoverSafe ==
    ASSUME FailoverAssumption
    PROVE  FailoverSpec => [](OpenMatches /\ WithinBudget)
<1>1. FailoverInit => FailoverInv
  BY FailoverInitInv
<1>2. FailoverInv /\ [FailoverNext]_failoverVars => FailoverInv'
  BY FailoverStep
<1>3. FailoverInv => OpenMatches /\ WithinBudget
  BY DEF FailoverInv
<1> QED
  BY <1>1, <1>2, <1>3, PTL DEF FailoverSpec
==============================================================================
