------------------------------ MODULE Failover -------------------------------
(***************************************************************************)
(* What a pool of upstream nodes promises the requests of a route, without *)
(* saying how nodes are chosen or judged: a request is attached to at most *)
(* one node at a time; a node that failed it is never tried again for it;  *)
(* it fails at most Budget[r] times; and open[b], the number the balancer  *)
(* and the console read, moves with every attachment and detachment.       *)
(***************************************************************************)
EXTENDS Integers, FiniteSets

CONSTANTS Nodes, Requests, Unattached, Budget

(* What the parameters must be: the hypothesis of the theorems about this   *)
(* module, which Upstream is shown to satisfy.                             *)
FailoverAssumption ==
    /\ IsFiniteSet(Requests)
    /\ Unattached \notin Nodes
    /\ Budget \in [Requests -> Nat]

VARIABLES
    phase,          \* phase[r]: "idle", "trying", "served" or "refused"
    failed,         \* failed[r]: the nodes that failed r
    at,             \* at[r]: the node r is attached to
    open            \* open[b]: attachments of node b

failoverVars == <<phase, failed, at, open>>

FailoverInit ==
    /\ phase = [r \in Requests |-> "idle"]
    /\ failed = [r \in Requests |-> {}]
    /\ at = [r \in Requests |-> Unattached]
    /\ open = [b \in Nodes |-> 0]

Arrive(r) ==
    /\ phase[r] = "idle"
    /\ phase' = [phase EXCEPT ![r] = "trying"]
    /\ UNCHANGED <<failed, at, open>>

Attach(r) ==
    /\ phase[r] = "trying"
    /\ at[r] = Unattached
    /\ Cardinality(failed[r]) < Budget[r]
    /\ \E b \in Nodes \ failed[r] :
          /\ at' = [at EXCEPT ![r] = b]
          /\ open' = [open EXCEPT ![b] = @ + 1]
    /\ UNCHANGED <<phase, failed>>

Fail(r) ==
    /\ phase[r] = "trying"
    /\ at[r] \in Nodes
    /\ failed' = [failed EXCEPT ![r] = @ \cup {at[r]}]
    /\ at' = [at EXCEPT ![r] = Unattached]
    /\ open' = [open EXCEPT ![at[r]] = @ - 1]
    /\ UNCHANGED phase

Serve(r) ==
    /\ phase[r] = "trying"
    /\ at[r] \in Nodes
    /\ phase' = [phase EXCEPT ![r] = "served"]
    /\ UNCHANGED <<failed, at, open>>

(* The response is over. *)
Detach(r) ==
    /\ phase[r] = "served"
    /\ phase' = [phase EXCEPT ![r] = "idle"]
    /\ failed' = [failed EXCEPT ![r] = {}]
    /\ at' = [at EXCEPT ![r] = Unattached]
    /\ open' = [open EXCEPT ![at[r]] = @ - 1]

Refuse(r) ==
    /\ phase[r] = "trying"
    /\ at[r] = Unattached
    /\ phase' = [phase EXCEPT ![r] = "refused"]
    /\ UNCHANGED <<failed, at, open>>

Dismiss(r) ==
    /\ phase[r] = "refused"
    /\ phase' = [phase EXCEPT ![r] = "idle"]
    /\ failed' = [failed EXCEPT ![r] = {}]
    /\ UNCHANGED <<at, open>>

(* A built-in node answers without a connection, never after a failure. *)
AnswerLocally(r) ==
    /\ phase[r] = "trying"
    /\ at[r] = Unattached
    /\ failed[r] = {}
    /\ phase' = [phase EXCEPT ![r] = "idle"]
    /\ UNCHANGED <<failed, at, open>>

FailoverNext ==
    \E r \in Requests :
        \/ Arrive(r) \/ Attach(r) \/ Fail(r) \/ Serve(r) \/ Detach(r)
        \/ Refuse(r) \/ Dismiss(r) \/ AnswerLocally(r)

FailoverSpec == FailoverInit /\ [][FailoverNext]_failoverVars
------------------------------------------------------------------------------
FailoverTypeOK ==
    /\ phase \in [Requests -> {"idle", "trying", "served", "refused"}]
    /\ failed \in [Requests -> SUBSET Nodes]
    /\ at \in [Requests -> Nodes \cup {Unattached}]
    /\ open \in [Nodes -> Int]

(***************************************************************************)
(* The counters are the attachments, neither leaked nor counted twice.     *)
(***************************************************************************)
OpenMatches ==
    \A b \in Nodes : open[b] = Cardinality({r \in Requests : at[r] = b})

(***************************************************************************)
(* No request fails on more nodes than it has attempts.                    *)
(***************************************************************************)
WithinBudget ==
    \A r \in Requests :
        /\ IsFiniteSet(failed[r])
        /\ Cardinality(failed[r]) <= Budget[r]
        /\ at[r] \in Nodes /\ phase[r] = "trying" =>
              Cardinality(failed[r]) < Budget[r]
==============================================================================
