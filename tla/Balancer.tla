------------------------------ MODULE Balancer -------------------------------
(***************************************************************************)
(* The rules by which Pool.Next (internal/proxy/upstream.go) chooses among *)
(* the candidates of one pick, as operators.  A candidate is named by its  *)
(* position in the slice p.backends, so the slice `cands` of the code,     *)
(* which keeps that order, is a set of numbers here.                       *)
(***************************************************************************)
EXTENDS Integers, FiniteSets, Functions

CONSTANT
    Weight          \* Weight[b]: Backend.Weight, at least 1 (newBackend)

(* b is cands[i], positions counted from 0. *)
IsAt(b, cands, i) == Cardinality({c \in cands : c < b}) = i

(* weighted: every candidate gains its weight, the first of the largest is *)
(* picked and pays the total.                                              *)
Raised(curW, cands) ==
    [b \in DOMAIN curW |-> curW[b] + (IF b \in cands THEN Weight[b] ELSE 0)]

TotalWeight(cands) == SumFunctionOnSet(Weight, cands)

IsHeaviest_static_bug(b, curW, cands) ==   \* the cursors are not consulted
    \A c \in cands :
        Weight[c] < Weight[b] \/ (Weight[c] = Weight[b] /\ b <= c)

IsHeaviest(b, curW, cands) ==
    LET w == Raised(curW, cands)
    IN  \A c \in cands : w[c] < w[b] \/ (w[c] = w[b] /\ b <= c)

Charged_pool_bug(b, curW, cands) ==        \* the whole pool is charged
    [Raised(curW, cands) EXCEPT ![b] = @ - SumFunction(Weight)]

Charged(b, curW, cands) ==
    [Raised(curW, cands) EXCEPT ![b] = @ - TotalWeight(cands)]

(* least_conn: a node with load open connections beats (best, bestLoad).   *)
(* The code divides as float64; the products compare the same fractions.   *)
LessLoaded(b, load, best, bestLoad) ==
    load * Weight[best] < bestLoad * Weight[b]
==============================================================================
