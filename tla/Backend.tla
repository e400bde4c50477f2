------------------------------- MODULE Backend -------------------------------
(***************************************************************************)
(* The health record of the upstream nodes of one pool                     *)
(* (internal/proxy/upstream.go, type Backend): the flag `alive` that the   *)
(* balancer reads, and the two counters that move it.  Three methods, each *)
(* one critical section under b.mu, are the only writers:                  *)
(*   markFail     a request or a probe failed on the node                  *)
(*   markOK       a probe of the active health checker succeeded           *)
(*   markSuccess  a proxied request succeeded (passive recovery)           *)
(* This module is what the record promises whoever calls it, in any order; *)
(* Upstream.tla is shown to implement it.                                  *)
(***************************************************************************)
EXTENDS Integers

CONSTANTS
    N,              \* number of nodes of the pool (route.Backends)
    HealthEnabled,  \* route.Health.Enabled
    Fails,          \* route.Health.Fails after Config.normalize
    Passes,         \* route.Health.Passes after Config.normalize
    MaxCount        \* bound of the model: the two counters stick there

ASSUME NodesAssumption == N \in Nat \ {0}

ASSUME HealthAssumption ==
    /\ HealthEnabled \in BOOLEAN
    /\ Fails \in Nat \ {0}
    /\ Passes \in Nat \ {0}

(* The node's position in the slice p.backends. *)
Nodes == 1..N

(* The failure count that takes a node out.  A request computes it from the *)
(* route (engine.go:343-346); the prober passes Health.Fails, which is the  *)
(* same number because probes run only when Health.Enabled and normalize    *)
(* then makes Fails positive.                                               *)
Threshold == IF HealthEnabled THEN Fails ELSE 3

(* Counters compare with >= only, so sticking at MaxCount loses nothing. *)
ASSUME CountAssumption ==
    MaxCount \in Nat /\ MaxCount >= Threshold /\ MaxCount >= Passes

VARIABLES
    alive,          \* alive[b]: what Backend.Alive() returns
    fails,          \* fails[b]: failures since the last reset
    okStreak        \* okStreak[b]: probe successes since the last failure

backendVars == <<alive, fails, okStreak>>

BackendTypeOK ==
    /\ alive \in [Nodes -> BOOLEAN]
    /\ fails \in [Nodes -> 0..MaxCount]
    /\ okStreak \in [Nodes -> 0..MaxCount]

Bump(n) == IF n < MaxCount THEN n + 1 ELSE n

(***************************************************************************)
(* Names that end in _bug are wrong variants of the definition that        *)
(* follows them.  No specification uses one: they are put in its place to  *)
(* see that a property notices.                                            *)
(***************************************************************************)

(* newBackend: a node starts out healthy. *)
BackendInit ==
    /\ alive = [b \in Nodes |-> TRUE]
    /\ fails = [b \in Nodes |-> 0]
    /\ okStreak = [b \in Nodes |-> 0]

MarkFail_streak_bug(b) ==      \* okStreak is not reset
    /\ fails' = [fails EXCEPT ![b] = Bump(@)]
    /\ UNCHANGED okStreak
    /\ alive' = [alive EXCEPT ![b] = @ /\ Bump(fails[b]) < Threshold]

MarkFail(b) ==
    /\ fails' = [fails EXCEPT ![b] = Bump(@)]
    /\ okStreak' = [okStreak EXCEPT ![b] = 0]
    /\ alive' = [alive EXCEPT ![b] = @ /\ Bump(fails[b]) < Threshold]

MarkOK_fails_bug(b) ==         \* the node is back with its old failures
    /\ okStreak' = [okStreak EXCEPT ![b] = Bump(@)]
    /\ alive' = [alive EXCEPT ![b] = @ \/ Bump(okStreak[b]) >= Passes]
    /\ UNCHANGED fails

MarkOK(b) ==
    /\ okStreak' = [okStreak EXCEPT ![b] = Bump(@)]
    /\ IF Bump(okStreak[b]) >= Passes
       THEN /\ fails' = [fails EXCEPT ![b] = 0]
            /\ alive' = [alive EXCEPT ![b] = TRUE]
       ELSE UNCHANGED <<alive, fails>>

MarkSuccess_fails_bug(b) ==    \* a success does not clear a healthy node
    /\ fails' = [fails EXCEPT ![b] = IF alive[b] THEN @ ELSE 0]
    /\ alive' = [alive EXCEPT ![b] = TRUE]
    /\ UNCHANGED okStreak

(* Passive recovery: one success is enough, and okStreak is left alone. *)
MarkSuccess(b) ==
    /\ fails' = [fails EXCEPT ![b] = 0]
    /\ alive' = [alive EXCEPT ![b] = TRUE]
    /\ UNCHANGED okStreak

BackendNext ==
    \E b \in Nodes : MarkFail(b) \/ MarkOK(b) \/ MarkSuccess(b)

BackendSpec == BackendInit /\ [][BackendNext]_backendVars

(***************************************************************************)
(* The balancer sees only the flag, the two health checks see only the     *)
(* counters.  A node is out exactly when its failures have reached the     *)
(* threshold: no path through markFail, markOK and markSuccess leaves a    *)
(* node out with a clean record, or in with a spent one.                   *)
(***************************************************************************)
DeadIffThreshold ==
    \A b \in Nodes : ~alive[b] <=> fails[b] >= Threshold
==============================================================================
