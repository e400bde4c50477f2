------------------------------ MODULE Upstream -------------------------------
(***************************************************************************)
(* Requests of one route competing for the nodes of its pool: the choice   *)
(* of a node (Pool.Next), the attempt and the retries on other nodes       *)
(* (routeRT.RoundTrip), the count of open connections (countBody), and the *)
(* health checker that probes the same nodes meanwhile                     *)
(* (HealthChecker.check).  Every read or write of shared memory is a step  *)
(* of its own: Pool.Next takes no lock while it reads the nodes one by     *)
(* one, and what an attempt found out is recorded after it has returned.   *)
(***************************************************************************)
EXTENDS Backend, Balancer

CONSTANTS
    Requests,       \* slots for concurrent requests
    Uploads,        \* the requests with a body, which are never retried
    Impatient,      \* the requests whose client may hang up, or time out
    Timed,          \* a response timeout is set (the default 0 sets none)
    ClientHash,     \* ClientHash[r]: fnv32 of the client address
    Retry,          \* route.Retry, at least 0
    LB,             \* route.LB, "round_robin" when empty
    Backup,         \* the nodes with backup = true
    Internal,       \* the nodes with an internal:// URL
    Conditions,     \* what the servers behind the nodes may be like
    RRPeriod        \* bound of the model: p.rr counts modulo this

ASSUME RequestsAssumption ==
    /\ IsFiniteSet(Requests)
    /\ Uploads \subseteq Requests
    /\ Impatient \subseteq Requests
    /\ ClientHash \in [Requests -> Nat]

ASSUME RouteAssumption ==
    /\ Retry \in Nat
    /\ LB \in {"random", "least_conn", "ip_hash", "weighted", "round_robin"}
    /\ Backup \subseteq Nodes
    /\ Internal \subseteq Nodes
    /\ Weight \in [Nodes -> Nat \ {0}]

ASSUME TimedAssumption == Timed \in BOOLEAN

(* "up" answers well, "sick" answers the health path with an error status, *)
(* "down" takes no connection, "silent" takes one and never answers.       *)
AllConditions == {"up", "sick", "down", "silent"}

ASSUME ConditionsAssumption ==
    "up" \in Conditions /\ Conditions \subseteq AllConditions

(* The counter is used modulo the number of candidates only. *)
ASSUME RRAssumption ==
    RRPeriod \in Nat \ {0} /\ \A n \in Nodes : RRPeriod % n = 0

None == 0

VARIABLES
    conns,          \* conns[b]: Backend.conns
    rr,             \* Pool.rr
    curW,           \* curW[b]: Backend.curW
    pc,             \* pc[r]: where request r is
    node,           \* node[r]: the chosen backend, None outside an attempt
    exclude,        \* exclude[r]: the nodes that failed r
    tries,          \* tries[r]: the loop counter i of RoundTrip
    scan,           \* scan[r]: the locals of Pool.Next
    gone,           \* gone[r]: the context of r is done
    probe,          \* node the health checker is at, None between rounds
    verdict,        \* what the probe found, "none" before its answer
    server          \* server[b]: the real server behind the node

poolVars == <<conns, rr, curW>>
requestVars == <<pc, node, exclude, tries, scan, gone>>
checkerVars == <<probe, verdict>>
vars == <<backendVars, poolVars, requestVars, checkerVars, server>>

Places == {"idle", "scan", "weigh", "picked", "flight", "failed",
           "answered", "body", "unavailable", "error"}

Scans == [pass : 1..2, at : 1..N + 1, cands : SUBSET Nodes,
          best : Nodes \cup {None}, load : Int]

FreshScan ==
    [pass |-> 1, at |-> 1, cands |-> {}, best |-> None, load |-> 0]

TypeOK ==
    /\ BackendTypeOK
    /\ conns \in [Nodes -> Nat]
    /\ rr \in 0..RRPeriod - 1
    /\ curW \in [Nodes -> Int]
    /\ pc \in [Requests -> Places]
    /\ node \in [Requests -> Nodes \cup {None}]
    /\ exclude \in [Requests -> SUBSET Nodes]
    /\ tries \in [Requests -> 0..Retry + 1]
    /\ scan \in [Requests -> Scans]
    /\ gone \in [Requests -> BOOLEAN]
    /\ probe \in Nodes \cup {None}
    /\ verdict \in {"none", "ok", "bad"}
    /\ server \in [Nodes -> AllConditions]

Init ==
    /\ BackendInit
    /\ conns = [b \in Nodes |-> 0]
    /\ rr = 0
    /\ curW = [b \in Nodes |-> 0]
    /\ pc = [r \in Requests |-> "idle"]
    /\ node = [r \in Requests |-> None]
    /\ exclude = [r \in Requests |-> {}]
    /\ tries = [r \in Requests |-> 0]
    /\ scan = [r \in Requests |-> FreshScan]
    /\ gone = [r \in Requests |-> FALSE]
    /\ probe = IF HealthEnabled THEN 1 ELSE None
    /\ verdict = "none"
    /\ server = [b \in Nodes |-> "up"]

Goto(r, place) == pc' = [pc EXCEPT ![r] = place]

(* The locals of a request that is over are forgotten. *)
Leave(r) ==
    /\ Goto(r, "idle")
    /\ node' = [node EXCEPT ![r] = None]
    /\ exclude' = [exclude EXCEPT ![r] = {}]
    /\ tries' = [tries EXCEPT ![r] = 0]
    /\ scan' = [scan EXCEPT ![r] = FreshScan]
    /\ gone' = [gone EXCEPT ![r] = FALSE]

Attempts_bug(r) == IF r \in Uploads THEN 1 ELSE Retry     \* one too few

Attempts(r) == IF r \in Uploads THEN 1 ELSE 1 + Retry
------------------------------------------------------------------------------
(* Pool.Next: from ServeHTTP at first, and before each retry. *)

Start(r) ==
    /\ pc[r] = "idle"
    /\ Goto(r, "scan")
    /\ UNCHANGED <<backendVars, poolVars, node, exclude, tries, scan, gone,
                   checkerVars, server>>

Look_backup_never_bug(r) ==    \* the second pass wants primaries too
    /\ pc[r] = "scan"
    /\ scan[r].at <= N
    /\ LET b == scan[r].at
           wanted == b \notin exclude[r] /\ alive[b] /\ b \notin Backup
       IN  scan' = [scan EXCEPT ![r].at = @ + 1,
                                ![r].cands = IF wanted THEN @ \cup {b} ELSE @]
    /\ UNCHANGED <<backendVars, poolVars, pc, node, exclude, tries, gone,
                   checkerVars, server>>

Look_backup_always_bug(r) ==   \* the first pass accepts a backup
    /\ pc[r] = "scan"
    /\ scan[r].at <= N
    /\ LET b == scan[r].at
           wanted == b \notin exclude[r] /\ alive[b]
       IN  scan' = [scan EXCEPT ![r].at = @ + 1,
                                ![r].cands = IF wanted THEN @ \cup {b} ELSE @]
    /\ UNCHANGED <<backendVars, poolVars, pc, node, exclude, tries, gone,
                   checkerVars, server>>

(* One node of the slice is looked at.  The first pass wants a healthy     *)
(* node that is not a backup, the second any healthy node.                 *)
Look(r) ==
    /\ pc[r] = "scan"
    /\ scan[r].at <= N
    /\ LET b == scan[r].at
           wanted == /\ b \notin exclude[r]
                     /\ alive[b]
                     /\ b \in Backup => scan[r].pass = 2
       IN  scan' = [scan EXCEPT ![r].at = @ + 1,
                                ![r].cands = IF wanted THEN @ \cup {b} ELSE @]
    /\ UNCHANGED <<backendVars, poolVars, pc, node, exclude, tries, gone,
                   checkerVars, server>>

SecondPass(r) ==
    /\ pc[r] = "scan"
    /\ scan[r].at > N
    /\ scan[r].cands = {}
    /\ scan[r].pass = 1
    /\ scan' = [scan EXCEPT ![r].pass = 2, ![r].at = 1]
    /\ UNCHANGED <<backendVars, poolVars, pc, node, exclude, tries, gone,
                   checkerVars, server>>

(* Next returns nil: ServeHTTP answers 502, RoundTrip its last error. *)
NothingFound(r) ==
    /\ pc[r] = "scan"
    /\ scan[r].at > N
    /\ scan[r].cands = {}
    /\ scan[r].pass = 2
    /\ Goto(r, IF tries[r] = 0 THEN "unavailable" ELSE "error")
    /\ UNCHANGED <<backendVars, poolVars, node, exclude, tries, scan, gone,
                   checkerVars, server>>

(* The strategy's choice, the step on the shared cursor included. *)
Chosen(b, r) ==
    LET cands == scan[r].cands
        count == Cardinality(cands)
        next == (rr + 1) % RRPeriod
    IN  CASE LB = "random"   -> UNCHANGED <<rr, curW>>
          [] LB = "ip_hash"  -> /\ IsAt(b, cands, ClientHash[r] % count)
                                /\ UNCHANGED <<rr, curW>>
          [] LB = "weighted" -> /\ IsHeaviest(b, curW, cands)
                                /\ curW' = Charged(b, curW, cands)
                                /\ UNCHANGED rr
          [] OTHER           -> /\ IsAt(b, cands, next % count)
                                /\ rr' = next
                                /\ UNCHANGED curW

Pick(r) ==
    /\ pc[r] = "scan"
    /\ scan[r].at > N
    /\ scan[r].cands # {}
    /\ LB # "least_conn"
    /\ \E b \in scan[r].cands :
          /\ Chosen(b, r)
          /\ node' = [node EXCEPT ![r] = b]
    /\ scan' = [scan EXCEPT ![r] = FreshScan]
    /\ Goto(r, "picked")
    /\ UNCHANGED <<backendVars, conns, exclude, tries, gone, checkerVars,
                   server>>

(* least_conn reads the connection counts one candidate at a time; the     *)
(* best so far keeps the count it was read with.                           *)
StartWeighing(r) ==
    /\ pc[r] = "scan"
    /\ scan[r].at > N
    /\ LB = "least_conn"
    /\ \E b \in scan[r].cands :
          /\ IsAt(b, scan[r].cands, 0)
          /\ scan' = [scan EXCEPT ![r].best = b, ![r].load = conns[b],
                                  ![r].cands = @ \ {b}]
    /\ Goto(r, "weigh")
    /\ UNCHANGED <<backendVars, poolVars, node, exclude, tries, gone,
                   checkerVars, server>>

Weigh(r) ==
    /\ pc[r] = "weigh"
    /\ \E b \in scan[r].cands :
          /\ IsAt(b, scan[r].cands, 0)
          /\ LET better ==
                   LessLoaded(b, conns[b], scan[r].best, scan[r].load)
             IN  scan' = [scan EXCEPT
                            ![r].best  = IF better THEN b ELSE @,
                            ![r].load  = IF better THEN conns[b] ELSE @,
                            ![r].cands = @ \ {b}]
    /\ UNCHANGED <<backendVars, poolVars, pc, node, exclude, tries, gone,
                   checkerVars, server>>

PickLeast(r) ==
    /\ pc[r] = "weigh"
    /\ scan[r].cands = {}
    /\ node' = [node EXCEPT ![r] = scan[r].best]
    /\ scan' = [scan EXCEPT ![r] = FreshScan]
    /\ Goto(r, "picked")
    /\ UNCHANGED <<backendVars, poolVars, exclude, tries, gone, checkerVars,
                   server>>
------------------------------------------------------------------------------
(* routeRT.RoundTrip *)

(* RoundTrip checks for the built-in echo node before its loop only. *)
Echoes(r) == tries[r] = 0 /\ node[r] \in Internal

Echo(r) ==
    /\ pc[r] = "picked"
    /\ Echoes(r)
    /\ MarkSuccess(node[r])
    /\ Leave(r)
    /\ UNCHANGED <<poolVars, checkerVars, server>>

Dial(r) ==
    /\ pc[r] = "picked"
    /\ ~Echoes(r)
    /\ conns' = [conns EXCEPT ![node[r]] = @ + 1]
    /\ Goto(r, "flight")
    /\ UNCHANGED <<backendVars, rr, curW, node, exclude, tries, scan, gone,
                   checkerVars, server>>

AttemptReturns(r) ==
    /\ pc[r] = "flight"
    /\ node[r] \notin Internal
    /\ server[node[r]] \notin {"down", "silent"}
    /\ ~gone[r]
    /\ Goto(r, "answered")
    /\ UNCHANGED <<backendVars, poolVars, node, exclude, tries, scan, gone,
                   checkerVars, server>>

(* A connection that cannot be made: dialing is always bounded.  A client  *)
(* that hung up, or the route's timeout.  A server whose answer does not   *)
(* come, when there is a header timeout.  Or the transport, which knows no *)
(* internal:// scheme.                                                     *)
Hopeless(r) ==
    \/ server[node[r]] = "down"
    \/ server[node[r]] = "silent" /\ Timed
    \/ gone[r]
    \/ node[r] \in Internal

AttemptFails_leak_bug(r) ==    \* the connection is not given back
    /\ pc[r] = "flight"
    /\ Hopeless(r)
    /\ Goto(r, "failed")
    /\ UNCHANGED <<backendVars, poolVars, node, exclude, tries, scan, gone,
                   checkerVars, server>>

AttemptFails(r) ==
    /\ pc[r] = "flight"
    /\ Hopeless(r)
    /\ conns' = [conns EXCEPT ![node[r]] = @ - 1]
    /\ Goto(r, "failed")
    /\ UNCHANGED <<backendVars, rr, curW, node, exclude, tries, scan, gone,
                   checkerVars, server>>

RecordFailure_same_bug(r) ==   \* the node may be tried again
    /\ pc[r] = "failed"
    /\ MarkFail(node[r])
    /\ tries' = [tries EXCEPT ![r] = @ + 1]
    /\ node' = [node EXCEPT ![r] = None]
    /\ Goto(r, IF tries[r] + 1 < Attempts(r) THEN "scan" ELSE "error")
    /\ UNCHANGED <<poolVars, exclude, scan, gone, checkerVars, server>>

RecordFailure_more_bug(r) ==   \* one attempt too many
    /\ pc[r] = "failed"
    /\ MarkFail(node[r])
    /\ exclude' = [exclude EXCEPT ![r] = @ \cup {node[r]}]
    /\ tries' = [tries EXCEPT ![r] = @ + 1]
    /\ node' = [node EXCEPT ![r] = None]
    /\ Goto(r, IF tries[r] + 1 <= Attempts(r) THEN "scan" ELSE "error")
    /\ UNCHANGED <<poolVars, scan, gone, checkerVars, server>>

RecordFailure_forever_bug(r) ==    \* neither the loop nor the set advances
    /\ pc[r] = "failed"
    /\ MarkFail(node[r])
    /\ node' = [node EXCEPT ![r] = None]
    /\ Goto(r, "scan")
    /\ UNCHANGED <<poolVars, exclude, tries, scan, gone, checkerVars, server>>

RecordFailure(r) ==
    /\ pc[r] = "failed"
    /\ MarkFail(node[r])
    /\ exclude' = [exclude EXCEPT ![r] = @ \cup {node[r]}]
    /\ tries' = [tries EXCEPT ![r] = @ + 1]
    /\ node' = [node EXCEPT ![r] = None]
    /\ Goto(r, IF tries[r] + 1 < Attempts(r) THEN "scan" ELSE "error")
    /\ UNCHANGED <<poolVars, scan, gone, checkerVars, server>>

RecordSuccess(r) ==
    /\ pc[r] = "answered"
    /\ MarkSuccess(node[r])
    /\ Goto(r, "body")
    /\ UNCHANGED <<poolVars, node, exclude, tries, scan, gone, checkerVars,
                   server>>

(* countBody.Close: the response is copied, or its connection is broken.   *)
(* once.Do makes a second Close harmless.                                  *)
CloseBody(r) ==
    /\ pc[r] = "body"
    /\ conns' = [conns EXCEPT ![node[r]] = @ - 1]
    /\ Leave(r)
    /\ UNCHANGED <<backendVars, rr, curW, checkerVars, server>>

(* The error page is written: 502 of ServeHTTP, or RouteHandler.errorPage. *)
ShowError(r) ==
    /\ pc[r] \in {"unavailable", "error"}
    /\ Leave(r)
    /\ UNCHANGED <<backendVars, poolVars, checkerVars, server>>

(* The client closes its connection, or the route's timeout expires.  The  *)
(* context is consulted by the attempts and by nothing else.               *)
HangUp(r) ==
    /\ r \in Impatient
    /\ pc[r] \in {"scan", "weigh", "picked", "flight", "failed"}
    /\ ~gone[r]
    /\ gone' = [gone EXCEPT ![r] = TRUE]
    /\ UNCHANGED <<backendVars, poolVars, pc, node, exclude, tries, scan,
                   checkerVars, server>>
------------------------------------------------------------------------------
(* HealthChecker: one goroutine per route, the nodes in turn. *)

Tick ==
    /\ HealthEnabled
    /\ probe = None
    /\ probe' = 1
    /\ UNCHANGED <<backendVars, poolVars, requestVars, verdict, server>>

Advance == probe' = IF probe = N THEN None ELSE probe + 1

ProbeInternal ==
    /\ probe \in Internal
    /\ MarkSuccess(probe)
    /\ Advance
    /\ UNCHANGED <<poolVars, requestVars, verdict, server>>

ProbeAnswers_bug ==            \* only healthy nodes are asked
    /\ probe \in Nodes \ Internal
    /\ verdict = "none"
    /\ verdict' = IF server[probe] = "up" /\ alive[probe] THEN "ok" ELSE "bad"
    /\ UNCHANGED <<backendVars, poolVars, requestVars, probe, server>>

ProbeAnswers ==
    /\ probe \in Nodes \ Internal
    /\ verdict = "none"
    /\ verdict' = IF server[probe] = "up" THEN "ok" ELSE "bad"
    /\ UNCHANGED <<backendVars, poolVars, requestVars, probe, server>>

ProbeOK ==
    /\ verdict = "ok"
    /\ MarkOK(probe)
    /\ verdict' = "none"
    /\ Advance
    /\ UNCHANGED <<poolVars, requestVars, server>>

ProbeBad ==
    /\ verdict = "bad"
    /\ MarkFail(probe)
    /\ verdict' = "none"
    /\ Advance
    /\ UNCHANGED <<poolVars, requestVars, server>>

(* The world: a server fails, falls ill or recovers. *)
ServerChanges ==
    /\ \E b \in Nodes \ Internal, c \in Conditions :
          server' = [server EXCEPT ![b] = c]
    /\ UNCHANGED <<backendVars, poolVars, requestVars, checkerVars>>
------------------------------------------------------------------------------
Choose(r) ==
    \/ Look(r) \/ SecondPass(r) \/ NothingFound(r)
    \/ Pick(r) \/ StartWeighing(r) \/ Weigh(r) \/ PickLeast(r)

Attempt(r) ==
    \/ Echo(r) \/ Dial(r) \/ AttemptReturns(r) \/ AttemptFails(r)
    \/ RecordFailure(r) \/ RecordSuccess(r)

Check == Tick \/ ProbeInternal \/ ProbeAnswers \/ ProbeOK \/ ProbeBad

Next ==
    \/ \E r \in Requests :
          Start(r) \/ Choose(r) \/ Attempt(r) \/ CloseBody(r)
             \/ ShowError(r) \/ HangUp(r)
    \/ Check
    \/ ServerChanges

Spec == Init /\ [][Next]_vars

(* A goroutine that can take a step takes it.  An attempt on a silent      *)
(* server can take none unless it is timed or its client gives up: the     *)
(* route's timeout and global.responseTimeout are both 0 by default, which *)
(* is no limit, so nothing is assumed of it.  The checker's probes always  *)
(* have a timeout, and its ticker keeps firing.  Clients, servers, and the *)
(* length of a response body (a WebSocket may stay open) are not the       *)
(* proxy's to hurry.                                                       *)
Fairness ==
    /\ \A r \in Requests : WF_vars(Choose(r) \/ Attempt(r) \/ ShowError(r))
    /\ WF_vars(Check)

FairSpec == Spec /\ Fairness
------------------------------------------------------------------------------
(* The requests that hold a connection of node b. *)
Holders(b) ==
    {r \in Requests : pc[r] \in {"flight", "answered", "body"} /\ node[r] = b}

(***************************************************************************)
(* Backend.conns, which least_conn balances by and the console shows, is   *)
(* the number of attempts and open responses on the node: no path through  *)
(* failures, retries, hang-ups and Close counts one twice or forgets one.  *)
(***************************************************************************)
ConnsMatch == \A b \in Nodes : conns[b] = Cardinality(Holders(b))

(***************************************************************************)
(* "A failure is retried on another node": a request never goes back to a  *)
(* node that failed it, every failure costs exactly one of its 1 + Retry   *)
(* attempts, and it never starts an attempt it has no right to.            *)
(***************************************************************************)
FreshAttempt ==
    \A r \in Requests :
        /\ Cardinality(exclude[r]) = tries[r]
        /\ pc[r] \in {"weigh", "picked", "flight", "failed"} =>
              tries[r] < Attempts(r)
        /\ pc[r] \in {"picked", "flight", "failed"} => node[r] \notin exclude[r]

(***************************************************************************)
(* Upstream implements Failover.  A failed attempt gives its connection    *)
(* back before it is recorded, so between the two steps the node counts as *)
(* failed though it is not yet in the set the next scan excludes.          *)
(***************************************************************************)
Phase(r) ==
    CASE pc[r] = "idle" -> "idle"
      [] pc[r] = "body" -> "served"
      [] pc[r] \in {"unavailable", "error"} -> "refused"
      [] OTHER -> "trying"

Failed(r) == exclude[r] \cup (IF pc[r] = "failed" THEN {node[r]} ELSE {})

At(r) == IF pc[r] \in {"flight", "answered", "body"} THEN node[r] ELSE None

F == INSTANCE Failover WITH
        Unattached <- None,
        Budget <- [r \in Requests |-> Attempts(r)],
        phase <- [r \in Requests |-> Phase(r)],
        failed <- [r \in Requests |-> Failed(r)],
        at <- [r \in Requests |-> At(r)],
        open <- conns

ImplementsFailover == F!FailoverSpec

(***************************************************************************)
(* smoothWeighted moves the cursors of the candidates only, and those      *)
(* change with every failure and every retry.  Whatever the order, the     *)
(* cursors sum to zero: no pick gives or takes weight for good, so no node *)
(* is starved or favoured by what happened before.                         *)
(***************************************************************************)
CursorBalance == SumFunction(curW) = 0

(***************************************************************************)
(* Nor does the order let a cursor run away: whatever candidates the scans *)
(* find, it stays within half the weight of the pool for each node but one *)
(* (the weight of the pool itself is no bound: with weights 1, 1, 1 and 8  *)
(* a cursor gets to 12).  How long a node that comes back waits for its    *)
(* turn, or is favoured, does not depend on how long the proxy has run.    *)
(***************************************************************************)
CursorBound ==
    LET most == (N - 1) * TotalWeight(Nodes)
    IN  \A b \in Nodes : -most <= 2 * curW[b] /\ 2 * curW[b] <= most

(***************************************************************************)
(* The comment on HealthChecker.check: "a built-in upstream is healthy for *)
(* ever".  A retry that picks one does not echo but hands its internal://  *)
(* URL to the transport, whose error is then counted against it.           *)
(***************************************************************************)
InternalAlwaysHealthy == \A b \in Internal : alive[b]

(***************************************************************************)
(* README: "faulty nodes are taken out automatically".  Where the servers  *)
(* never fail, nothing should be taken out, whatever the clients do; but a *)
(* client that hangs up fails its own attempts on every node it is retried *)
(* on.  (Meaningful in runs whose Conditions is {"up"}.)                   *)
(***************************************************************************)
HealthyNodesStay == \A b \in Nodes : server[b] = "up" => alive[b]

(***************************************************************************)
(* Neither the scan nor the retry loop goes on for ever, whatever the      *)
(* nodes, the prober and the other requests do.  A request that is never   *)
(* answered waits for good in one attempt, without a timeout, on a node    *)
(* that keeps falling silent: nothing else holds a client up.              *)
(***************************************************************************)
RequestsAnswered ==
    \A r \in Requests :
        <>[](pc[r] \notin {"idle", "body", "unavailable", "error"}) =>
            /\ ~Timed
            /\ \E b \in Nodes :
                  /\ <>[](pc[r] = "flight" /\ node[r] = b)
                  /\ []<>(server[b] = "silent")

(***************************************************************************)
(* README, "automatic recovery": a node whose server is well for good is   *)
(* offered to clients again and again.                                     *)
(***************************************************************************)
NodeRecovers ==
    \A b \in Nodes : <>[](server[b] = "up") => []<>alive[b]

(***************************************************************************)
(* Pool.Next reads the flags one by one while they change.  If one node    *)
(* stays healthy, requests eventually stop being told that no node is      *)
(* available.                                                              *)
(***************************************************************************)
SteadyNodeIsFound ==
    \A b \in Nodes :
        <>[]alive[b] => <>[](\A r \in Requests : pc[r] # "unavailable")

(***************************************************************************)
(* The comment on Pool.Next: backups serve only when the primaries are     *)
(* out.  While one primary stays healthy, first attempts eventually never  *)
(* go to a backup.                                                         *)
(***************************************************************************)
BackupsRest ==
    \A b \in Nodes \ Backup :
        <>[]alive[b] =>
            <>[](\A r \in Requests :
                    pc[r] = "picked" /\ tries[r] = 0 => node[r] \notin Backup)

(***************************************************************************)
(* Retry with as many attempts as nodes: if one server is well for good,   *)
(* no patient request without a body eventually ends in an error, however  *)
(* the other servers flap.                                                 *)
(***************************************************************************)
FailoverSucceeds ==
    \A b \in Nodes \ Internal :
        <>[](server[b] = "up") =>
            <>[](\A r \in Requests \ (Uploads \cup Impatient) :
                    pc[r] \notin {"unavailable", "error"})
==============================================================================
