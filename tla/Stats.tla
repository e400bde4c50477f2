-------------------------------- MODULE Stats --------------------------------
(***************************************************************************)
(* The metrics of the proxy (internal/stats/stats.go, Collector), fed by   *)
(* Engine.ServeHTTP and read by the console: the number of requests in     *)
(* progress, the requests of each of the last seconds in a ring that Begin *)
(* moves forward, and the ring of access log entries.                      *)
(*                                                                         *)
(* Begin reads the clock before it takes c.mu, and the atomic counters     *)
(* move outside c.mu: each is a step of its own.                           *)
(***************************************************************************)
EXTENDS Integers, SequencesExt

CONSTANTS
    Requests,       \* slots for concurrent requests
    Slots,          \* length of Collector.buckets, 60 in the code
    LogCap,         \* Collector.logCap
    LogAccess,      \* config Log.Access
    Unrecorded,     \* ServeHTTP may leave before it reaches End
    MaxTime,        \* bound of the model: the clock stops there
    MaxTotal        \* bound of the model: requests that begin

ASSUME StatsAssumption ==
    /\ Slots \in Nat \ {0} /\ LogCap \in Nat \ {0}
    /\ LogAccess \in BOOLEAN /\ Unrecorded \in BOOLEAN
    /\ MaxTime \in Nat /\ MaxTotal \in Nat

VARIABLES
    clock,          \* time.Now().Unix()
    active,         \* Collector.active
    total,          \* Collector.total
    curSec,         \* Collector.curSec
    buckets,        \* buckets[i]: Collector.buckets
    served,         \* the sum of RouteStat.Requests over the routes
    logs,           \* Collector.logs, an entry being its number
    logPos,         \* Collector.logPos
    phase,          \* phase[r]: where request r is
    sec,            \* sec[r]: the second Begin has read
    began,          \* history: began[s], the requests Begin counted for s
    written         \* history: entries written since the log was cleared

ringVars == <<curSec, buckets>>
logVars == <<logs, logPos, served>>
statsVars == <<clock, active, total, ringVars, logVars, phase, sec, began, written>>

StatsInit ==
    /\ clock = 0 /\ curSec = 0
    /\ active = 0 /\ total = 0 /\ served = 0
    /\ buckets = [i \in 0..Slots - 1 |-> 0]
    /\ logs = <<>> /\ logPos = 0
    /\ phase = [r \in Requests |-> "idle"]
    /\ sec = [r \in Requests |-> 0]
    /\ began = [s \in 0..MaxTime |-> 0]
    /\ written = 0

Move(r, place) == phase' = [phase EXCEPT ![r] = place]

Elapse ==
    /\ clock < MaxTime
    /\ clock' = clock + 1
    /\ UNCHANGED <<active, total, ringVars, logVars, phase, sec, began, written>>
------------------------------------------------------------------------------
(* Collector.Begin *)

Enter(r) ==
    /\ phase[r] = "idle"
    /\ total < MaxTotal
    /\ active' = active + 1
    /\ total' = total + 1
    /\ sec' = [sec EXCEPT ![r] = clock]
    /\ Move(r, "entered")
    /\ UNCHANGED <<clock, ringVars, logVars, began, written>>

Rolled_short_bug(s) ==         \* the second s itself is not cleared
    IF s - curSec >= Slots
    THEN [i \in DOMAIN buckets |-> 0]
    ELSE [i \in DOMAIN buckets |->
            IF \E t \in curSec + 1 .. s - 1 : t % Slots = i THEN 0 ELSE buckets[i]]

(* The ring at second s: the seconds after curSec up to s are new.  There  *)
(* are none when another request has already moved curSec beyond s.        *)
Rolled(s) ==
    IF s - curSec >= Slots
    THEN [i \in DOMAIN buckets |-> 0]
    ELSE [i \in DOMAIN buckets |->
            IF \E t \in curSec + 1 .. s : t % Slots = i THEN 0 ELSE buckets[i]]

(* The critical section.  curSec follows the caller, backwards as well. *)
Count(r) ==
    /\ phase[r] = "entered"
    /\ buckets' = [Rolled(sec[r]) EXCEPT ![sec[r] % Slots] = @ + 1]
    /\ curSec' = sec[r]
    /\ began' = [began EXCEPT ![sec[r]] = @ + 1]
    /\ sec' = [sec EXCEPT ![r] = 0]
    /\ Move(r, "serving")
    /\ UNCHANGED <<clock, active, total, logVars, written>>
------------------------------------------------------------------------------
(* Collector.End, called by ServeHTTP when the access log is on *)

Finish(r) ==
    /\ phase[r] = "serving"
    /\ LogAccess
    /\ active' = active - 1
    /\ Move(r, "finished")
    /\ UNCHANGED <<clock, total, ringVars, logVars, sec, began, written>>

(* The ring is filled once, then the oldest entry is replaced. *)
Record(r) ==
    /\ phase[r] = "finished"
    /\ served' = served + 1
    /\ written' = written + 1
    /\ IF Len(logs) < LogCap
       THEN logs' = Append(logs, written + 1) /\ UNCHANGED logPos
       ELSE /\ logs' = [logs EXCEPT ![logPos + 1] = written + 1]
            /\ logPos' = (logPos + 1) % LogCap
    /\ Move(r, "idle")
    /\ UNCHANGED <<clock, active, total, ringVars, sec, began>>

Clear_position_bug ==          \* the position survives
    /\ logs' = <<>>
    /\ written' = 0
    /\ UNCHANGED <<clock, active, total, ringVars, logPos, served, phase, sec, began>>

Clear ==
    /\ logs' = <<>>
    /\ logPos' = 0
    /\ written' = 0
    /\ UNCHANGED <<clock, active, total, ringVars, served, phase, sec, began>>

(* ServeHTTP without End: the access log is off, the path of a             *)
(* domain_in_path route names no domain, or the client of a streamed       *)
(* response is gone and the reverse proxy panics with ErrAbortHandler.     *)
LeaveUnrecorded(r) ==
    /\ phase[r] = "serving"
    /\ Unrecorded \/ ~LogAccess
    /\ Move(r, "idle")
    /\ UNCHANGED <<clock, active, total, ringVars, logVars, sec, began, written>>
------------------------------------------------------------------------------
(* What the console is told. *)

(* Collector.Logs *)
Logs(limit) ==
    LET n == Len(logs)
        wanted == IF limit <= 0 \/ limit > n THEN n ELSE limit
    IN  [i \in 1..wanted |-> logs[((logPos + n - i + n) % n) + 1]]

(* Collector.Snapshot: what it reports for second s, one of the last Slots. *)
Reported(s) == buckets[s % Slots]

Window == {s \in 0..MaxTime : s <= clock /\ s > clock - Slots}
------------------------------------------------------------------------------
StatsNext ==
    \/ Elapse
    \/ \E r \in Requests :
          Enter(r) \/ Count(r) \/ Finish(r) \/ Record(r) \/ LeaveUnrecorded(r)
    \/ Clear

StatsSpec == StatsInit /\ [][StatsNext]_statsVars
------------------------------------------------------------------------------
(***************************************************************************)
(* The console's log page: the latest entries, newest first, whatever the  *)
(* limit, however often the ring has gone round and been cleared.          *)
(***************************************************************************)
LogsNewestFirst ==
    LET kept == IF written < LogCap THEN written ELSE LogCap
    IN  \A limit \in 0..LogCap + 1 :
           Logs(limit) =
              [i \in 1..(IF limit = 0 \/ limit > kept THEN kept ELSE limit) |->
                  written - i + 1]

(***************************************************************************)
(* A request that was counted vouches for the ring up to its second: what  *)
(* is reported for a second that is not after it is never more than the    *)
(* requests that began in it, however late their Begin came to the lock.   *)
(***************************************************************************)
NoGhosts == \A s \in Window : s <= curSec => Reported(s) <= began[s]

(***************************************************************************)
(* README, "active connections", which the console explains as "being      *)
(* processed": the counter is the number of requests in progress.          *)
(***************************************************************************)
ActiveMatches ==
    active = Cardinality({r \in Requests : phase[r] \in {"entered", "serving"}})

(***************************************************************************)
(* stats.go:65, "distribution of the requests of the last 60 seconds", and *)
(* README, "real-time QPS": nothing is reported for a second that had no   *)
(* requests.  Only Begin clears the ring, so while no request comes the    *)
(* old seconds are reported as the new ones.                               *)
(***************************************************************************)
SeriesIsRecent == \A s \in Window : Reported(s) <= began[s]

(***************************************************************************)
(* The same comment, the other way: the requests of the last seconds are   *)
(* all there.  A Begin that comes late to the lock turns curSec back, and  *)
(* the next one clears the second in which others were counted.            *)
(***************************************************************************)
SeriesIsComplete == curSec = clock => \A s \in Window : Reported(s) >= began[s]
==============================================================================
