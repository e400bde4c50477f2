---------------------------- MODULE MonitorProofs ----------------------------
(***************************************************************************)
(* The two parts of the proxy that watch the others: the health checker,   *)
(* which sends the probes, and the collector, which counts the requests    *)
(* and keeps the access log.                                               *)
(*                                                                         *)
(* No probe is forgotten, for any number of goroutines that reload, of     *)
(* routes and of reloads.                                                  *)
(*                                                                         *)
(* The argument follows h.mu: whoever holds it has closed the channel in   *)
(* force, and only its holder makes another one.  So a channel is closed   *)
(* before it is superseded, and a Reset that is late to start its probes   *)
(* gives them either the channel in force or a closed one.                 *)
(*                                                                         *)
(* What the console shows of the log and of the last seconds is true, for  *)
(* any number of requests, any size of the two rings and any clock.        *)
(***************************************************************************)
EXTENDS HealthChecker, Stats, TLAPS

------------------------------------------------------------------------------
(***************************************************************************)
(* The health checker.                                                     *)
(***************************************************************************)
Inside == {"waiting", "asleep", "awake", "waited", "dead"}

Places == Inside \cup {"idle", "calling", "starting", "stopped"}

CheckerTypeOK ==
    /\ mu \in Resetters \cup {None}
    /\ made \in Nat /\ current = made
    /\ closed \subseteq 0..made
    /\ probe \in [Probes -> {"none", "checking", "selecting"}]
    /\ pc \in [Goroutines -> Places]
    /\ stop \in [Resetters -> Nat]

(* The mutex is held by the one Reset that is inside.                      *)
HeldInside ==
    /\ \A c \in Resetters : pc[c] \in Inside => mu = c
    /\ mu # None => pc[mu] \in Inside

(* The channel in force is closed while the mutex is held, and otherwise   *)
(* only by Stop.                                                           *)
ClosedWhileHeld ==
    /\ mu # None => current \in closed
    /\ current \in closed => mu # None \/ Stopping

InForceOrClosed(g) == g = current \/ g \in closed

NoneForgotten ==
    /\ \A c \in Resetters : pc[c] = "starting" => InForceOrClosed(stop[c])
    /\ \A p \in Probes : probe[p] # "none" => InForceOrClosed(p[1])

CheckerInv == CheckerTypeOK /\ HeldInside /\ ClosedWhileHeld /\ NoneForgotten

LEMMA CheckerInit == Init => CheckerInv
  BY GoroutinesAssumption
  DEF Init, CheckerInv, CheckerTypeOK, HeldInside, ClosedWhileHeld, NoneForgotten,
      Inside, Places, Goroutines, Stopping

(* The end of a probe moves nobody into or out of the mutex.               *)
LEMMA QuitStep ==
    ASSUME CheckerInv, NEW p \in Probes, Quit(p)
    PROVE  CheckerInv'
<1> USE GoroutinesAssumption DEF CheckerInv, CheckerTypeOK, Inside, Places, Goroutines
<1>1. \A c \in Goroutines :
         \/ pc'[c] = pc[c]
         \/ pc[c] = "asleep" /\ pc'[c] = "awake"
  BY DEF Quit
<1>2. CheckerTypeOK'
  BY DEF Quit
<1>3. HeldInside'
  BY <1>1 DEF Quit, HeldInside
<1>4. ClosedWhileHeld'
  BY <1>1 DEF Quit, ClosedWhileHeld, Stopping
<1>5. NoneForgotten'
  BY <1>1 DEF Quit, NoneForgotten, InForceOrClosed
<1> QED
  BY <1>2, <1>3, <1>4, <1>5

(* A new channel takes the place of a closed one.                          *)
LEMMA RenewStep ==
    ASSUME CheckerInv, NEW c \in Resetters, Renew(c)
    PROVE  CheckerInv'
<1> USE GoroutinesAssumption
    DEF CheckerInv, CheckerTypeOK, Inside, Places, Goroutines, Goto, Renew
<1>1. mu = c /\ current \in closed /\ current' \notin closed'
  BY DEF HeldInside, ClosedWhileHeld
<1>2. CheckerTypeOK'
  OBVIOUS
<1>3. HeldInside'
  BY <1>1 DEF HeldInside
<1>4. ClosedWhileHeld'
  BY <1>1 DEF ClosedWhileHeld
<1>5. NoneForgotten'
  BY <1>1 DEF NoneForgotten, InForceOrClosed
<1> QED
  BY <1>2, <1>3, <1>4, <1>5

(* A probe that is started late belongs to a closed channel.               *)
LEMMA StartStep ==
    ASSUME CheckerInv, NEW c \in Resetters, Start(c)
    PROVE  CheckerInv'
<1> USE DEF CheckerInv, CheckerTypeOK, Inside
<1>1. PICK t \in targets[c] : probe' = [probe EXCEPT ![<<stop[c], t>>] = "checking"]
  BY DEF Start
<1>2. UNCHANGED <<mu, current, closed, made, pc, stop>> /\ pc[c] = "starting"
  BY DEF Start
<1>3. CheckerTypeOK'
  BY <1>1, <1>2
<1>4. HeldInside' /\ ClosedWhileHeld'
  BY <1>2 DEF HeldInside, ClosedWhileHeld, Stopping
<1>5. InForceOrClosed(stop[c])
  BY <1>2 DEF NoneForgotten
<1>6. ASSUME NEW p \in Probes, probe'[p] # "none"
      PROVE  InForceOrClosed(p[1])'
  <2>1. CASE p = <<stop[c], t>>
    BY <2>1, <1>2, <1>5 DEF InForceOrClosed
  <2>2. CASE p # <<stop[c], t>>
    BY <2>2, <1>1, <1>2, <1>6 DEF InForceOrClosed, NoneForgotten
  <2> QED
    BY <2>1, <2>2
<1>7. NoneForgotten'
  BY <1>2, <1>6 DEF NoneForgotten, InForceOrClosed
<1> QED
  BY <1>3, <1>4, <1>7

LEMMA CheckerStep ==
    ASSUME CheckerInv, [Next]_vars
    PROVE  CheckerInv'
<1> USE GoroutinesAssumption
    DEF CheckerInv, CheckerTypeOK, HeldInside, ClosedWhileHeld, NoneForgotten,
        InForceOrClosed, Inside, Places, Goroutines, Goto, Stopping
<1>1. ASSUME NEW c \in Resetters, Call(c)
      PROVE  CheckerInv'
  BY <1>1 DEF Call
<1>2. ASSUME NEW c \in Resetters, Lock(c)
      PROVE  CheckerInv'
  BY <1>2 DEF Lock
<1>3. ASSUME NEW c \in Goroutines, Wait(c)
      PROVE  CheckerInv'
  BY <1>3 DEF Wait
<1>4. ASSUME NEW c \in Goroutines, Wake(c)
      PROVE  CheckerInv'
  BY <1>4 DEF Wake
<1>5. ASSUME NEW c \in Resetters, Renew(c)
      PROVE  CheckerInv'
  BY <1>5, RenewStep
<1>6. ASSUME NEW c \in Resetters, Start(c)
      PROVE  CheckerInv'
  BY <1>6, StartStep
<1>7. ASSUME NEW c \in Resetters, Return(c)
      PROVE  CheckerInv'
  BY <1>7 DEF Return
<1>8. CASE CallStop
  BY <1>8 DEF CallStop
<1>9. CASE LockStop
  BY <1>9 DEF LockStop
<1>10. CASE Exit
  BY <1>10 DEF Exit
<1>11. ASSUME NEW p \in Probes, Checked(p) \/ Tick(p)
       PROVE  CheckerInv'
  BY <1>11 DEF Checked, Tick
<1>12. ASSUME NEW p \in Probes, Quit(p)
       PROVE  CheckerInv'
  BY <1>12, QuitStep
<1>13. CASE UNCHANGED vars
  BY <1>13 DEF vars
<1> QED
  BY <1>1, <1>2, <1>3, <1>4, <1>5, <1>6, <1>7, <1>8, <1>9, <1>10, <1>11, <1>12, <1>13
  DEF Next, Reset, Stop

(* However Resets overlap, a probe of a generation that is not in force    *)
(* has been told to stop, and the generation in force has not, unless its  *)
(* successor or the end of the process is on the way.                      *)
THEOREM CheckerForgetsNoProbe == Spec => []SupersededAreStopped
<1>1. Init => CheckerInv
  BY CheckerInit
<1>2. CheckerInv /\ [Next]_vars => CheckerInv'
  BY CheckerStep
<1>3. CheckerInv => SupersededAreStopped
  BY DEF CheckerInv, ClosedWhileHeld, NoneForgotten, InForceOrClosed,
         SupersededAreStopped, Live
<1> QED
  BY <1>1, <1>2, <1>3, PTL DEF Spec

------------------------------------------------------------------------------
(***************************************************************************)
(* The collector.                                                          *)
(***************************************************************************)
(* Where the ring of seconds stands. *)
RingTypeOK ==
    /\ clock \in 0..MaxTime /\ curSec \in 0..clock
    /\ buckets \in [0..Slots - 1 -> Nat]
    /\ began \in [0..MaxTime -> Nat]
    /\ sec \in [Requests -> 0..clock]

RingInv == RingTypeOK /\ NoGhosts

(* The ring of entries: filled from the front, and from then on the places *)
(* up to logPos have gone round once more often than the rest.             *)
Filling ==
    /\ written < LogCap
    /\ Len(logs) = written /\ logPos = 0
    /\ \A i \in 1..written : logs[i] = i

Turning ==
    /\ written >= LogCap
    /\ Len(logs) = LogCap /\ logPos < LogCap
    /\ \A i \in 1..LogCap :
          logs[i] = written - logPos + i - (IF i <= logPos THEN 0 ELSE LogCap)

LogInv ==
    /\ written \in Nat /\ logPos \in Nat /\ logs \in Seq(Nat)
    /\ Filling \/ Turning
------------------------------------------------------------------------------
(* What is left of a number that goes once or twice over n. *)
LEMMA Wraps ==
    ASSUME NEW n \in Nat \ {0}, NEW a \in 0..n - 1
    PROVE  a % n = a /\ (a + n) % n = a /\ (a + n + n) % n = a
  OBVIOUS

LEMMA SlotOf ==
    ASSUME NEW n \in Nat \ {0}, NEW a \in Nat
    PROVE  a % n \in 0..n - 1
  OBVIOUS

(* Seconds that are less than a turn apart have slots of their own. *)
LEMMA SlotsDiffer ==
    ASSUME NEW n \in Nat \ {0}, NEW a \in Nat, NEW b \in Nat, a < b, b < a + n
    PROVE  a % n # b % n
<1>1. PICK p \in Int, q \in Int : a = n * p + (a % n) /\ b = n * q + (b % n)
  <2>1. a = n * (a \div n) + (a % n) /\ b = n * (b \div n) + (b % n)
    OBVIOUS
  <2>2. a \div n \in Int /\ b \div n \in Int
    OBVIOUS
  <2> QED
    BY <2>1, <2>2
<1>2. ASSUME a % n = b % n
      PROVE  FALSE
  <2>1. n * q - n * p = n * (q - p)
    OBVIOUS
  <2>2. b - a = n * (q - p) /\ q - p \in Int
    <3>1. n * p \in Int /\ n * q \in Int /\ a % n \in Int
      BY SlotOf
    <3> QED
      BY <3>1, <2>1, <1>1, <1>2
  <2>3. \A d \in Int : d <= 0 => n * d <= 0
    OBVIOUS
  <2>4. \A d \in Int : d >= 1 => n * d >= n
    OBVIOUS
  <2> QED
    BY <2>2, <2>3, <2>4
<1> QED
  BY <1>2

------------------------------------------------------------------------------
(* The ring of seconds. *)
LEMMA RingInit == StatsInit => RingInv
  BY StatsAssumption DEF StatsInit, RingInv, RingTypeOK, NoGhosts, Window, Reported

LEMMA RingSame ==
    ASSUME RingInv, UNCHANGED <<clock, ringVars, began>>,
           sec' \in [Requests -> 0..clock]
    PROVE  RingInv'
  BY DEF RingInv, RingTypeOK, NoGhosts, Window, Reported, ringVars

LEMMA ElapseRing ==
    ASSUME RingInv, Elapse
    PROVE  RingInv'
<1>1. /\ clock \in Int /\ curSec \in Int /\ MaxTime \in Nat /\ clock < MaxTime
      /\ clock' = clock + 1 /\ UNCHANGED <<curSec, buckets, began, sec>>
  BY StatsAssumption DEF Elapse, RingInv, RingTypeOK, ringVars
<1>2. RingTypeOK'
  BY <1>1 DEF RingInv, RingTypeOK
<1>3. \A s \in Window' : s <= curSec => s \in Window
  BY <1>1, StatsAssumption DEF Window, RingInv, RingTypeOK
<1> QED
  BY <1>1, <1>2, <1>3 DEF RingInv, NoGhosts, Reported

(* Of the seconds that are shown the new ones have been cleared and the    *)
(* others are as they were. *)
LEMMA CountRing ==
    ASSUME RingInv, NEW r \in Requests, Count(r)
    PROVE  RingInv'
<1> DEFINE x == sec[r]
           ring == Rolled(x)
<1>1. /\ clock \in Nat /\ curSec \in 0..clock /\ clock <= MaxTime
      /\ x \in 0..clock /\ Slots \in Nat \ {0} /\ MaxTime \in Nat
  BY StatsAssumption DEF RingInv, RingTypeOK
<1>2. /\ clock' = clock /\ curSec' = x /\ sec' = [sec EXCEPT ![r] = 0]
      /\ buckets' = [ring EXCEPT ![x % Slots] = @ + 1]
      /\ began' = [began EXCEPT ![x] = @ + 1]
  BY DEF Count
<1>3. DOMAIN buckets = 0..Slots - 1
  BY DEF RingInv, RingTypeOK
<1>4. /\ ring \in [0..Slots - 1 -> Nat]
      /\ \A i \in 0..Slots - 1 : ring[i] <= buckets[i]
  BY <1>3 DEF Rolled, RingInv, RingTypeOK
<1>5. \A s \in curSec + 1..x : ring[s % Slots] = 0
  <2> TAKE s \in curSec + 1..x
  <2>1. s \in Nat
    BY <1>1
  <2>2. s % Slots \in 0..Slots - 1
    BY <2>1, <1>1, SlotOf
  <2> QED
    BY <2>1, <2>2, <1>3 DEF Rolled
<1>6. x % Slots \in 0..Slots - 1 /\ x \in 0..MaxTime
  BY <1>1, SlotOf
<1> HIDE DEF ring
<1>7. RingTypeOK'
  <2>1. buckets' \in [0..Slots - 1 -> Nat] /\ began' \in [0..MaxTime -> Nat]
    BY <1>2, <1>4, <1>6 DEF RingInv, RingTypeOK
  <2>2. sec' \in [Requests -> 0..clock']
    BY <1>1, <1>2 DEF RingInv, RingTypeOK
  <2> QED
    BY <2>1, <2>2, <1>1, <1>2 DEF RingInv, RingTypeOK
<1>8. ASSUME NEW s \in Window, s <= x
      PROVE  ring[s % Slots] <= began[s]
  <2>1. s \in Nat /\ s \in 0..MaxTime /\ s % Slots \in 0..Slots - 1
    BY <1>1, SlotOf DEF Window
  <2>2. /\ s \in Nat /\ s \in 0..MaxTime /\ s % Slots \in 0..Slots - 1 /\ began[s] \in Nat
        /\ ring[s % Slots] \in Nat /\ buckets[s % Slots] \in Nat
    BY <2>1, <1>4 DEF RingInv, RingTypeOK
  <2>3. CASE s <= curSec
    BY <2>2, <2>3, <1>4 DEF RingInv, NoGhosts, Reported
  <2>4. CASE s > curSec
    BY <2>2, <2>4, <1>1, <1>5, <1>8
  <2> QED
    BY <2>2, <2>3, <2>4, <1>1
<1>9. ASSUME NEW s \in Window, s <= x
      PROVE  buckets'[s % Slots] <= began'[s]
  <2>1. /\ s \in Nat /\ s \in 0..MaxTime /\ s % Slots \in 0..Slots - 1 /\ began[s] \in Nat
        /\ s > clock - Slots
    BY <1>1, SlotOf DEF Window, RingInv, RingTypeOK
  <2>2. CASE s = x
    BY <2>1, <2>2, <1>2, <1>4, <1>8, <1>9 DEF RingInv, RingTypeOK
  <2>3. CASE s < x
    <3>1. s % Slots # x % Slots
      BY <2>1, <2>3, <1>1, SlotsDiffer
    <3> QED
      BY <3>1, <2>1, <2>3, <1>2, <1>4, <1>8, <1>9 DEF RingInv, RingTypeOK
  <2> QED
    BY <2>1, <2>2, <2>3, <1>1, <1>9
<1>10. Window' = Window
  BY <1>2 DEF Window
<1> QED
  BY <1>2, <1>7, <1>9, <1>10 DEF RingInv, NoGhosts, Reported

LEMMA RingStep == RingInv /\ [StatsNext]_statsVars => RingInv'
<1> SUFFICES ASSUME RingInv, [StatsNext]_statsVars
             PROVE  RingInv'
  OBVIOUS
<1>1. sec \in [Requests -> 0..clock] /\ clock \in 0..clock
  BY DEF RingInv, RingTypeOK
<1>2. CASE Elapse
  BY <1>2, ElapseRing
<1>3. ASSUME NEW r \in Requests, Enter(r)
      PROVE  RingInv'
  BY <1>1, <1>3, RingSame DEF Enter
<1>4. ASSUME NEW r \in Requests, Count(r)
      PROVE  RingInv'
  BY <1>4, CountRing
<1>5. ASSUME NEW r \in Requests, Finish(r) \/ Record(r) \/ LeaveUnrecorded(r)
      PROVE  RingInv'
  BY <1>1, <1>5, RingSame DEF Finish, Record, LeaveUnrecorded
<1>6. CASE Clear
  BY <1>1, <1>6, RingSame DEF Clear
<1>7. CASE UNCHANGED statsVars
  BY <1>1, <1>7, RingSame DEF statsVars
<1> QED
  BY <1>2, <1>3, <1>4, <1>5, <1>6, <1>7 DEF StatsNext

(* No second is over-reported: a Begin that is late to the lock may turn   *)
(* the ring back and take counts away, but adds none to another second.    *)
THEOREM StatsNoGhosts == StatsSpec => []NoGhosts
<1>1. RingInv => NoGhosts
  BY DEF RingInv
<1> QED
  BY <1>1, RingInit, RingStep, PTL DEF StatsSpec

------------------------------------------------------------------------------
(* The ring of entries. *)
LEMMA LogInit == StatsInit => LogInv
  BY StatsAssumption DEF StatsInit, LogInv, Filling

LEMMA LogSame ==
    ASSUME LogInv, UNCHANGED <<logs, logPos, written>>
    PROVE  LogInv'
  BY DEF LogInv, Filling, Turning

LEMMA ClearLog ==
    ASSUME Clear
    PROVE  LogInv'
  BY StatsAssumption DEF Clear, LogInv, Filling

LEMMA RecordLog ==
    ASSUME LogInv, NEW r \in Requests, Record(r)
    PROVE  LogInv'
<1>1. /\ written \in Nat /\ logPos \in Nat /\ logs \in Seq(Nat)
      /\ LogCap \in Nat \ {0} /\ written' = written + 1 /\ written + 1 \in Nat
  BY StatsAssumption DEF LogInv, Record
<1>2. CASE Filling
  <2>1. logs' = Append(logs, written + 1) /\ logPos' = 0
    BY <1>1, <1>2 DEF Filling, Record
  <2>2. /\ logs' \in Seq(Nat) /\ Len(logs') = written + 1
        /\ \A i \in 1..written + 1 : logs'[i] = i
    BY <1>1, <1>2, <2>1 DEF Filling
  <2>3. CASE written + 1 < LogCap
    BY <1>1, <2>1, <2>2, <2>3 DEF LogInv, Filling
  <2>4. CASE written + 1 = LogCap
    BY <1>1, <2>1, <2>2, <2>4 DEF LogInv, Turning
  <2> QED
    BY <1>1, <1>2, <2>3, <2>4 DEF Filling
<1>3. CASE Turning
  <2>1. /\ logs' = [logs EXCEPT ![logPos + 1] = written + 1]
        /\ logPos' = (logPos + 1) % LogCap
    BY <1>1, <1>3 DEF Turning, Record
  <2>2. /\ logs' \in Seq(Nat) /\ Len(logs') = LogCap
        /\ logs'[logPos + 1] = written + 1
        /\ \A i \in 1..LogCap : i # logPos + 1 => logs'[i] = logs[i]
    BY <1>1, <1>3, <2>1 DEF Turning
  <2>3. logPos' = IF logPos + 1 < LogCap THEN logPos + 1 ELSE 0
    <3>1. CASE logPos + 1 < LogCap
      <4>1. logPos + 1 \in 0..LogCap - 1
        BY <3>1, <1>1
      <4>2. (logPos + 1) % LogCap = logPos + 1
        BY <4>1, <1>1, Wraps
      <4> QED
        BY <3>1, <4>2, <2>1
    <3>2. CASE logPos + 1 = LogCap
      <4>1. (0 + LogCap) % LogCap = 0
        BY <1>1, Wraps
      <4> QED
        BY <3>2, <4>1, <1>1, <2>1
    <3> QED
      BY <3>1, <3>2, <1>1, <1>3 DEF Turning
  <2>4. Turning'
    <3> DEFINE Age(i, w, p) == w - p + i - (IF i <= p THEN 0 ELSE LogCap)
    <3>1. /\ written >= LogCap /\ logPos < LogCap /\ written' >= LogCap
          /\ logPos' < LogCap /\ logPos' \in Nat
      BY <1>1, <1>3, <2>3 DEF Turning
    <3>2. ASSUME NEW i \in 1..LogCap
          PROVE  logs'[i] = Age(i, written', logPos')
      <4>1. CASE i = logPos + 1
        BY <4>1, <1>1, <2>2, <2>3, <3>1
      <4>2. CASE i # logPos + 1
        <5>1. logs'[i] = Age(i, written, logPos)
          BY <4>2, <1>3, <2>2 DEF Turning
        <5>2. Age(i, written, logPos) = Age(i, written', logPos')
          BY <4>2, <1>1, <2>3, <3>1
        <5> QED
          BY <5>1, <5>2
      <4> QED
        BY <4>1, <4>2
    <3> QED
      BY <2>2, <3>1, <3>2 DEF Turning
  <2> QED
    BY <1>1, <2>2, <2>3, <2>4 DEF LogInv
<1> QED
  BY <1>2, <1>3 DEF LogInv

LEMMA LogStep == LogInv /\ [StatsNext]_statsVars => LogInv'
<1> SUFFICES ASSUME LogInv, [StatsNext]_statsVars
             PROVE  LogInv'
  OBVIOUS
<1>1. ASSUME NEW r \in Requests, Record(r)
      PROVE  LogInv'
  BY <1>1, RecordLog
<1>2. CASE Clear
  BY <1>2, ClearLog
<1>3. ASSUME Elapse \/ UNCHANGED statsVars
      PROVE  LogInv'
  BY <1>3, LogSame DEF Elapse, statsVars, logVars
<1>4. ASSUME NEW r \in Requests,
             Enter(r) \/ Count(r) \/ Finish(r) \/ LeaveUnrecorded(r)
      PROVE  LogInv'
  BY <1>4, LogSame DEF Enter, Count, Finish, LeaveUnrecorded, logVars
<1> QED
  BY <1>1, <1>2, <1>3, <1>4 DEF StatsNext

(* Collector.Logs reads backwards from the place that is written next. *)
LEMMA ReadBackwards ==
    ASSUME LogInv, NEW limit \in 0..LogCap + 1
    PROVE  LET kept == IF written < LogCap THEN written ELSE LogCap
           IN  Logs(limit) =
                  [i \in 1..(IF limit = 0 \/ limit > kept THEN kept ELSE limit) |->
                      written - i + 1]
<1> DEFINE kept == IF written < LogCap THEN written ELSE LogCap
           wanted == IF limit = 0 \/ limit > kept THEN kept ELSE limit
<1>1. /\ written \in Nat /\ logPos \in Nat /\ LogCap \in Nat \ {0}
      /\ kept \in Nat /\ wanted \in 0..kept /\ limit \in Nat
  BY StatsAssumption DEF LogInv
<1>2. Len(logs) = kept
  BY <1>1 DEF LogInv, Filling, Turning
<1>3. Logs(limit) = [i \in 1..wanted |-> logs[((logPos + kept - i + kept) % kept) + 1]]
  BY <1>1, <1>2 DEF Logs
<1>4. ASSUME NEW i \in 1..wanted
      PROVE  logs[((logPos + kept - i + kept) % kept) + 1] = written - i + 1
  <2>1. i \in Nat /\ i >= 1 /\ i <= kept /\ kept \in Nat \ {0}
    BY <1>1
  <2> HIDE DEF kept, wanted
  <2>2. CASE Filling
    <3>1. kept = written /\ logPos = 0
      BY <2>2, <1>1, <1>2 DEF Filling
    <3>2. /\ kept - i \in 0..kept - 1
          /\ logPos + kept - i + kept = (kept - i) + kept
      BY <2>1, <3>1
    <3>3. (logPos + kept - i + kept) % kept = kept - i
      BY <3>2, <2>1, Wraps
    <3>4. kept - i + 1 \in 1..written /\ kept - i + 1 = written - i + 1
      BY <2>1, <3>1
    <3> QED
      BY <2>2, <3>3, <3>4 DEF Filling
  <2>3. CASE Turning /\ i <= logPos
    <3>1. kept = LogCap /\ logPos < LogCap
      BY <2>3, <1>1, <1>2 DEF Turning
    <3>2. /\ logPos - i \in 0..kept - 1
          /\ logPos + kept - i + kept = (logPos - i) + kept + kept
      BY <2>1, <2>3, <3>1, <1>1
    <3>3. (logPos + kept - i + kept) % kept = logPos - i
      BY <3>2, <2>1, Wraps
    <3>4. logPos - i + 1 \in 1..LogCap /\ logPos - i + 1 <= logPos
      BY <2>1, <2>3, <3>1, <1>1
    <3>5. logs[logPos - i + 1] = written - logPos + (logPos - i + 1) - 0
      BY <2>3, <3>4 DEF Turning
    <3> QED
      BY <3>3, <3>5, <2>1, <1>1
  <2>4. CASE Turning /\ i > logPos
    <3>1. kept = LogCap /\ logPos < LogCap
      BY <2>4, <1>1, <1>2 DEF Turning
    <3>2. /\ logPos + kept - i \in 0..kept - 1
          /\ logPos + kept - i + kept = (logPos + kept - i) + kept
      BY <2>1, <2>4, <3>1, <1>1
    <3>3. (logPos + kept - i + kept) % kept = logPos + kept - i
      BY <3>2, <2>1, Wraps
    <3>4. logPos + kept - i + 1 \in 1..LogCap /\ ~(logPos + kept - i + 1 <= logPos)
      BY <2>1, <2>4, <3>1, <1>1
    <3>5. logs[logPos + kept - i + 1]
             = written - logPos + (logPos + kept - i + 1) - LogCap
      BY <2>4, <3>4 DEF Turning
    <3> QED
      BY <3>1, <3>3, <3>5, <2>1, <1>1
  <2> QED
    BY <2>1, <2>2, <2>3, <2>4, <1>1 DEF LogInv
<1> QED
  BY <1>3, <1>4

(* The log page is right for every limit, however often the ring has gone  *)
(* round and been cleared. *)
THEOREM StatsLogsNewestFirst == StatsSpec => []LogsNewestFirst
<1>1. LogInv => LogsNewestFirst
  BY ReadBackwards DEF LogsNewestFirst
<1> QED
  BY <1>1, LogInit, LogStep, PTL DEF StatsSpec
==============================================================================
