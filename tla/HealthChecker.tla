---------------------------- MODULE HealthChecker ----------------------------
(***************************************************************************)
(* The life of the active health checker (internal/proxy/upstream.go, type *)
(* HealthChecker): its probes come in generations.  Every reload calls     *)
(* Reset, which closes the stop channel of the generation before, waits in *)
(* the WaitGroup until its probes are gone, makes a new channel and starts *)
(* one probe per route with active checks.  The wait is done inside h.mu,  *)
(* the start after it, so that the Resets of two reloads overlap: the next *)
(* one may wait while this one still adds to the same WaitGroup.  What a   *)
(* probe does to a node is in Upstream.                                    *)
(***************************************************************************)
EXTENDS Integers, FiniteSets

CONSTANTS
    Handlers,       \* admin handlers that reload; net/http recovers their panics
    Workers,        \* subscriber and watcher (main.go:119, 132); theirs end the process
    Main,           \* the goroutine that calls Stop at the end (main.go:242)
    Targets,        \* routes with active health checks
    MaxResets,      \* bound of the model: calls of Reset
    None

Resetters == Handlers \cup Workers
Goroutines == Resetters \cup {Main}

ASSUME GoroutinesAssumption ==
    /\ Main \notin Resetters
    /\ None \notin Goroutines
    /\ MaxResets \in Nat

(* A generation is its stop channel; 0 is the one of NewHealthChecker.     *)
Generations == 0..MaxResets

(* A probe is the goroutine of one target in one generation of Reset.      *)
Probes == (1..MaxResets) \X Targets

VARIABLES
    mu,             \* who holds h.mu, or None
    current,        \* h.stop
    closed,         \* the stop channels that are closed
    made,           \* number of channels Reset has made
    probe,          \* probe[p]: "none", "checking" (inside check) or "selecting"
    asked,          \* asked[g]: the targets generation g was made for
    pc,             \* where a goroutine is in Reset or Stop
    targets,        \* targets[c]: the targets that Reset has still to start
    stop,           \* stop[c]: the channel Reset gives to its probes
    calls,          \* number of calls of Reset so far
    up              \* the process is running

vars == <<mu, current, closed, made, probe, asked, pc, targets, stop, calls, up>>

(* The counter of h.wg is the number of probes that have not called Done.  *)
Live == {p \in Probes : probe[p] # "none"}

TypeOK ==
    /\ mu \in Resetters \cup {None}
    /\ current \in Generations /\ made \in Generations
    /\ closed \subseteq Generations
    /\ probe \in [Probes -> {"none", "checking", "selecting"}]
    /\ asked \in [Generations -> SUBSET Targets]
    /\ pc \in [Goroutines -> {"idle", "calling", "waiting", "asleep", "awake",
                              "waited", "starting", "dead", "stopped"}]
    /\ targets \in [Resetters -> SUBSET Targets]
    /\ stop \in [Resetters -> Generations]
    /\ calls \in Nat
    /\ up \in BOOLEAN

Init ==
    /\ mu = None
    /\ current = 0 /\ closed = {} /\ made = 0
    /\ probe = [p \in Probes |-> "none"]
    /\ asked = [g \in Generations |-> {}]
    /\ pc = [c \in Goroutines |-> "idle"]
    /\ targets = [c \in Resetters |-> {}]
    /\ stop = [c \in Resetters |-> 0]
    /\ calls = 0
    /\ up = TRUE

Goto(c, place) == pc' = [pc EXCEPT ![c] = place]
------------------------------------------------------------------------------
(* Engine.Reload calls Reset with the routes of its configuration; those   *)
(* without active checks are not among them.                               *)
Call(c) ==
    /\ up /\ pc[c] = "idle" /\ calls < MaxResets
    /\ calls' = calls + 1
    /\ \E S \in SUBSET Targets : targets' = [targets EXCEPT ![c] = S]
    /\ Goto(c, "calling")
    /\ UNCHANGED <<mu, current, closed, made, probe, asked, stop, up>>

(* h.mu.Lock, and the channel is closed unless it already is.              *)
Lock(c) ==
    /\ up /\ pc[c] = "calling" /\ mu = None
    /\ mu' = c
    /\ closed' = closed \cup {current}
    /\ Goto(c, "waiting")
    /\ UNCHANGED <<current, made, probe, asked, targets, stop, calls, up>>

(* h.wg.Wait: it returns at once or goes to sleep.                         *)
Wait(c) ==
    /\ up /\ pc[c] = "waiting"
    /\ Goto(c, IF Live = {} THEN "waited" ELSE "asleep")
    /\ UNCHANGED <<mu, current, closed, made, probe, asked, targets, stop, calls, up>>

(* The last Done has woken c.  Wait looks at the counter once more and      *)
(* panics when somebody has added to it in between.  There is no deferred   *)
(* Unlock: a handler's panic is recovered above Reset, which leaves h.mu    *)
(* locked, and any other goroutine takes the process with it.               *)
Wake(c) ==
    /\ up /\ pc[c] = "awake"
    /\ \/ /\ Live = {}
          /\ Goto(c, "waited") /\ up' = up
       \/ /\ Live # {}
          /\ Goto(c, "dead") /\ up' = (c \in Handlers)
    /\ UNCHANGED <<mu, current, closed, made, probe, asked, targets, stop, calls>>

Renew_closes_bug(c) ==         \* a deferred close(h.stop) hits the new channel
    /\ up /\ pc[c] = "waited"
    /\ made' = made + 1
    /\ current' = made + 1
    /\ closed' = closed \cup {made + 1}
    /\ stop' = [stop EXCEPT ![c] = made + 1]
    /\ asked' = [asked EXCEPT ![made + 1] = targets[c]]
    /\ mu' = None
    /\ Goto(c, "starting")
    /\ UNCHANGED <<probe, targets, calls, up>>

(* The new channel becomes h.stop, and h.mu is unlocked.                   *)
Renew(c) ==
    /\ up /\ pc[c] = "waited"
    /\ made' = made + 1
    /\ current' = made + 1
    /\ stop' = [stop EXCEPT ![c] = made + 1]
    /\ asked' = [asked EXCEPT ![made + 1] = targets[c]]
    /\ mu' = None
    /\ Goto(c, "starting")
    /\ UNCHANGED <<closed, probe, targets, calls, up>>

(* h.wg.Add(1) and `go`.                                                   *)
Start(c) ==
    /\ up /\ pc[c] = "starting"
    /\ \E t \in targets[c] :
          /\ targets' = [targets EXCEPT ![c] = @ \ {t}]
          /\ probe' = [probe EXCEPT ![<<stop[c], t>>] = "checking"]
    /\ UNCHANGED <<mu, current, closed, made, asked, pc, stop, calls, up>>

Return(c) ==
    /\ up /\ pc[c] = "starting" /\ targets[c] = {}
    /\ Goto(c, "idle")
    /\ UNCHANGED <<mu, current, closed, made, probe, asked, targets, stop, calls, up>>

Reset(c) == Lock(c) \/ Wait(c) \/ Wake(c) \/ Renew(c) \/ Start(c) \/ Return(c)
------------------------------------------------------------------------------
(* Engine.Stop, when the listeners are shut.                               *)
CallStop ==
    /\ up /\ pc[Main] = "idle"
    /\ Goto(Main, "calling")
    /\ UNCHANGED <<mu, current, closed, made, probe, asked, targets, stop, calls, up>>

(* Stop closes the channel under h.mu but waits without it.                *)
LockStop ==
    /\ up /\ pc[Main] = "calling" /\ mu = None
    /\ closed' = closed \cup {current}
    /\ Goto(Main, "waiting")
    /\ UNCHANGED <<mu, current, made, probe, asked, targets, stop, calls, up>>

(* main returns, and the process is over.                                  *)
Exit ==
    /\ up /\ pc[Main] = "waited"
    /\ Goto(Main, "stopped")
    /\ up' = FALSE
    /\ UNCHANGED <<mu, current, closed, made, probe, asked, targets, stop, calls>>

Stop == LockStop \/ Wait(Main) \/ Wake(Main) \/ Exit
------------------------------------------------------------------------------
(* check has visited every node of the pool; each probe of a node is       *)
(* bounded by the timeouts of its transport.                               *)
Checked(p) ==
    /\ up /\ probe[p] = "checking"
    /\ probe' = [probe EXCEPT ![p] = "selecting"]
    /\ UNCHANGED <<mu, current, closed, made, asked, pc, targets, stop, calls, up>>

(* The ticker fires.  If the channel is closed as well, select takes       *)
(* either.                                                                 *)
Tick(p) ==
    /\ up /\ probe[p] = "selecting"
    /\ probe' = [probe EXCEPT ![p] = "checking"]
    /\ UNCHANGED <<mu, current, closed, made, asked, pc, targets, stop, calls, up>>

Quit_once_bug(p) ==            \* one value is sent on the channel instead of closing it
    /\ up /\ probe[p] = "selecting" /\ p[1] \in closed
    /\ closed' = closed \ {p[1]}
    /\ probe' = [probe EXCEPT ![p] = "none"]
    /\ pc' = [c \in Goroutines |->
                IF pc[c] = "asleep" /\ Live = {p} THEN "awake" ELSE pc[c]]
    /\ UNCHANGED <<mu, current, made, asked, targets, stop, calls, up>>

Quit_nodone_bug(p) ==          \* Done is not deferred, and not called on this way out
    /\ up /\ probe[p] = "selecting" /\ p[1] \in closed
    /\ probe' = [probe EXCEPT ![p] = "none"]
    /\ UNCHANGED <<mu, current, closed, made, asked, pc, targets, stop, calls, up>>

(* The deferred h.wg.Done; the last one wakes whoever waits.               *)
Quit(p) ==
    /\ up /\ probe[p] = "selecting" /\ p[1] \in closed
    /\ probe' = [probe EXCEPT ![p] = "none"]
    /\ pc' = [c \in Goroutines |->
                IF pc[c] = "asleep" /\ Live = {p} THEN "awake" ELSE pc[c]]
    /\ UNCHANGED <<mu, current, closed, made, asked, targets, stop, calls, up>>
------------------------------------------------------------------------------
Next ==
    \/ \E c \in Resetters : Call(c) \/ Reset(c)
    \/ CallStop \/ Stop
    \/ \E p \in Probes : Checked(p) \/ Tick(p) \/ Quit(p)

Spec == Init /\ [][Next]_vars

(* Goroutines run on, probes and tickers included.  Between a tick and a   *)
(* closed channel select chooses at random, so a probe that is told to     *)
(* stop does not take the tick for ever: strong fairness.                  *)
Fairness ==
    /\ \A c \in Resetters : WF_vars(Reset(c))
    /\ WF_vars(Stop)
    /\ \A p \in Probes : WF_vars(Checked(p)) /\ WF_vars(Tick(p)) /\ SF_vars(Quit(p))

FairSpec == Spec /\ Fairness
------------------------------------------------------------------------------
(* A panic has been recovered, and h.mu stays locked.                      *)
Dead == \E c \in Handlers : pc[c] = "dead"

Stopping == pc[Main] \notin {"idle", "calling"}

(***************************************************************************)
(* No probe is forgotten: one of an earlier generation has been told to    *)
(* stop, however late it was started, and the generation in force is told  *)
(* so only by somebody who still holds the mutex to replace it, or by      *)
(* Stop.                                                                   *)
(***************************************************************************)
SupersededAreStopped ==
    /\ \A p \in Live : p[1] # current => p[1] \in closed
    /\ current \in closed => mu # None \/ Stopping

(***************************************************************************)
(* Reset waits for probes while it holds the mutex, and probes wait for    *)
(* nobody: each call of Reset returns, unless a panic stands in its way,   *)
(* and Stop does, unless a Reset comes after it has closed the channel.    *)
(***************************************************************************)
CallsReturn ==
    \A c \in Goroutines :
        pc[c] # "idle" ~>
            \/ pc[c] = "idle" \/ Dead \/ ~up
            \/ c = Main /\ Stopping /\ current \notin closed

(***************************************************************************)
(* main.go:235, "graceful exit": Stop returns, and the process ends.  A    *)
(* reload of the watcher or of the subscriber, which nobody stops, may     *)
(* start new probes between the closing of the channel and the wait, and   *)
(* Stop then waits for probes that are never told to stop.                 *)
(***************************************************************************)
StopReturns == pc[Main] = "calling" ~> Dead \/ ~up

(***************************************************************************)
(* When the last reload is over, every route with active checks is checked *)
(* again and again, whatever Resets overlapped before.                     *)
(***************************************************************************)
Settled == up /\ \A c \in Goroutines : pc[c] = "idle"

KeepsProbing ==
    \A g \in 1..MaxResets, t \in Targets :
        <>[](Settled /\ current = g /\ t \in asked[g])
            => []<>(probe[<<g, t>>] = "checking")

(***************************************************************************)
(* What sync.WaitGroup asks of its users: it is not used again before the  *)
(* Wait before has returned.  Two Resets that overlap break it: the second *)
(* waits for the first probe of the first one, and before it wakes the     *)
(* first has started another.                                              *)
(***************************************************************************)
NoPanic == \A c \in Goroutines : pc[c] # "dead"

(***************************************************************************)
(* What the wait in Reset is for: generations do not overlap.  The probes  *)
(* that a superseded Reset starts late run beside the new ones.            *)
(***************************************************************************)
NoOverlap == \A p, q \in Live : p[1] = q[1]
==============================================================================
