------------------------------ MODULE HotReload ------------------------------
(***************************************************************************)
(* How a change reaches the engine.  Every caller of the store goes on to  *)
(* notify the subscribers and to reload the engine itself:                 *)
(*   an admin handler    Store.Update or Store.Reload, then                *)
(*                       Engine.Reload(store.Get())                        *)
(*   the file watcher    Store.Reload, then Engine.Reload(store.Get())     *)
(*                       (main.go:253-278)                                 *)
(*   the subscriber      Engine.Reload of what the channel delivers        *)
(*                       (main.go:120-129)                                 *)
(* Engine.Reload builds new pools, installs them under e.mu, and only then *)
(* points the health checker at them under h.mu; nothing orders one Reload *)
(* after another.  Resets wait for each other at h.mu, and may be stopped  *)
(* there for ever by one that panicked with the mutex locked.              *)
(*                                                                         *)
(* The watcher knows a new content by a later modification time only.  A   *)
(* file time has a finite granularity, so that two writes may have the     *)
(* same; the clock may be set back between them, and an older file may be  *)
(* moved in place.                                                         *)
(***************************************************************************)
EXTENDS ConfigStore, Sequences

CONSTANTS
    Watcher,        \* the goroutine watchConfig, one of the Reloaders
    Subscriber,     \* the goroutine that drains the channel
    Operator,       \* the edits made by hand in the file
    Capacity        \* capacity of the subscription channel, 4 in the code

ASSUME HotAssumption ==
    /\ Watcher \in Reloaders
    /\ Subscriber \notin Callers
    /\ Operator \subseteq Edits
    /\ Capacity \in Nat \ {0}

VARIABLES
    queue,          \* the subscription channel
    build,          \* build[t]: the configuration thread t is installing
    stage,          \* stage[t]: where t is in Engine.Reload
    engine,         \* the configuration of the installed routes
    owner,          \* the thread that installed them, while its Reset is due
    probed,         \* the health checker probes the installed pools
    stamps,         \* stamps[v]: the modification time of version v of the file
    last,           \* the modification time the watcher has seen
    seen,           \* history: the version the watcher has read last
    blind           \* history: the watcher has taken the time of a version it did
                    \*   not read

engineVars == <<queue, build, stage, engine, owner, probed>>
watchVars == <<stamps, last, seen, blind>>
hotVars == <<engineVars, watchVars>>
vars == <<storeVars, hotVars>>

Threads == Callers \cup {Subscriber}

(* The engine is built from the loaded configuration, version 1, and the   *)
(* watcher is about to start.                                              *)
Init ==
    /\ StoreInit
    /\ queue = <<>>
    /\ build = [t \in Threads |-> {}]
    /\ stage = [t \in Threads |-> IF t = Watcher THEN "boot" ELSE "out"]
    /\ engine = {} /\ owner = {} /\ probed = TRUE
    /\ stamps = <<0>> /\ last = 0
    /\ seen = 1 /\ blind = FALSE

Stage(t, s) == stage' = [stage EXCEPT ![t] = s]

(* A thread calls the store only when it is through with the engine. *)
Ready(t) == pc[t] = "idle" /\ stage[t] = "out"

mtime == stamps[Len(stamps)]

(* The file has a new version; its time need not be later.                 *)
Written == \E d \in {-1, 0, 1} : stamps' = Append(stamps, mtime + d)
------------------------------------------------------------------------------
(* Notifying the subscriber: a send that gives up after a second. *)

Notify_restat_bug(t) ==        \* the watcher takes the file's time afterwards
    /\ pc[t] = "notify"
    /\ Len(queue) < Capacity
    /\ queue' = Append(queue, draft[t])
    /\ last' = IF t = Watcher THEN mtime ELSE last
    /\ Stage(t, "get")
    /\ Return(t)
    /\ UNCHANGED <<build, engine, owner, probed, stamps, seen, blind>>

Notify(t) ==
    /\ pc[t] = "notify"
    /\ Len(queue) < Capacity
    /\ queue' = Append(queue, draft[t])
    /\ Stage(t, "get")
    /\ Return(t)
    /\ UNCHANGED <<build, engine, owner, probed, watchVars>>

NotifyTimesOut(t) ==
    /\ pc[t] = "notify"
    /\ Len(queue) = Capacity
    /\ Stage(t, "get")
    /\ Return(t)
    /\ UNCHANGED <<queue, build, engine, owner, probed, watchVars>>

(* The caller's own reload takes store.Get(), whatever that is by now. *)
Get(t) ==
    /\ stage[t] = "get"
    /\ lock = Free
    /\ build' = [build EXCEPT ![t] = mem]
    /\ Stage(t, "install")
    /\ UNCHANGED <<storeVars, queue, engine, owner, probed, watchVars>>

Receive ==
    /\ stage[Subscriber] = "out"
    /\ queue # <<>>
    /\ build' = [build EXCEPT ![Subscriber] = Head(queue)]
    /\ queue' = Tail(queue)
    /\ Stage(Subscriber, "install")
    /\ UNCHANGED <<storeVars, engine, owner, probed, watchVars>>
------------------------------------------------------------------------------
(* Engine.Reload *)

(* e.routes and e.cfg are replaced; the checker still has the old pools. *)
Install(t) ==
    /\ stage[t] = "install"
    /\ engine' = build[t]
    /\ owner' = {t}
    /\ probed' = FALSE
    /\ build' = [build EXCEPT ![t] = {}]
    /\ Stage(t, "reset")
    /\ UNCHANGED <<storeVars, queue, watchVars>>

(* HealthChecker.Reset holds h.mu while it waits for the probes that it    *)
(* has told to stop, and starts its own after it has unlocked it.          *)
MuFree == \A t \in Threads : stage[t] \notin {"wait", "dead"}

Lock(t) ==
    /\ stage[t] = "reset" /\ MuFree
    /\ Stage(t, "wait")
    /\ UNCHANGED <<storeVars, queue, build, engine, owner, probed, watchVars>>

(* The probes before are gone (HealthChecker has how they go): the pools t *)
(* has built are the checker's from now on.                                *)
Renew(t) ==
    /\ stage[t] = "wait"
    /\ probed' = (t \in owner)
    /\ owner' = owner \ {t}
    /\ Stage(t, "start")
    /\ UNCHANGED <<storeVars, queue, build, engine, watchVars>>

Start(t) ==
    /\ stage[t] = "start"
    /\ Stage(t, "out")
    /\ UNCHANGED <<storeVars, queue, build, engine, owner, probed, watchVars>>

(* The WaitGroup panics when another Reset adds to it while t is waking,   *)
(* and h.mu stays locked.                                                  *)
Panic(t) ==
    /\ stage[t] = "wait"
    /\ \E u \in Threads : stage[u] = "start"
    /\ Stage(t, "dead")
    /\ UNCHANGED <<storeVars, queue, build, engine, owner, probed, watchVars>>

Reset(t) == Lock(t) \/ Renew(t) \/ Start(t) \/ Panic(t)

(* net/http recovers the panic of a handler; that of the subscriber or of  *)
(* the watcher ends the process.                                           *)
Up == stage[Watcher] # "dead" /\ stage[Subscriber] # "dead"
------------------------------------------------------------------------------
(* The file watcher, every three seconds. *)

(* Its first look at the file is only for the time.                        *)
WatcherStarts ==
    /\ stage[Watcher] = "boot"
    /\ last' = mtime
    /\ blind' = (seen # Len(stamps))
    /\ Stage(Watcher, "out")
    /\ UNCHANGED <<storeVars, queue, build, engine, owner, probed, stamps, seen>>

Watch_forgets_bug ==           \* the time seen is not stored
    /\ Ready(Watcher)
    /\ mtime > last
    /\ Goto(Watcher, "seen")
    /\ UNCHANGED <<mem, file, lock, draft, edit, issued, acked, crashes>>
    /\ UNCHANGED hotVars

Watch ==
    /\ Ready(Watcher)
    /\ mtime > last
    /\ last' = mtime
    /\ Goto(Watcher, "seen")
    /\ UNCHANGED <<mem, file, lock, draft, edit, issued, acked, crashes>>
    /\ UNCHANGED <<engineVars, stamps, seen, blind>>

WatcherReads ==
    /\ pc[Watcher] = "seen"
    /\ ReadDisk(Watcher)
    /\ seen' = Len(stamps)
    /\ blind' = FALSE
    /\ UNCHANGED <<engineVars, stamps, last>>

(* The file cannot be read, or is no JSON because it is being written: the *)
(* watcher logs it and goes on, with the time it has taken.                *)
WatcherFails ==
    /\ pc[Watcher] = "seen"
    /\ Goto(Watcher, "idle")
    /\ blind' = TRUE
    /\ UNCHANGED <<mem, file, lock, draft, edit, issued, acked, crashes>>
    /\ UNCHANGED <<engineVars, stamps, last, seen>>

(* A handler may also serve POST /api/reload, which reads on demand, and   *)
(* answers an error when it cannot.                                        *)
HandlerReads(t) ==
    /\ Up /\ t # Watcher
    /\ Ready(t)
    /\ ReadDisk(t)
    /\ UNCHANGED hotVars

(* An operator saves the file with one more edit of his own. *)
HandEdit ==
    /\ \E x \in Operator \ issued :
          /\ file' = file \cup {x}
          /\ issued' = issued \cup {x}
    /\ Written
    /\ UNCHANGED <<mem, lock, pc, draft, edit, acked, crashes>>
    /\ UNCHANGED <<engineVars, last, seen, blind>>
------------------------------------------------------------------------------
StoreStep(t) ==
    \/ /\ t \in Editors /\ Rename(t) /\ Written
       /\ UNCHANGED <<engineVars, last, seen, blind>>
    \/ /\ t \in Editors /\ (WriteFails(t) \/ Publish(t))
       /\ UNCHANGED hotVars
    \/ Adopt(t) /\ UNCHANGED hotVars

(* What a thread does without being asked to. *)
Step(t) ==
    /\ Up
    /\ \/ StoreStep(t)
       \/ Notify(t) \/ NotifyTimesOut(t)
       \/ Get(t) \/ Install(t) \/ Reset(t)

Subscribe == Up /\ (Receive \/ Install(Subscriber) \/ Reset(Subscriber))

WatchConfig == Up /\ (WatcherStarts \/ Watch \/ WatcherReads \/ WatcherFails)

StartUpdate(t) ==
    /\ Up /\ stage[t] = "out"
    /\ Begin(t) \/ Download(t) \/ BeginReplace(t)
    /\ issued' \cap Operator = issued \cap Operator
    /\ UNCHANGED hotVars

Next ==
    \/ \E t \in Editors : StartUpdate(t)
    \/ \E t \in Callers : Step(t)
    \/ Subscribe
    \/ WatchConfig
    \/ \E t \in Callers : HandlerReads(t)
    \/ HandEdit

Spec == Init /\ [][Next]_vars

(* Every goroutine runs on while the process does, the watcher's ticker    *)
(* and the subscriber included.  Whoever waits for a mutex gets it when it *)
(* is free; nobody has to edit anything.                                   *)
Fairness ==
    /\ \A t \in Callers : WF_vars(Step(t))
    /\ WF_vars(Subscribe) /\ WF_vars(WatchConfig)

FairSpec == Spec /\ Fairness
------------------------------------------------------------------------------
(* Nothing is under way: no update, no reload, no message, no news for the *)
(* watcher.                                                                *)
Quiet ==
    /\ \A t \in Callers : pc[t] \in {"idle", "editing"} /\ stage[t] = "out"
    /\ stage[Subscriber] = "out"
    /\ queue = <<>>
    /\ mtime <= last

(***************************************************************************)
(* A write that gives the file a later time than it ever had is noticed:   *)
(* though the watcher takes the file's time in one step and its content in *)
(* another, and is busy with a reload while others write, when everything  *)
(* has come to rest it has read that version or one after it.  Excepted    *)
(* are a version it failed to read, or that was written before it started, *)
(* until it reads again; and one in whose place an older file was put.     *)
(***************************************************************************)
LaterWriteNoticed ==
    Quiet /\ ~blind =>
        \A v \in seen + 1 .. Len(stamps) :
            (\E u \in 1 .. v - 1 : stamps[u] >= stamps[v]) \/ mtime < stamps[v]

(***************************************************************************)
(* README.md:349, "hot reload within 3 seconds of the change", without the *)
(* exceptions: when everything has come to rest the watcher has read the   *)
(* present content of the file.                                            *)
(***************************************************************************)
EveryWriteNoticed == Quiet => seen = Len(stamps)

(***************************************************************************)
(* main.go:131, "editing the JSON directly takes effect as well": when     *)
(* everything has come to rest, and the watcher has read the last version, *)
(* the store holds what the file says.  It fails when POST /api/reload is  *)
(* slow to adopt an older content.                                         *)
(***************************************************************************)
MemoryFollowsFile == Quiet /\ seen = Len(stamps) => mem = file

(***************************************************************************)
(* README, "changes take effect at once": when everything has come to rest *)
(* the engine runs the stored configuration, though old notifications and  *)
(* slow reloads may have been installed in between.                        *)
(***************************************************************************)
EngineCurrent == Quiet => engine = mem

(***************************************************************************)
(* README, "active health checks": when everything has come to rest, the   *)
(* checker probes the pools that are installed.  Install and Reset of two  *)
(* concurrent reloads may come in opposite orders, and then nobody probes  *)
(* the pools in use.                                                       *)
(***************************************************************************)
PoolsProbed == Quiet => probed

(***************************************************************************)
(* main.go:131, "editing the JSON directly takes effect as well".          *)
(***************************************************************************)
HandEditTakesEffect ==
    \A x \in Operator : x \in file ~> x \in engine

(***************************************************************************)
(* Nothing runs that was not saved: every edit the engine applies was      *)
(* acknowledged, made by hand in the file, or is in the file already while *)
(* its Update is still to answer.  Edits whose write failed never reach    *)
(* the engine, by whichever of the four ways a configuration gets there.   *)
(***************************************************************************)
OnlySavedRuns ==
    engine \subseteq acked \cup Operator
                    \cup UNION {edit[t] : t \in {u \in Editors : pc[u] = "renamed"}}

(***************************************************************************)
(* When nobody asks for anything any more, the system comes to rest: no    *)
(* reload waits for another that waits for it, at the store, in the        *)
(* channel or at h.mu, and no reload causes the next, though the watcher   *)
(* reacts to what Update writes, the subscriber to what the watcher reads, *)
(* and a full channel drops what it cannot take.  What may keep it from    *)
(* that is only the panic of a Reset, after which the process is over or   *)
(* every later Reset waits for h.mu for ever.                              *)
(***************************************************************************)
Jammed == \E t \in Threads : stage[t] = "dead"

ComesToRest ==
    <>[][\A t \in Callers : ~HandlerReads(t)]_vars => <>[](Quiet \/ Jammed)

(***************************************************************************)
(* upstream.go:330, Reset returns: without that exception.                 *)
(***************************************************************************)
AlwaysComesToRest ==
    <>[][\A t \in Callers : ~HandlerReads(t)]_vars => <>[]Quiet
==============================================================================
