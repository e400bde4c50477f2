--------------------------- MODULE HotReloadProofs ---------------------------
(***************************************************************************)
(* What the engine runs was saved, and the watcher reads what is written   *)
(* with a later time, for any handlers, reloaders, edits, file times and   *)
(* capacity of the channel, however their reloads interleave and whichever *)
(* of them panic.                                                          *)
(*                                                                         *)
(* A configuration travels from a handler's clone to the file, to memory,  *)
(* into the channel and into a pending reload.  The invariant follows it:  *)
(* wherever a configuration is that somebody may still install, its edits  *)
(* are saved ones.                                                         *)
(***************************************************************************)
EXTENDS HotReload, TLAPS

(* The edits that are acknowledged, made by hand, or in the file while     *)
(* their Update is still to answer.                                        *)
Saved ==
    acked \cup Operator
          \cup UNION {edit[t] : t \in {u \in Editors : pc[u] = "renamed"}}

Places == {"idle", "editing", "writing", "renamed", "seen", "read", "notify"}

HotTypeOK ==
    /\ mem \in Configs /\ file \in Configs /\ engine \in Configs
    /\ pc \in [Callers -> Places]
    /\ draft \in [Callers -> Configs]
    /\ edit \in [Callers -> Configs]
    /\ build \in [Threads -> Configs]
    /\ stage \in [Threads -> {"boot", "out", "get", "install", "reset", "wait",
                              "start", "dead"}]
    /\ queue \in Seq(Configs)

Writing(t) == pc[t] \in {"writing", "renamed"}

(* What thread t has in hand: a handler's own edit is not saved before its *)
(* rename.                                                                 *)
DraftSaved ==
    /\ \A t \in Callers : ~Writing(t) => draft[t] \subseteq Saved
    /\ \A t \in Callers : Writing(t) => draft[t] \subseteq Saved \cup edit[t]
    /\ \A t \in Callers : Writing(t) => t \in Editors

SavedEverywhere ==
    /\ mem \subseteq Saved /\ file \subseteq Saved /\ engine \subseteq Saved
    /\ \A t \in Threads : build[t] \subseteq Saved
    /\ \A i \in 1..Len(queue) : queue[i] \subseteq Saved

HotInv == HotTypeOK /\ DraftSaved /\ SavedEverywhere

(* The time the watcher has taken is that of a version of the file; unless *)
(* it has taken one in vain it has read that version or a later one, or is *)
(* about to.                                                               *)
WatcherInv ==
    /\ stamps \in Seq(Int) /\ seen \in 1..Len(stamps)
    /\ last \in Int
    /\ \E u \in 1..Len(stamps) : stamps[u] = last
    /\ pc[Watcher] # "seen" /\ ~blind => \E u \in 1..seen : stamps[u] = last
------------------------------------------------------------------------------
LEMMA InSaved ==
    ASSUME NEW x
    PROVE  x \in Saved <=> \/ x \in acked \/ x \in Operator
                           \/ \E t \in Editors : pc[t] = "renamed" /\ x \in edit[t]
  BY DEF Saved

LEMMA InSavedNext ==
    ASSUME NEW x
    PROVE  x \in Saved' <=> \/ x \in acked' \/ x \in Operator
                            \/ \E t \in Editors : pc'[t] = "renamed" /\ x \in edit'[t]
  BY DEF Saved

(* A step of one thread that leaves everything saved saved.                *)
LEMMA SavedGrows ==
    ASSUME HotTypeOK, acked \subseteq acked',
           \A t \in Editors : pc[t] = "renamed" =>
              \/ pc'[t] = "renamed" /\ edit'[t] = edit[t]
              \/ edit[t] \subseteq acked'
    PROVE  Saved \subseteq Saved'
  BY InSaved, InSavedNext

LEMMA SavedStays ==
    ASSUME acked' = acked,
           \A t \in Editors : /\ pc'[t] = "renamed" <=> pc[t] = "renamed"
                              /\ pc[t] = "renamed" => edit'[t] = edit[t]
    PROVE  Saved' = Saved
<1>1. ASSUME NEW x
      PROVE  x \in Saved' <=> x \in Saved
  BY InSaved, InSavedNext
<1> QED
  BY <1>1

LEMMA HotInit == Init => HotInv /\ WatcherInv
<1> SUFFICES ASSUME Init PROVE HotInv /\ WatcherInv
  OBVIOUS
<1>1. HotTypeOK
  BY DEF Init, StoreInit, HotTypeOK, Configs, Callers, Threads, Places
<1>2. DraftSaved /\ SavedEverywhere
  BY DEF Init, StoreInit, DraftSaved, SavedEverywhere, Writing, Callers, Threads
<1>3. WatcherInv
  BY DEF Init, StoreInit, WatcherInv
<1> QED
  BY <1>1, <1>2, <1>3 DEF HotInv
------------------------------------------------------------------------------
(* The engine's half: the store does not move, and what is handed on was   *)
(* saved before.                                                           *)
LEMMA EngineStep ==
    ASSUME HotInv,
           \/ \E t \in Callers : Get(t)
           \/ \E t \in Threads : Install(t) \/ Reset(t)
           \/ Receive \/ WatcherStarts
    PROVE  HotInv'
<1> USE DEF HotInv, HotTypeOK, DraftSaved, SavedEverywhere, Stage, Writing, Threads
<1>1. UNCHANGED storeVars
  BY DEF Get, Install, Reset, Lock, Renew, Start, Panic, Receive, WatcherStarts
<1>2. Saved' = Saved
  BY <1>1 DEF Saved, storeVars
<1>3. DraftSaved'
  BY <1>1, <1>2 DEF storeVars
<1>4. ASSUME NEW t \in Callers, Get(t)
      PROVE  HotInv'
  BY <1>1, <1>2, <1>3, <1>4 DEF Get, storeVars
<1>5. ASSUME NEW t \in Threads, Install(t)
      PROVE  HotInv'
  <2>1. {} \in Configs /\ {} \subseteq Saved
    BY DEF Configs
  <2> QED
    BY <1>1, <1>2, <1>3, <1>5, <2>1 DEF Install, storeVars
<1>6. ASSUME NEW t \in Threads, Reset(t)
      PROVE  HotInv'
  BY <1>1, <1>2, <1>3, <1>6 DEF Reset, Lock, Renew, Start, Panic, storeVars
<1>8. CASE WatcherStarts
  BY <1>1, <1>2, <1>3, <1>8, HotAssumption DEF WatcherStarts, Callers, storeVars
<1>7. CASE Receive
  <2>1. /\ Len(queue) > 0 /\ Head(queue) = queue[1]
        /\ queue' \in Seq(Configs) /\ Len(queue') = Len(queue) - 1
        /\ \A i \in 1..Len(queue') : queue'[i] = queue[i + 1]
    BY <1>7 DEF Receive
  <2>2. \A i \in 1..Len(queue') : queue'[i] \subseteq Saved
    <3>1. \A i \in 1..Len(queue') : i + 1 \in 1..Len(queue)
      BY <2>1
    <3> QED
      BY <2>1, <3>1
  <2>3. queue[1] \in Configs /\ queue[1] \subseteq Saved
    BY <2>1
  <2> QED
    BY <1>1, <1>2, <1>3, <1>7, <2>1, <2>2, <2>3 DEF Receive, storeVars
<1> QED
  BY <1>4, <1>5, <1>6, <1>7, <1>8
------------------------------------------------------------------------------
(* The store's half leaves the engine, its channel and the pending reloads *)
(* alone.                                                                  *)
LEMMA StoreSide ==
    ASSUME HotInv, Saved \subseteq Saved', UNCHANGED <<queue, build, stage, engine>>,
           mem' \subseteq Saved', file' \subseteq Saved',
           mem' \in Configs, file' \in Configs,
           pc' \in [Callers -> Places],
           draft' \in [Callers -> Configs], edit' \in [Callers -> Configs],
           DraftSaved'
    PROVE  HotInv'
<1>1. HotTypeOK'
  BY DEF HotInv, HotTypeOK
<1>2. SavedEverywhere'
  BY DEF HotInv, SavedEverywhere
<1> QED
  BY <1>1, <1>2 DEF HotInv

(* A clone is made, of memory or of what the client has fetched.           *)
LEMMA StartStep ==
    ASSUME HotInv, NEW t \in Editors, StartUpdate(t)
    PROVE  HotInv'
<1> USE DEF HotInv, HotTypeOK, DraftSaved, SavedEverywhere, Writing, Callers, Goto, Places
<1>1. /\ UNCHANGED <<mem, file, acked, hotVars>>
      /\ ~Writing(t)
      /\ \A u \in Callers : u # t => pc'[u] = pc[u] /\ draft'[u] = draft[u] /\ edit'[u] = edit[u]
  BY DEF StartUpdate, Begin, Download, BeginReplace, Draft
<1>2. Saved' = Saved
  <2>1. pc'[t] # "renamed"
    BY DEF StartUpdate, Begin, Download, BeginReplace
  <2>2. \A u \in Editors : /\ pc'[u] = "renamed" <=> pc[u] = "renamed"
                           /\ pc[u] = "renamed" => edit'[u] = edit[u]
    BY <1>1, <2>1
  <2> QED
    BY <1>1, <2>2, SavedStays
<1>3. CASE Download(t)
  <2>1. /\ pc' = [pc EXCEPT ![t] = "editing"] /\ draft' = [draft EXCEPT ![t] = mem]
        /\ edit' = edit
    BY <1>3 DEF Download
  <2>2. DraftSaved'
    BY <1>1, <1>2, <2>1
  <2> QED
    BY <1>1, <1>2, <2>1, <2>2, StoreSide DEF hotVars, engineVars
<1>4. ASSUME NEW base \in Configs, base \subseteq Saved, Draft(t, base),
             pc' = [pc EXCEPT ![t] = "writing"]
      PROVE  HotInv'
  <2>1. PICK x \in Edits : /\ draft' = [draft EXCEPT ![t] = base \cup {x}]
                           /\ edit' = [edit EXCEPT ![t] = {x}]
    BY <1>4 DEF Draft
  <2>2. base \cup {x} \in Configs /\ {x} \in Configs
    BY DEF Configs
  <2>3. draft' \in [Callers -> Configs] /\ edit' \in [Callers -> Configs]
    BY <2>1, <2>2
  <2>4. draft'[t] \subseteq Saved' \cup edit'[t] /\ pc'[t] = "writing"
    BY <1>2, <1>4, <2>1
  <2>5. DraftSaved'
    BY <1>1, <1>2, <2>4
  <2> QED
    BY <1>1, <1>2, <1>4, <2>3, <2>5, StoreSide DEF hotVars, engineVars
<1>5. CASE Begin(t)
  BY <1>4, <1>5 DEF Begin
<1>6. CASE BeginReplace(t)
  <2>1. draft[t] \in Configs /\ draft[t] \subseteq Saved
    BY <1>1
  <2> QED
    BY <1>4, <1>6, <2>1 DEF BeginReplace
<1> QED
  BY <1>3, <1>5, <1>6 DEF StartUpdate

(* With the rename the handler's own edit is among the saved ones, and it  *)
(* stays there when it is acknowledged; a failed write takes it away.      *)
LEMMA WriteStep ==
    ASSUME HotInv, NEW t \in Editors, UNCHANGED engineVars,
           Rename(t) \/ WriteFails(t) \/ Publish(t)
    PROVE  HotInv'
<1> USE DEF HotInv, HotTypeOK, DraftSaved, SavedEverywhere, Writing, Callers, Goto, Places
<1>1. /\ \A u \in Callers : u # t => pc'[u] = pc[u] /\ draft'[u] = draft[u] /\ edit'[u] = edit[u]
      /\ acked \subseteq acked'
  BY DEF Rename, WriteFails, Publish
<1>2. {} \in Configs
  BY DEF Configs
<1>3. Saved \subseteq Saved'
  BY <1>1, SavedGrows DEF Rename, WriteFails, Publish
<1>4. CASE Rename(t)
  <2>1. draft[t] \subseteq Saved'
    <3>1. edit[t] \subseteq Saved'
      BY <1>4, InSavedNext DEF Rename
    <3> QED
      BY <1>3, <1>4, <3>1 DEF Rename
  <2>2. DraftSaved'
    BY <1>1, <1>3, <1>4 DEF Rename
  <2> QED
    BY <1>3, <1>4, <2>1, <2>2, StoreSide DEF Rename, hotVars, engineVars
<1>5. CASE WriteFails(t)
  <2>1. DraftSaved'
    BY <1>1, <1>3, <1>5 DEF WriteFails
  <2> QED
    BY <1>2, <1>3, <1>5, <2>1, StoreSide DEF WriteFails, hotVars, engineVars
<1>6. CASE Publish(t)
  <2>1. draft[t] \subseteq Saved'
    <3>1. edit[t] \subseteq Saved'
      BY <1>6, InSavedNext DEF Publish
    <3> QED
      BY <1>3, <1>6, <3>1 DEF Publish
  <2>2. DraftSaved'
    BY <1>1, <1>3, <1>6, <2>1 DEF Publish
  <2> QED
    BY <1>2, <1>3, <1>6, <2>1, <2>2, StoreSide DEF Publish, hotVars, engineVars
<1> QED
  BY <1>4, <1>5, <1>6

(* The file is read and adopted: it had saved edits only.                  *)
LEMMA ReloadStep ==
    ASSUME HotInv, UNCHANGED <<queue, build, stage, engine>>,
           \/ /\ \E here, there \in {"idle", "seen"} : pc[Watcher] = here /\ Goto(Watcher, there)
              /\ UNCHANGED <<mem, file, draft, edit, acked>>
           \/ \E t \in Callers : ~Writing(t) /\ (ReadDisk(t) \/ Adopt(t))
    PROVE  HotInv'
<1> USE HotAssumption, StoreAssumption
    DEF HotInv, HotTypeOK, DraftSaved, SavedEverywhere, Writing, Callers, Goto, Places
<1>1. PICK t \in Callers :
         /\ \A u \in Callers : u # t => pc'[u] = pc[u] /\ draft'[u] = draft[u]
         /\ pc' \in [Callers -> Places] /\ ~Writing(t)'
         /\ draft'[t] \in {draft[t], file}
         /\ draft' \in [Callers -> Configs]
         /\ mem' \in {mem, draft[t]} /\ ~Writing(t)
         /\ UNCHANGED <<file, edit, acked>>
  <2>1. CASE /\ \E here, there \in {"idle", "seen"} : pc[Watcher] = here /\ Goto(Watcher, there)
             /\ UNCHANGED <<mem, file, draft, edit, acked>>
    BY <2>1
  <2>2. ASSUME NEW u \in Callers, ~Writing(u), ReadDisk(u) \/ Adopt(u)
        PROVE  /\ \A v \in Callers : v # u => pc'[v] = pc[v] /\ draft'[v] = draft[v]
               /\ pc' \in [Callers -> Places] /\ ~Writing(u)'
               /\ draft'[u] \in {draft[u], file}
               /\ draft' \in [Callers -> Configs]
               /\ mem' \in {mem, draft[u]} /\ ~Writing(u)
               /\ UNCHANGED <<file, edit, acked>>
    BY <2>2 DEF ReadDisk, Adopt
  <2> QED
    BY <2>1, <2>2
<1>2. \A u \in Editors : pc'[u] = "renamed" <=> pc[u] = "renamed"
  BY <1>1
<1>3. Saved' = Saved
  BY <1>1, <1>2, SavedStays
<1>4. draft'[t] \subseteq Saved' /\ mem' \subseteq Saved'
  BY <1>1, <1>3
<1>5. DraftSaved'
  BY <1>1, <1>3, <1>4
<1> QED
  BY <1>1, <1>3, <1>4, <1>5, StoreSide

LEMMA HandEditStep ==
    ASSUME HotInv, HandEdit
    PROVE  HotInv'
<1> USE DEF HotInv, HotTypeOK, DraftSaved, SavedEverywhere, Writing
<1>1. Saved' = Saved
  BY DEF HandEdit, Saved
<1>2. PICK x \in Operator : file' = file \cup {x}
  BY DEF HandEdit
<1>3. file' \in Configs /\ file' \subseteq Saved'
  BY <1>1, <1>2, HotAssumption DEF Configs, Saved
<1>4. DraftSaved'
  BY <1>1 DEF HandEdit
<1> QED
  BY <1>1, <1>3, <1>4, StoreSide DEF HandEdit, hotVars, engineVars

(* What goes into the channel is what its sender has just saved or read.   *)
LEMMA NotifyStep ==
    ASSUME HotInv, NEW t \in Callers, Notify(t) \/ NotifyTimesOut(t)
    PROVE  HotInv'
<1> USE DEF HotInv, HotTypeOK, DraftSaved, SavedEverywhere, Writing, Callers, Goto, Places,
        Threads, Stage
<1>1. /\ pc[t] = "notify" /\ pc' = [pc EXCEPT ![t] = "idle"]
      /\ draft' = [draft EXCEPT ![t] = {}]
      /\ stage' = [stage EXCEPT ![t] = "get"]
      /\ UNCHANGED <<mem, file, edit, acked, build, engine>>
  BY DEF Notify, NotifyTimesOut, Return
<1>2. {} \in Configs
  BY DEF Configs
<1>3. Saved' = Saved
  <2>1. \A u \in Editors : pc'[u] = "renamed" <=> pc[u] = "renamed"
    BY <1>1
  <2> QED
    BY <1>1, <2>1, SavedStays
<1>4. DraftSaved'
  BY <1>1, <1>3
<1>5. draft[t] \in Configs /\ draft[t] \subseteq Saved
  BY <1>1
<1>6. queue' \in Seq(Configs) /\ \A i \in 1..Len(queue') : queue'[i] \subseteq Saved
  <2>1. CASE queue' = queue
    BY <2>1
  <2>2. CASE queue' = Append(queue, draft[t])
    BY <2>2, <1>5
  <2> QED
    BY <2>1, <2>2 DEF Notify, NotifyTimesOut
<1>7. HotTypeOK'
  BY <1>1, <1>2, <1>6
<1>8. SavedEverywhere'
  BY <1>1, <1>3, <1>6
<1> QED
  BY <1>4, <1>7, <1>8

LEMMA HotStep ==
    ASSUME HotInv, [Next]_vars
    PROVE  HotInv'
<1>1. CASE \E t \in Editors : StartUpdate(t)
  BY <1>1, StartStep
<1>2. ASSUME NEW t \in Callers, Step(t)
      PROVE  HotInv'
  <2>1. CASE StoreStep(t)
    <3>1. CASE t \in Editors /\ (Rename(t) \/ WriteFails(t) \/ Publish(t)) /\ UNCHANGED engineVars
      BY <2>1, <3>1, WriteStep
    <3>2. CASE Adopt(t) /\ UNCHANGED hotVars
      BY <3>2, ReloadStep DEF Adopt, Writing, hotVars, engineVars
    <3> QED
      BY <2>1, <3>1, <3>2 DEF StoreStep, hotVars
  <2>2. CASE Notify(t) \/ NotifyTimesOut(t)
    BY <2>2, NotifyStep
  <2>3. CASE Get(t) \/ Install(t) \/ Reset(t)
    BY <2>3, EngineStep DEF Threads
  <2> QED
    BY <1>2, <2>1, <2>2, <2>3 DEF Step
<1>3. CASE Subscribe
  BY <1>3, EngineStep DEF Threads, Subscribe
<1>4. CASE WatchConfig
  <2>1. CASE WatcherStarts
    BY <2>1, EngineStep
  <2>2. CASE Watch \/ WatcherFails
    BY <2>2, ReloadStep DEF Watch, WatcherFails, Ready, engineVars
  <2>3. CASE WatcherReads
    BY <2>3, HotAssumption, ReloadStep DEF WatcherReads, Writing, Callers, engineVars
  <2> QED
    BY <1>4, <2>1, <2>2, <2>3 DEF WatchConfig
<1>6. CASE \E t \in Callers : HandlerReads(t)
  BY <1>6, ReloadStep DEF HandlerReads, Ready, Writing, hotVars, engineVars
<1>7. CASE HandEdit
  BY <1>7, HandEditStep
<1>8. CASE UNCHANGED vars
  BY <1>8 DEF vars, storeVars, hotVars, engineVars, HotInv, HotTypeOK, DraftSaved, SavedEverywhere,
     Writing, Saved
<1> QED
  BY <1>1, <1>2, <1>3, <1>4, <1>6, <1>7, <1>8 DEF Next

(* The engine runs saved edits only, by whichever way they came.           *)
THEOREM HotOnlySavedRuns == Spec => []OnlySavedRuns
<1>1. Init => HotInv
  BY HotInit
<1>2. HotInv /\ [Next]_vars => HotInv'
  BY HotStep
<1>3. HotInv => OnlySavedRuns
  BY DEF HotInv, SavedEverywhere, OnlySavedRuns, Saved
<1> QED
  BY <1>1, <1>2, <1>3, PTL DEF Spec
------------------------------------------------------------------------------
(* A new version takes none of the old times away.                         *)
LEMMA WrittenKeeps ==
    ASSUME WatcherInv, Written
    PROVE  /\ stamps' \in Seq(Int)
           /\ Len(stamps') = Len(stamps) + 1
           /\ \A u \in 1..Len(stamps) : stamps'[u] = stamps[u]
<1>1. mtime \in Int
  BY DEF WatcherInv, mtime
<1> QED
  BY <1>1 DEF WatcherInv, Written

LEMMA WatcherStep ==
    ASSUME HotTypeOK, WatcherInv, [Next]_vars
    PROVE  WatcherInv'
<1> USE HotAssumption, StoreAssumption DEF HotTypeOK, Callers, Goto
<1>0. Len(stamps) \in Nat /\ Len(stamps) \in 1..Len(stamps) /\ seen \in Nat
  BY DEF WatcherInv
<1>1. CASE WatcherReads
  BY <1>0, <1>1 DEF WatcherInv, WatcherReads, ReadDisk
<1>2. CASE Watch
  BY <1>0, <1>2 DEF WatcherInv, Watch, engineVars, mtime
<1>3. ASSUME Written, UNCHANGED <<last, seen, blind>>, pc'[Watcher] = pc[Watcher]
      PROVE  WatcherInv'
  <2>1. seen \in 1..Len(stamps') /\ \E u \in 1..Len(stamps') : stamps'[u] = last
    <3>1. PICK u \in 1..Len(stamps) : stamps[u] = last
      BY DEF WatcherInv
    <3>2. Len(stamps') = Len(stamps) + 1 /\ stamps'[u] = last
      BY <1>3, <3>1, WrittenKeeps
    <3>3. seen \in 1..Len(stamps') /\ u \in 1..Len(stamps')
      BY <1>0, <3>1, <3>2 DEF WatcherInv
    <3> QED
      BY <3>2, <3>3
  <2>2. ASSUME NEW u \in 1..seen
        PROVE  stamps'[u] = stamps[u]
    BY <1>0, <1>3, WrittenKeeps DEF WatcherInv
  <2> QED
    BY <1>3, <2>1, <2>2, WrittenKeeps DEF WatcherInv
<1>4. CASE /\ UNCHANGED watchVars
           /\ pc'[Watcher] = "seen" <=> pc[Watcher] = "seen"
  BY <1>4 DEF WatcherInv, watchVars
<1>5. ASSUME NEW t \in Editors, StartUpdate(t)
      PROVE  WatcherInv'
  BY <1>4, <1>5 DEF StartUpdate, Begin, Download, BeginReplace, hotVars
<1>6. ASSUME NEW t \in Callers, Step(t)
      PROVE  WatcherInv'
  <2>1. CASE StoreStep(t)
    BY <1>3, <1>4, <2>1 DEF StoreStep, Rename, WriteFails, Publish, Adopt, hotVars
  <2>2. CASE Notify(t) \/ NotifyTimesOut(t)
    BY <1>4, <2>2 DEF Notify, NotifyTimesOut, Return
  <2>3. CASE Get(t) \/ Install(t) \/ Reset(t)
    BY <1>4, <2>3 DEF Get, Install, Reset, Lock, Renew, Start, Panic, storeVars
  <2> QED
    BY <1>6, <2>1, <2>2, <2>3 DEF Step
<1>7. CASE Subscribe \/ UNCHANGED vars
  BY <1>4, <1>7 DEF Subscribe, Receive, Install, Reset, Lock, Renew, Start, Panic,
     vars, storeVars, hotVars
<1>8. ASSUME NEW t \in Callers, HandlerReads(t)
      PROVE  WatcherInv'
  BY <1>4, <1>8 DEF HandlerReads, Ready, ReadDisk, hotVars
<1>9. CASE WatcherStarts
  <2>1. /\ UNCHANGED <<stamps, seen>> /\ last' = stamps[Len(stamps)]
        /\ blind' = (seen # Len(stamps))
    BY <1>9 DEF WatcherStarts, mtime
  <2>2. last' \in Int /\ \E u \in 1..Len(stamps') : stamps'[u] = last'
    BY <1>0, <2>1 DEF WatcherInv
  <2>3. ~blind' => \E u \in 1..seen' : stamps'[u] = last'
    BY <1>0, <2>1
  <2> QED
    BY <2>1, <2>2, <2>3 DEF WatcherInv
<1>10. CASE WatcherFails
  BY <1>0, <1>10 DEF WatcherInv, WatcherFails, engineVars
<1>11. CASE HandEdit
  BY <1>3, <1>11 DEF HandEdit
<1> QED
  BY <1>1, <1>2, <1>5, <1>6, <1>7, <1>8, <1>9, <1>10, <1>11 DEF Next, WatchConfig

(* When everything has come to rest the watcher has read, in it or after   *)
(* it, each version that gave the file its latest time; whoever wrote it   *)
(* and whatever the watcher was busy with meanwhile.                       *)
THEOREM HotLaterWriteNoticed == Spec => []LaterWriteNoticed
<1>1. Init => HotInv /\ WatcherInv
  BY HotInit
<1>2. HotInv /\ WatcherInv /\ [Next]_vars => (HotInv /\ WatcherInv)'
  BY HotStep, WatcherStep DEF HotInv
<1>3. WatcherInv => LaterWriteNoticed
  <2> SUFFICES ASSUME WatcherInv, Quiet, ~blind, NEW v \in seen + 1 .. Len(stamps),
                      mtime >= stamps[v]
               PROVE  \E u \in 1 .. v - 1 : stamps[u] >= stamps[v]
    <3>1. ASSUME WatcherInv, NEW v \in seen + 1 .. Len(stamps), ~(mtime < stamps[v])
          PROVE  mtime >= stamps[v]
      <4>1. seen \in Nat /\ Len(stamps) \in Nat /\ Len(stamps) \in 1..Len(stamps)
        BY <3>1 DEF WatcherInv
      <4>2. v \in 1..Len(stamps)
        BY <4>1
      <4>3. mtime \in Int /\ stamps[v] \in Int
        BY <3>1, <4>1, <4>2 DEF WatcherInv, mtime
      <4> QED
        BY <3>1, <4>3
    <3> QED
      BY <3>1 DEF LaterWriteNoticed
  <2>1. pc[Watcher] # "seen" /\ mtime <= last
    BY HotAssumption DEF Quiet, Callers
  <2>2. PICK u \in 1..seen : stamps[u] = last
    BY <2>1 DEF WatcherInv
  <2>0. seen \in Nat /\ Len(stamps) \in Nat /\ Len(stamps) \in 1..Len(stamps)
    BY DEF WatcherInv
  <2>3. u \in 1 .. v - 1 /\ v \in 1..Len(stamps)
    BY <2>0, <2>2
  <2>4. stamps[v] \in Int /\ mtime \in Int
    BY <2>0, <2>3 DEF WatcherInv, mtime
  <2> QED
    BY <2>1, <2>2, <2>3, <2>4 DEF WatcherInv
<1> QED
  BY <1>1, <1>2, <1>3, PTL DEF Spec
==============================================================================
