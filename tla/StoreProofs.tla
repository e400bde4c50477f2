----------------------------- MODULE StoreProofs -----------------------------
(***************************************************************************)
(* What Store.Update guarantees for any number of concurrent handlers, of  *)
(* callers of Store.Reload, of edits and of crashes, and what follows for  *)
(* the credentials of the console.                                         *)
(*                                                                         *)
(* The inductive invariant follows the lock: a handler between the two     *)
(* ends of its critical section holds it, so there is at most one of them. *)
(* Memory may be behind the file, since a Reload adopts what it read       *)
(* before it had the lock; but nobody touches memory while a handler is in *)
(* its section, and what it writes extends it.                             *)
(* The handlers of the credentials are a use of the store, so that all     *)
(* this holds under them, and on top of it sessions and acknowledged       *)
(* passwords stay.                                                         *)
(***************************************************************************)
EXTENDS AdminAuth, TLAPS

InSection(t) == pc[t] \in {"writing", "renamed"}

LockHeld == \A t \in Editors : InSection(t) <=> lock = t

Renamed == \A t \in Editors : pc[t] = "renamed" => file = draft[t]

(* Only replacers fetch a configuration, and only reloaders read the file. *)
OwnSteps ==
    \A t \in Callers : /\ pc[t] = "editing" => t \in Replacers
                       /\ pc[t] \in {"writing", "renamed"} => t \in Editors
                       /\ pc[t] = "read" => t \in Reloaders

StoreInv == StoreTypeOK /\ LockHeld /\ Renamed /\ OwnSteps

(* What a handler is about to write has its own edit in it, and everything *)
(* that is in memory, unless it replaces the whole configuration.          *)
Extending ==
    \A t \in Editors : InSection(t) =>
        /\ edit[t] \subseteq draft[t]
        /\ t \notin Replacers => mem \subseteq draft[t]

(* The edits that are acknowledged, or in the file with an answer to come. *)
Answered == acked \cup UNION {edit[t] : t \in {u \in Editors : pc[u] = "renamed"}}

(* Memory, and what a client fetched from it, was acknowledged; the file,  *)
(* and what a Reload read in it, was or is going to be; what a handler is  *)
(* about to write was, its own edit apart.                                 *)
Asked ==
    crashes = 0 =>
        /\ mem \subseteq acked
        /\ file \subseteq Answered
        /\ \A t \in Callers :
              /\ pc[t] = "editing" => draft[t] \subseteq acked
              /\ pc[t] = "read" => draft[t] \subseteq Answered
        /\ \A t \in Editors : InSection(t) => draft[t] \subseteq acked \cup edit[t]

------------------------------------------------------------------------------
(* The initial configuration satisfies everything. *)
LEMMA StoreInitOK ==
    StoreInit => StoreInv /\ Extending /\ Asked
  BY StoreAssumption, FreeAssumption
  DEF StoreInit, StoreInv, StoreTypeOK, LockHeld, Renamed, InSection,
      OwnSteps, Extending, Asked, Configs, Callers

(* Every step of the store is a step of one handler, of one Reload, or the *)
(* end of the process.                                                     *)
LEMMA StoreSteps ==
    ASSUME StoreNext
    PROVE  \/ \E t \in Editors : Update(t)
           \/ \E t \in Reloaders : (pc[t] = "idle" /\ ReadDisk(t)) \/ Adopt(t)
           \/ \E t \in Callers : Return(t)
           \/ Crash
  BY DEF StoreNext

(* The lock discipline is inductive. *)
LEMMA StoreInvStep ==
    ASSUME StoreInv, [StoreNext]_storeVars
    PROVE  StoreInv'
<1> USE StoreAssumption, FreeAssumption
        DEF StoreInv, StoreTypeOK, LockHeld, Renamed, OwnSteps, InSection, Configs, Callers
<1>1. ASSUME NEW t \in Editors, Begin(t)
      PROVE  StoreInv'
  BY <1>1 DEF Begin, Draft, Goto
<1>2. ASSUME NEW t \in Editors, Download(t)
      PROVE  StoreInv'
  BY <1>2 DEF Download, Goto
<1>3. ASSUME NEW t \in Editors, BeginReplace(t)
      PROVE  StoreInv'
  BY <1>3 DEF BeginReplace, Draft, Goto
<1>4. ASSUME NEW t \in Editors, Rename(t)
      PROVE  StoreInv'
  BY <1>4 DEF Rename, Goto
<1>5. ASSUME NEW t \in Editors, WriteFails(t)
      PROVE  StoreInv'
  BY <1>5 DEF WriteFails, Goto
<1>6. ASSUME NEW t \in Editors, Publish(t)
      PROVE  StoreInv'
  BY <1>6 DEF Publish, Goto
<1>7. ASSUME NEW t \in Reloaders, pc[t] = "idle", ReadDisk(t)
      PROVE  StoreInv'
  BY <1>7 DEF ReadDisk, Goto
<1>8. ASSUME NEW t \in Reloaders, Adopt(t)
      PROVE  StoreInv'
  BY <1>8 DEF Adopt, Goto
<1>9. ASSUME NEW t \in Callers, Return(t)
      PROVE  StoreInv'
  BY <1>9 DEF Return, Goto
<1>10. CASE Crash
  BY <1>10 DEF Crash
<1>11. CASE UNCHANGED storeVars
  BY <1>11 DEF storeVars
<1> QED
  BY <1>1, <1>2, <1>3, <1>4, <1>5, <1>6, <1>7, <1>8, <1>9, <1>10, <1>11, StoreSteps DEF Update

------------------------------------------------------------------------------
(* What a step can do to memory and to the file: a rename writes the file, *)
(* a publication and a Reload write memory, and only a Reload may write    *)
(* there what the file does not say.                                       *)
LEMMA PartsStep ==
    ASSUME StoreInv, StoreNext
    PROVE  /\ MemoryIsFile => MemoryIsFile' \/ StaleReload
           /\ (\E t \in Editors : pc[t] = "renamed" /\ pc'[t] = "notify") => MemoryIsFile'
           /\ crashes' # crashes => MemoryIsFile'
<1> USE StoreAssumption, FreeAssumption
        DEF StoreInv, StoreTypeOK, LockHeld, Renamed, OwnSteps, InSection, Callers, MemoryIsFile
<1>1. ASSUME NEW t \in Editors, Rename(t)
      PROVE  /\ MemoryIsFile' /\ crashes' = crashes
             /\ ~\E u \in Editors : pc[u] = "renamed" /\ pc'[u] = "notify"
  BY <1>1 DEF Rename, Goto
<1>2. ASSUME NEW t \in Editors, Publish(t)
      PROVE  MemoryIsFile' /\ crashes' = crashes
  BY <1>2 DEF Publish
<1>3. ASSUME NEW t \in Reloaders, Adopt(t)
      PROVE  /\ MemoryIsFile' \/ StaleReload
             /\ crashes' = crashes
             /\ ~\E u \in Editors : pc[u] = "renamed" /\ pc'[u] = "notify"
  BY <1>3 DEF Adopt, Goto, StaleReload
<1>4. ASSUME NEW t \in Callers,
             \/ t \in Editors /\ (Begin(t) \/ Download(t) \/ BeginReplace(t) \/ WriteFails(t))
             \/ t \in Reloaders /\ pc[t] = "idle" /\ ReadDisk(t)
             \/ Return(t)
      PROVE  /\ MemoryIsFile => MemoryIsFile'
             /\ crashes' = crashes
             /\ ~\E u \in Editors : pc[u] = "renamed" /\ pc'[u] = "notify"
  <2>1. /\ UNCHANGED <<mem, file, crashes>> /\ pc[t] # "renamed"
        /\ \A u \in Callers \ {t} : pc'[u] = pc[u] /\ draft'[u] = draft[u]
        /\ \A u \in Editors : lock = u /\ u # t => lock' = u
    BY <1>4 DEF Begin, Download, BeginReplace, WriteFails, Return, ReadDisk, Draft, Goto
  <2> QED
    BY <2>1
<1>5. CASE Crash
  <2>1. MemoryIsFile' /\ \A u \in Editors : pc'[u] # "notify"
    BY <1>5 DEF Crash
  <2> QED
    BY <2>1
<1> QED
  BY <1>1, <1>2, <1>3, <1>4, <1>5, StoreSteps DEF Update

(* Between its rename and its assignment the holder of the lock has put    *)
(* into the file what is not yet in memory; apart from that, memory and    *)
(* file part only when a Reload adopts what the file no longer says:       *)
(* whatever handlers run, fail or die, and even when they replace the      *)
(* whole configuration by an old one.                                      *)
THEOREM StoreConsistent == StoreSpec => []StoreTypeOK /\ OnlyStaleReloadParts
<1> DEFINE Keeps == /\ MemoryIsFile => MemoryIsFile' \/ StaleReload
                    /\ (\E t \in Editors : pc[t] = "renamed" /\ pc'[t] = "notify")
                          => MemoryIsFile'
                    /\ crashes' # crashes => MemoryIsFile'
<1>1. StoreInit => StoreInv
  BY StoreInitOK
<1>2. StoreInv /\ [StoreNext]_storeVars => StoreInv'
  BY StoreInvStep
<1>3. StoreInv /\ [StoreNext]_storeVars => [Keeps]_storeVars
  BY PartsStep
<1>4. StoreInv => StoreTypeOK
  BY DEF StoreInv
<1> QED
  BY <1>1, <1>2, <1>3, <1>4, PTL DEF StoreSpec, OnlyStaleReloadParts

(* A handler's draft is made from memory, and memory stays as it is until  *)
(* the handler is done with it.                                            *)
LEMMA ExtendingStep ==
    ASSUME StoreInv, Extending, [StoreNext]_storeVars
    PROVE  Extending'
<1> USE StoreAssumption, FreeAssumption
        DEF StoreInv, StoreTypeOK, LockHeld, Renamed, OwnSteps,
            InSection, Configs, Callers, Extending
<1>1. ASSUME NEW t \in Editors, Begin(t)
      PROVE  Extending'
  BY <1>1 DEF Begin, Draft, Goto
<1>2. ASSUME NEW t \in Editors, Rename(t)
      PROVE  Extending'
  BY <1>2 DEF Rename, Goto
<1>3. ASSUME NEW t \in Editors, WriteFails(t)
      PROVE  Extending'
  BY <1>3 DEF WriteFails, Goto
<1>4. ASSUME NEW t \in Editors, Publish(t)
      PROVE  Extending'
  BY <1>4 DEF Publish, Goto
<1>5. ASSUME NEW t \in Callers, Return(t)
      PROVE  Extending'
  BY <1>5 DEF Return, Goto
<1>6. CASE Crash
  BY <1>6 DEF Crash
<1>7. CASE UNCHANGED storeVars
  BY <1>7 DEF storeVars
<1>8. ASSUME NEW t \in Editors, Download(t)
      PROVE  Extending'
  BY <1>8 DEF Download, Goto
<1>9. ASSUME NEW t \in Editors, BeginReplace(t)
      PROVE  Extending'
  BY <1>9 DEF BeginReplace, Draft, Goto
<1>10. ASSUME NEW t \in Reloaders, pc[t] = "idle", ReadDisk(t)
      PROVE  Extending'
  BY <1>10 DEF ReadDisk, Goto
<1>11. ASSUME NEW t \in Reloaders, Adopt(t)
      PROVE  Extending'
  BY <1>11 DEF Adopt, Goto
<1> QED
  BY <1>1, <1>2, <1>3, <1>4, <1>5, <1>6, <1>7, <1>8, <1>9, <1>10, <1>11, StoreSteps DEF Update

(* Only a rename changes the file, and it extends what is in memory; only  *)
(* a publication acknowledges, and it follows the rename.                  *)
LEMMA DurableStep ==
    ASSUME StoreInv, Extending, StoreNext
    PROVE  /\ acked' \ acked \subseteq mem' \cap file'
           /\ Safe \subseteq file' \/ Replaced
           /\ Safe \subseteq mem' \/ StaleReload
<1> USE StoreAssumption, FreeAssumption
        DEF StoreInv, StoreTypeOK, LockHeld, Renamed, OwnSteps, InSection,
            Configs, Callers, Extending, Safe
<1>1. ASSUME NEW t \in Editors, Rename(t), t \notin Replacers
      PROVE  mem \subseteq file' /\ mem' = mem /\ acked' = acked
  BY <1>1 DEF Rename
<1>2. ASSUME NEW t \in Editors, Rename(t), t \in Replacers
      PROVE  Replaced /\ mem' = mem /\ acked' = acked
  BY <1>2 DEF Rename, Goto, Replaced
<1>3. ASSUME NEW t \in Editors, Publish(t)
      PROVE  mem' = file /\ file' = file /\ acked' = acked \cup edit[t] /\ edit[t] \subseteq file
  BY <1>3 DEF Publish
<1>4. ASSUME NEW t \in Callers,
             \/ Begin(t) \/ Download(t) \/ BeginReplace(t)
             \/ WriteFails(t) \/ Return(t) \/ ReadDisk(t)
      PROVE  UNCHANGED <<mem, file, acked>>
  BY <1>4 DEF Begin, Download, BeginReplace, WriteFails, Return, ReadDisk
<1>5. ASSUME NEW t \in Reloaders, Adopt(t)
      PROVE  file' = file /\ acked' = acked /\ (mem' = file \/ StaleReload)
  BY <1>5 DEF Adopt, Goto, StaleReload
<1>6. CASE Crash
  BY <1>6 DEF Crash
<1> QED
  BY <1>1, <1>2, <1>3, <1>4, <1>5, <1>6, StoreSteps DEF Update

(* An edit is acknowledged after it is in memory and in the file; nothing  *)
(* but the replacement of the whole configuration takes it out of the file *)
(* again, and nothing but an overtaken Reload out of memory.               *)
THEOREM UpdateDurable == StoreSpec => Durable
<1> DEFINE IInv == StoreInv /\ Extending
           Keeps == /\ acked' \ acked \subseteq mem' \cap file'
                    /\ Safe \subseteq file' \/ Replaced
                    /\ Safe \subseteq mem' \/ StaleReload
<1>1. StoreInit => IInv
  BY StoreInitOK
<1>2. IInv /\ [StoreNext]_storeVars => IInv'
  BY StoreInvStep, ExtendingStep
<1>3. IInv /\ [StoreNext]_storeVars => [Keeps]_storeVars
  BY DurableStep
<1> QED
  BY <1>1, <1>2, <1>3, PTL DEF StoreSpec, Durable

------------------------------------------------------------------------------
LEMMA InAnswered ==
    ASSUME NEW x
    PROVE  x \in Answered <=> \/ x \in acked
                              \/ \E t \in Editors : pc[t] = "renamed" /\ x \in edit[t]
  BY DEF Answered

LEMMA InAnsweredNext ==
    ASSUME NEW x
    PROVE  x \in Answered' <=> \/ x \in acked'
                               \/ \E t \in Editors : pc'[t] = "renamed" /\ x \in edit'[t]
  BY DEF Answered

(* Until a crash, an edit that is in the file is acknowledged in the end.  *)
LEMMA AnsweredGrows ==
    ASSUME StoreInv, [StoreNext]_storeVars
    PROVE  Answered \subseteq Answered' \/ crashes' # 0
<1> USE StoreAssumption DEF StoreInv, StoreTypeOK, OwnSteps, Callers, Goto
<1>1. \/ crashes' # 0
      \/ /\ acked \subseteq acked'
         /\ \A u \in Editors : pc[u] = "renamed" =>
               \/ pc'[u] = "renamed" /\ edit'[u] = edit[u]
               \/ edit[u] \subseteq acked'
  <2>1. ASSUME NEW t \in Callers,
               \/ t \in Editors /\ Update(t)
               \/ t \in Reloaders /\ ((pc[t] = "idle" /\ ReadDisk(t)) \/ Adopt(t))
               \/ Return(t)
        PROVE  <1>1!2
    BY <2>1 DEF Update, Begin, Download, BeginReplace, Draft, Rename, WriteFails, Publish,
       Return, ReadDisk, Adopt
  <2>2. CASE Crash
    BY <2>2 DEF Crash
  <2>3. CASE UNCHANGED storeVars
    BY <2>3 DEF storeVars
  <2> QED
    BY <2>1, <2>2, <2>3, StoreSteps
<1> QED
  BY <1>1, InAnswered, InAnsweredNext

(* Only acknowledged edits come into memory, and into the drafts that are  *)
(* made from it: while nobody holds the lock, everything in the file is    *)
(* acknowledged, and so is what a Reload has read there before.            *)
LEMMA AskedStep ==
    ASSUME StoreInv, Asked, [StoreNext]_storeVars
    PROVE  Asked'
<1> SUFFICES ASSUME crashes' = 0 PROVE Asked'
  BY DEF Asked
<1> USE StoreAssumption, FreeAssumption
        DEF StoreInv, StoreTypeOK, LockHeld, OwnSteps, InSection, Configs, Callers, Asked
<1>a. Answered \subseteq Answered'
  BY AnsweredGrows
<1>1. ASSUME NEW t \in Editors, Begin(t)
      PROVE  Asked'
  BY <1>1, <1>a DEF Begin, Draft, Goto
<1>2. ASSUME NEW t \in Editors, Download(t)
      PROVE  Asked'
  BY <1>2, <1>a DEF Download, Goto
<1>3. ASSUME NEW t \in Editors, BeginReplace(t)
      PROVE  Asked'
  BY <1>3, <1>a DEF BeginReplace, Draft, Goto
<1>4. ASSUME NEW t \in Editors, Rename(t)
      PROVE  Asked'
  <2>1. draft[t] \subseteq Answered'
    BY <1>4, InAnsweredNext DEF Rename, Goto
  <2> QED
    BY <1>4, <1>a, <2>1 DEF Rename, Goto
<1>5. ASSUME NEW t \in Editors, WriteFails(t)
      PROVE  Asked'
  BY <1>5, <1>a DEF WriteFails, Goto
<1>6. ASSUME NEW t \in Editors, Publish(t)
      PROVE  Asked'
  BY <1>6, <1>a DEF Publish, Goto
<1>7. ASSUME NEW t \in Reloaders, pc[t] = "idle", ReadDisk(t)
      PROVE  Asked'
  BY <1>7, <1>a DEF ReadDisk, Goto
<1>8. ASSUME NEW t \in Reloaders, Adopt(t)
      PROVE  Asked'
  <2>1. \A u \in Editors : pc[u] # "renamed"
    BY <1>8 DEF Adopt
  <2>2. Answered = acked
    BY <2>1 DEF Answered
  <2> QED
    BY <1>8, <1>a, <2>2 DEF Adopt, Goto
<1>9. ASSUME NEW t \in Callers, Return(t)
      PROVE  Asked'
  BY <1>9, <1>a DEF Return, Goto
<1>10. CASE Crash
  BY <1>10 DEF Crash
<1>11. CASE UNCHANGED storeVars
  BY <1>11, <1>a DEF storeVars
<1> QED
  BY <1>1, <1>2, <1>3, <1>4, <1>5, <1>6, <1>7, <1>8, <1>9, <1>10, <1>11, StoreSteps DEF Update

(* What is in force was acknowledged, unless a crash came in between.      *)
THEOREM StoreAsked == StoreSpec => []NothingUnasked
<1> DEFINE IInv == StoreInv /\ Asked
<1>1. StoreInit => IInv
  BY StoreInitOK
<1>2. IInv /\ [StoreNext]_storeVars => IInv'
  BY StoreInvStep, AskedStep
<1>3. IInv => NothingUnasked
  BY DEF Asked, NothingUnasked
<1> QED
  BY <1>1, <1>2, <1>3, PTL DEF StoreSpec

------------------------------------------------------------------------------
(* Whatever a handler does is a step of the store or leaves it alone. *)
LEMMA AdminStoreStep ==
    ASSUME [Next]_vars
    PROVE  [StoreNext]_storeVars
<1>1. ASSUME NEW t \in Editors, Handle(t)
      PROVE  [StoreNext]_storeVars
  <2>1. CASE Edit(t) \/ Change(t) \/ ChangeName(t)
    BY <2>1 DEF Edit, Change, ChangeName, StoreNext, Update
  <2>2. CASE Fetch(t)
    BY <2>2 DEF Fetch, StoreNext, Update
  <2>3. CASE Put(t) \/ Import(t)
    BY <2>3 DEF Put, Import, StoreNext, Update
  <2>4. CASE Write(t) \/ Install(t)
    BY <2>4 DEF Write, Install, StoreNext, Update
  <2>5. CASE Answer(t)
    BY <2>5 DEF Answer, StoreNext, Update, Callers
  <2>6. CASE Check(t) \/ ReadOld(t)
    BY <2>6 DEF Check, ReadOld
  <2> QED
    BY <1>1, <2>1, <2>2, <2>3, <2>4, <2>5, <2>6 DEF Handle
<1>2. CASE Login \/ \E t \in Signers : Sign(t)
  BY <1>2 DEF Login, Sign
<1>3. CASE Restart
  BY <1>3 DEF Restart, StoreNext
<1>4. CASE UNCHANGED vars
  BY <1>4 DEF vars, storeVars
<1>5. ASSUME NEW t \in Reloaders, Reload(t)
      PROVE  [StoreNext]_storeVars
  BY <1>5 DEF Reload, ReadFile, TakeUp, Reloaded, StoreNext, Callers
<1> QED
  BY <1>1, <1>2, <1>3, <1>4, <1>5 DEF Next

(* The console's handlers, password and import included, and the Reloads   *)
(* beside them use the store as ConfigStore says: each of their updates is *)
(* one of its updates.                                                     *)
THEOREM AdminImplementsStore == Spec => StoreSpec
<1>1. Init => StoreInit
  BY DEF Init
<1>2. [Next]_vars => [StoreNext]_storeVars
  BY AdminStoreStep
<1> QED
  BY <1>1, <1>2, PTL DEF Spec, StoreSpec

(* Hence only an overtaken Reload parts memory and file, ... *)
THEOREM AdminStoreConsistent == Spec => OnlyStaleReloadParts
<1>1. StoreSpec => OnlyStaleReloadParts
  BY StoreConsistent
<1> QED
  BY <1>1, AdminImplementsStore

(* ... and acknowledged edits are durable under them. *)
THEOREM AdminUpdateDurable == Spec => Durable
  BY UpdateDurable, AdminImplementsStore

------------------------------------------------------------------------------
Credentials == [user : Users \cup {None}, pass : Passwords \cup {None}, secret : Nat]

Tasks == {"none", "edit", "fetched", "put", "import", "change", "rename", "sign"}

AdminTypeOK ==
    /\ admin \in Credentials /\ adminFile \in Credentials
    /\ adminDraft \in [Callers -> Credentials]
    /\ seen \in [Editors -> Credentials]
    /\ want \in [Signers -> Credentials]
    /\ task \in [Signers -> Tasks]
    /\ secrets \in Nat
    /\ alone \in Editors \cup {None}

LEMMA AdminTypeInit == Init => AdminTypeOK
  BY CredentialsAssumption
  DEF Init, AdminTypeOK, Credentials, Tasks, Nothing

(* How a handler goes on after its Update. *)
LEMMA AnswerGoesOn ==
    ASSUME NEW t \in Editors, AdminTypeOK, Answer(t)
    PROVE  \E next \in {"none", "sign", "rename"} :
              /\ Proceed(t, next)
              /\ Wanted(t, next) \in Credentials
              /\ next # "none" =>
                    /\ task[t] = "rename" \/ (task[t] = "change" /\ Return(t))
                    /\ Wanted(t, next).pass = want[t].pass
<1>1. PICK next \in {"none", "sign", "rename"} :
         /\ Proceed(t, next)
         /\ next # "none" => task[t] = "rename" \/ (task[t] = "change" /\ Return(t))
  <2>1. CASE WriteFails(t) /\ Proceed(t, AfterError(t))
    <3>1. /\ AfterError(t) \in {"none", "sign", "rename"}
          /\ AfterError(t) # "none" => task[t] = "rename"
      BY DEF AfterError
    <3> QED
      BY <2>1, <3>1
  <2>2. CASE Return(t) /\ Proceed(t, AfterUpdate(t))
    <3>1. /\ AfterUpdate(t) \in {"none", "sign", "rename"}
          /\ AfterUpdate(t) # "none" => task[t] \in {"rename", "change"}
      BY DEF AfterUpdate, AfterError
    <3> QED
      BY <2>2, <3>1
  <2> QED
    BY <2>1, <2>2 DEF Answer
<1>2. want[t] \in Credentials /\ seen[t] \in Credentials /\ Nothing \in Credentials
  BY DEF AdminTypeOK, Signers, Credentials, Nothing
<1>3. [want[t] EXCEPT !.user = seen[t].user] \in Credentials
  BY <1>2 DEF Credentials
<1>4. next # "none" => Wanted(t, next).pass = want[t].pass
  BY <1>2 DEF Wanted, Credentials
<1> QED
  BY <1>1, <1>2, <1>3, <1>4 DEF Wanted

LEMMA AdminTypeStep ==
    ASSUME AdminTypeOK, [Next]_vars
    PROVE  AdminTypeOK'
<1> USE CredentialsAssumption DEF AdminTypeOK, Credentials, Tasks, Signers, Callers, Do, WillWrite
<1>1. ASSUME NEW t \in Editors, Handle(t)
      PROVE  AdminTypeOK'
  <2>1. CASE Edit(t)
    BY <2>1 DEF Edit
  <2>2. CASE Check(t)
    BY <2>2 DEF Check
  <2>3. CASE Change(t)
    BY <2>3 DEF Change
  <2>4. CASE ChangeName(t)
    BY <2>4 DEF ChangeName
  <2>5. CASE Fetch(t)
    BY <2>5 DEF Fetch
  <2>6. CASE ReadOld(t)
    BY <2>6 DEF ReadOld
  <2>7. CASE Put(t)
    BY <2>7 DEF Put, Kept
  <2>8. CASE Import(t)
    <3>1. secrets' \in Nat
      BY <2>8 DEF Import
    <3>2. adminDraft' \in [Callers -> Credentials]
      BY <2>8 DEF Import
    <3> QED
      BY <2>8, <3>1, <3>2 DEF Import
  <2>9. CASE Write(t)
    BY <2>9 DEF Write
  <2>10. CASE Install(t)
    BY <2>10 DEF Install
  <2>11. CASE Answer(t)
    <3> PICK next \in {"none", "sign", "rename"} :
             Proceed(t, next) /\ Wanted(t, next) \in Credentials
      BY <2>11, AnswerGoesOn
    <3> Nothing \in Credentials
      BY DEF Nothing
    <3> QED
      BY DEF Proceed, Forget
  <2> QED
    BY <1>1, <2>1, <2>2, <2>3, <2>4, <2>5, <2>6, <2>7, <2>8, <2>9, <2>10, <2>11 DEF Handle
<1>2. CASE Login
  BY <1>2 DEF Login, Nothing
<1>3. ASSUME NEW t \in Signers, Sign(t)
      PROVE  AdminTypeOK'
  BY <1>3 DEF Sign, Nothing
<1>4. CASE Restart
  BY <1>4 DEF Restart, Nothing
<1>5. CASE UNCHANGED vars
  BY <1>5 DEF vars, authVars
<1>6. ASSUME NEW t \in Reloaders, Reload(t)
      PROVE  AdminTypeOK'
  <2>1. Nothing \in Credentials
    BY DEF Nothing
  <2>2. /\ admin' \in Credentials /\ alone' \in Editors \cup {None}
        /\ adminDraft' \in [Callers -> Credentials]
    BY <1>6, <2>1 DEF Reload, ReadFile, TakeUp, Reloaded
  <2> QED
    BY <1>6, <2>2 DEF Reload, ReadFile, TakeUp, Reloaded
<1> QED
  BY <1>1, <1>2, <1>3, <1>4, <1>5, <1>6 DEF Next

------------------------------------------------------------------------------
(* Until somebody imports a configuration there is one secret: in force,   *)
(* in the file, in whatever is about to be written or adopted, in what PUT *)
(* is going to keep, and in the tokens.                                    *)
OneSecret ==
    ~imported =>
        /\ admin.secret = 1 /\ adminFile.secret = 1
        /\ \A t \in Callers : pc[t] \in {"editing", "writing", "renamed", "read"}
                                => adminDraft[t].secret = 1
        /\ \A t \in Editors : task[t] = "put" => seen[t].secret = 1
        /\ session # None => session.key = 1

LEMMA OneSecretStep ==
    ASSUME AdminTypeOK, StoreTypeOK, OneSecret, [Next]_vars
    PROVE  OneSecret'
<1> USE CredentialsAssumption
    DEF AdminTypeOK, Credentials, StoreTypeOK, OneSecret, Callers, Goto, Signers, Do, WillWrite
<1>1. ASSUME NEW t \in Editors, Handle(t)
      PROVE  OneSecret'
  <2>1. CASE Edit(t)
    BY <2>1 DEF Edit, Begin
  <2>2. CASE Check(t)
    BY <2>2 DEF Check, storeVars
  <2>3. CASE Change(t)
    BY <2>3 DEF Change, Begin
  <2>4. CASE ChangeName(t)
    BY <2>4 DEF ChangeName, Begin
  <2>5. CASE Fetch(t)
    BY <2>5 DEF Fetch, Download
  <2>6. CASE ReadOld(t)
    BY <2>6 DEF ReadOld, storeVars
  <2>7. CASE Put(t)
    BY <2>7 DEF Put, BeginReplace, Kept
  <2>8. CASE Import(t)
    BY <2>8 DEF Import
  <2>9. CASE Write(t)
    BY <2>9 DEF Write, Rename
  <2>10. CASE Install(t)
    BY <2>10 DEF Install, Publish
  <2>11. CASE Answer(t)
    <3> PICK next \in {"none", "sign", "rename"} : Proceed(t, next)
      BY <2>11, AnswerGoesOn
    <3>1. pc' = [pc EXCEPT ![t] = "idle"]
      BY <2>11 DEF Answer, WriteFails, Return
    <3> QED
      BY <3>1 DEF Proceed, Forget
  <2> QED
    BY <1>1, <2>1, <2>2, <2>3, <2>4, <2>5, <2>6, <2>7, <2>8, <2>9, <2>10, <2>11 DEF Handle
<1>2. CASE Login
  BY <1>2 DEF Login, storeVars
<1>3. ASSUME NEW t \in Signers, Sign(t)
      PROVE  OneSecret'
  BY <1>3 DEF Sign, storeVars
<1>4. CASE Restart
  BY <1>4 DEF Restart, Crash
<1>5. CASE UNCHANGED vars
  BY <1>5 DEF vars, authVars, storeVars
<1>6. ASSUME NEW t \in Reloaders, Reload(t)
      PROVE  OneSecret'
  BY <1>6 DEF Reload, ReadFile, ReadDisk, TakeUp, Adopt, Reloaded, Return
<1> QED
  BY <1>1, <1>2, <1>3, <1>4, <1>5, <1>6 DEF Next

(* A token goes on to verify through other edits, password changes,        *)
(* configurations that are put back, Reloads, failed writes and restarts.  *)
THEOREM AdminSessionsStay == Spec => []SessionsStay
<1> DEFINE IInv == AdminTypeOK /\ OneSecret
<1>1. Init => IInv
  BY AdminTypeInit, CredentialsAssumption DEF Init, StoreInit, OneSecret, Callers, Signers, Nothing
<1>2. IInv /\ StoreInv /\ [Next]_vars => IInv'
  BY AdminTypeStep, OneSecretStep DEF StoreInv
<1>3. IInv => SessionsStay
  BY DEF OneSecret, SessionsStay, Verifies
<1>4. StoreInit => StoreInv
  BY StoreInitOK
<1>5. StoreInv /\ [StoreNext]_storeVars => StoreInv'
  BY StoreInvStep
<1> QED
  BY <1>1, <1>2, <1>3, <1>4, <1>5, AdminImplementsStore, PTL DEF Spec, StoreSpec

------------------------------------------------------------------------------
(* The password p is the one in force, and nobody is about to write        *)
(* another one.                                                            *)
Holds(p) ==
    /\ admin.pass = p /\ adminFile.pass = p
    /\ \A t \in Editors : InSection(t) => adminDraft[t].pass = p

(* How a change of the password that nobody interferes with goes on.       *)
Undisturbed ==
    alone # None =>
        /\ Pending \subseteq {alone}
        /\ task[alone] \notin {"put", "import"}
        /\ task[alone] = "change" =>
              /\ InSection(alone) => adminDraft[alone].pass = want[alone].pass
              /\ pc[alone] = "renamed" => adminFile.pass = want[alone].pass
              /\ pc[alone] = "notify" => Holds(want[alone].pass)
        /\ task[alone] \in {"rename", "sign"} => Holds(want[alone].pass)

(* How it is afterwards.                                                   *)
Acknowledged ==
    known # None =>
        /\ Holds(known)
        /\ \A t \in Pending : task[t] = "put" /\ seen[t].pass = known

PasswordInv == Undisturbed /\ Acknowledged

LEMMA PasswordStep ==
    ASSUME AdminTypeOK, StoreInv, PasswordInv, [Next]_vars
    PROVE  PasswordInv'
<1> USE CredentialsAssumption
    DEF AdminTypeOK, Credentials, StoreInv, StoreTypeOK, LockHeld, PasswordInv, Undisturbed, Acknowledged,
        Holds, InSection, Pending, Callers, Goto, Signers, Do, WillWrite
<1>1. ASSUME NEW t \in Editors, Handle(t)
      PROVE  PasswordInv'
  <2>1. CASE Edit(t)
    BY <2>1, FreeAssumption DEF Edit, Begin
  <2>2. CASE Check(t)
    BY <2>2 DEF Check, storeVars
  <2>3. CASE Change(t)
    BY <2>3, FreeAssumption DEF Change, Begin
  <2>4. CASE ChangeName(t)
    BY <2>4, FreeAssumption DEF ChangeName, Begin
  <2>5. CASE Fetch(t)
    BY <2>5 DEF Fetch, Download
  <2>6. CASE ReadOld(t)
    BY <2>6 DEF ReadOld, storeVars
  <2>7. CASE Put(t)
    BY <2>7 DEF Put, BeginReplace, Kept
  <2>8. CASE Import(t)
    BY <2>8 DEF Import
  <2>9. CASE Write(t)
    BY <2>9 DEF Write, Rename
  <2>10. CASE Install(t)
    BY <2>10 DEF Install, Publish
  <2>11. CASE Answer(t)
    <3> PICK next \in {"none", "sign", "rename"} :
             /\ Proceed(t, next)
             /\ next # "none" =>
                   /\ task[t] = "rename" \/ (task[t] = "change" /\ Return(t))
                   /\ Wanted(t, next).pass = want[t].pass
      BY <2>11, AnswerGoesOn
    <3>1. /\ pc' = [pc EXCEPT ![t] = "idle"]
          /\ next # "none" => task[t] = "rename" \/ (task[t] = "change" /\ pc[t] = "notify")
      BY <2>11 DEF Answer, WriteFails, Return
    <3>2. \A p : Holds(p) => Holds(p)'
      BY <3>1 DEF Proceed, Forget
    <3>3. Pending' \subseteq Pending
      BY DEF Proceed
    <3>6. \A u \in Editors \ {t} : task'[u] = task[u] /\ seen'[u] = seen[u]
      BY DEF Proceed, Forget
    <3>7. known # None => t \notin Pending'
      BY DEF Proceed
    <3>8. Acknowledged'
      BY <3>2, <3>3, <3>6, <3>7 DEF Proceed
    <3>4. CASE alone = t
      <4>1. task'[t] \in {"none", "sign", "rename"}
        BY DEF Proceed
      <4>2. task'[t] # "none" => Holds(want[t].pass) /\ want'[t].pass = want[t].pass
        BY <3>1, <3>4 DEF Proceed
      <4>3. alone' = alone /\ alone # None
        BY <3>4 DEF Proceed
      <4>4. Undisturbed'
        BY <3>2, <3>3, <3>4, <4>1, <4>2, <4>3
      <4> QED
        BY <4>4, <3>8
    <3>5. CASE alone # t
      <4>1. Undisturbed'
        BY <3>1, <3>2, <3>3, <3>5 DEF Proceed, Forget
      <4> QED
        BY <4>1, <3>8
    <3> QED
      BY <3>4, <3>5
  <2> QED
    BY <1>1, <2>1, <2>2, <2>3, <2>4, <2>5, <2>6, <2>7, <2>8, <2>9, <2>10, <2>11 DEF Handle
<1>2. CASE Login
  BY <1>2 DEF Login, storeVars
<1>3. ASSUME NEW t \in Signers, Sign(t)
      PROVE  PasswordInv'
  <2>1. \A p : Holds(p) => Holds(p)'
    BY <1>3 DEF Sign, storeVars
  <2>2. Pending' = Pending /\ t \notin Pending
    BY <1>3 DEF Sign
  <2>3. Undisturbed'
    BY <1>3, <2>1, <2>2 DEF Sign, storeVars
  <2>4. CASE alone = t
    <3>1. alone # None /\ task[t] = "sign" /\ t \in Editors
      BY <1>3, <2>4 DEF Sign
    <3>2. Holds(want[t].pass) /\ Pending = {}
      BY <2>2, <2>4, <3>1
    <3>3. known' = want[t].pass
      BY <1>3, <2>4 DEF Sign
    <3> QED
      BY <2>1, <2>2, <2>3, <3>2, <3>3
  <2>5. CASE alone # t
    BY <1>3, <2>1, <2>2, <2>3, <2>5 DEF Sign
  <2> QED
    BY <2>4, <2>5
<1>4. CASE Restart
  BY <1>4 DEF Restart, Crash
<1>5. CASE UNCHANGED vars
  BY <1>5 DEF vars, authVars, storeVars
<1>6. ASSUME NEW t \in Reloaders, Reload(t)
      PROVE  PasswordInv'
  <2>1. /\ \A u \in Editors : /\ InSection(u)' <=> InSection(u)
                             /\ pc'[u] = pc[u] /\ adminDraft'[u] = adminDraft[u]
        /\ UNCHANGED <<adminFile, seen, want, task>>
        /\ alone' \in {alone, None} /\ known' \in {known, None}
    BY <1>6, StoreAssumption DEF Reload, ReadFile, ReadDisk, TakeUp, Adopt, Reloaded, Return
  <2>2. CASE admin' = admin \/ admin' = adminFile
    BY <2>1, <2>2
  <2>3. CASE TakeUp(t) /\ Overtaken(t)
    BY <2>3 DEF TakeUp
  <2> QED
    BY <1>6, <2>2, <2>3 DEF Reload, ReadFile, TakeUp, Reloaded, Overtaken
<1> QED
  BY <1>1, <1>2, <1>3, <1>4, <1>5, <1>6 DEF Next

(* An acknowledged password stays the one in force, in memory and in the   *)
(* file, until it is changed, a configuration is imported, or a Reload     *)
(* adopts what the file had before.                                        *)
THEOREM AdminPasswordStays == Spec => []PasswordStays
<1> DEFINE IInv == AdminTypeOK /\ PasswordInv
<1>1. Init => IInv
  BY AdminTypeInit DEF Init, PasswordInv, Undisturbed, Acknowledged
<1>2. IInv /\ StoreInv /\ [Next]_vars => IInv'
  BY AdminTypeStep, PasswordStep
<1>3. IInv => PasswordStays
  BY DEF PasswordInv, Acknowledged, Holds, PasswordStays
<1>4. StoreInit => StoreInv
  BY StoreInitOK
<1>5. StoreInv /\ [StoreNext]_storeVars => StoreInv'
  BY StoreInvStep
<1> QED
  BY <1>1, <1>2, <1>3, <1>4, <1>5, AdminImplementsStore, PTL DEF Spec, StoreSpec
==============================================================================
