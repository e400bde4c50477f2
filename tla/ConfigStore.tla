----------------------------- MODULE ConfigStore -----------------------------
(***************************************************************************)
(* The configuration store (internal/config/config.go, type Store): one    *)
(* copy in memory, one file.  Update changes both under s.mu; Reload       *)
(* copies the file into memory, but reads it before it takes the lock.     *)
(*                                                                         *)
(* A configuration is the set of the edits made in it: adding, changing or *)
(* deleting a route, a proxy or a setting is one edit, applied to a clone  *)
(* of the copy in memory.  PUT /api/config and POST /api/import replace    *)
(* the whole configuration by one that a client made earlier.              *)
(***************************************************************************)
EXTENDS Integers, FiniteSets

CONSTANTS
    Editors,        \* admin requests that call Store.Update
    Replacers,      \* those of them that may replace the whole configuration
    Reloaders,      \* callers of Store.Reload
    Edits,          \* the edits that may be made, each at most once
    MaxCrashes      \* bound of the model: how often the process dies

ASSUME StoreAssumption ==
    /\ IsFiniteSet(Edits)
    /\ Replacers \subseteq Editors
    /\ Editors \cap Reloaders = {}
    /\ MaxCrashes \in Nat

Free == "free"

ASSUME FreeAssumption == Free \notin Editors \cup Reloaders

VARIABLES
    mem,            \* s.cfg
    file,           \* the content of config.json
    lock,           \* the holder of s.mu for writing, or Free
    pc,             \* pc[t]: where thread t is
    draft,          \* draft[t]: the clone, or what was read from the file
    edit,           \* edit[t]: the edit thread t is making
    issued,         \* the edits that were begun
    acked,          \* the edits whose Update returned without error
    crashes         \* how often the process has died

storeVars == <<mem, file, lock, pc, draft, edit, issued, acked, crashes>>

Callers == Editors \cup Reloaders

Configs == SUBSET Edits

StoreInit ==
    /\ mem = {} /\ file = {}
    /\ lock = Free
    /\ pc = [t \in Callers |-> "idle"]
    /\ draft = [t \in Callers |-> {}]
    /\ edit = [t \in Callers |-> {}]
    /\ issued = {} /\ acked = {}
    /\ crashes = 0

Goto(t, place) == pc' = [pc EXCEPT ![t] = place]

------------------------------------------------------------------------------
(* Store.Update *)

(* The thread will write the configuration base with one more edit. *)
Draft(t, base) ==
    \E x \in Edits \ issued :
       /\ draft' = [draft EXCEPT ![t] = base \cup {x}]
       /\ edit' = [edit EXCEPT ![t] = {x}]
       /\ issued' = issued \cup {x}

(* A name ending in _bug is a wrong variant of the definition after it,    *)
(* used by no specification: a property must notice when it takes its      *)
(* place.                                                                  *)
Begin_nolock_bug(t) ==         \* the clone is made before the lock is taken
    /\ pc[t] = "idle"
    /\ lock' = t
    /\ Draft(t, mem)
    /\ Goto(t, "writing")
    /\ UNCHANGED <<mem, file, acked, crashes>>

(* The lock is taken and the handler's change applied to a clone. *)
Begin(t) ==
    /\ pc[t] = "idle"
    /\ lock = Free
    /\ lock' = t
    /\ Draft(t, mem)
    /\ Goto(t, "writing")
    /\ UNCHANGED <<mem, file, acked, crashes>>

(* The client fetches the configuration it will send back, ... *)
Download(t) ==
    /\ pc[t] = "idle"
    /\ t \in Replacers
    /\ lock = Free
    /\ draft' = [draft EXCEPT ![t] = mem]
    /\ Goto(t, "editing")
    /\ UNCHANGED <<mem, file, lock, edit, issued, acked, crashes>>

(* ... and Update replaces the clone by it, however old it is. *)
BeginReplace(t) ==
    /\ pc[t] = "editing"
    /\ lock = Free
    /\ lock' = t
    /\ Draft(t, draft[t])
    /\ Goto(t, "writing")
    /\ UNCHANGED <<mem, file, acked, crashes>>

(* writeFile: the temporary file is complete and renamed over the old one. *)
Rename(t) ==
    /\ pc[t] = "writing"
    /\ file' = draft[t]
    /\ Goto(t, "renamed")
    /\ UNCHANGED <<mem, lock, draft, edit, issued, acked, crashes>>

WriteFails_memory_bug(t) ==    \* memory was changed before the file
    /\ pc[t] = "writing"
    /\ mem' = draft[t]
    /\ lock' = Free
    /\ draft' = [draft EXCEPT ![t] = {}]
    /\ edit' = [edit EXCEPT ![t] = {}]
    /\ Goto(t, "idle")
    /\ UNCHANGED <<file, issued, acked, crashes>>

WriteFails_late_bug(t) ==      \* the error comes after everything is changed
    /\ pc[t] = "writing"
    /\ file' = draft[t]
    /\ mem' = draft[t]
    /\ lock' = Free
    /\ draft' = [draft EXCEPT ![t] = {}]
    /\ edit' = [edit EXCEPT ![t] = {}]
    /\ Goto(t, "idle")
    /\ UNCHANGED <<issued, acked, crashes>>

(* writeFile fails before the rename, and Update returns its error. *)
WriteFails(t) ==
    /\ pc[t] = "writing"
    /\ lock' = Free
    /\ draft' = [draft EXCEPT ![t] = {}]
    /\ edit' = [edit EXCEPT ![t] = {}]
    /\ Goto(t, "idle")
    /\ UNCHANGED <<mem, file, issued, acked, crashes>>

Publish(t) ==
    /\ pc[t] = "renamed"
    /\ mem' = draft[t]
    /\ lock' = Free
    /\ acked' = acked \cup edit[t]
    /\ edit' = [edit EXCEPT ![t] = {}]
    /\ Goto(t, "notify")
    /\ UNCHANGED <<file, draft, issued, crashes>>
------------------------------------------------------------------------------
(* Store.Reload *)

ReadDisk(t) ==
    /\ draft' = [draft EXCEPT ![t] = file]
    /\ Goto(t, "read")
    /\ UNCHANGED <<mem, file, lock, edit, issued, acked, crashes>>

Adopt(t) ==
    /\ pc[t] = "read"
    /\ lock = Free
    /\ mem' = draft[t]
    /\ Goto(t, "notify")
    /\ UNCHANGED <<file, lock, draft, edit, issued, acked, crashes>>
------------------------------------------------------------------------------
(* The caller is done with the store; HotReload says what it does next. *)
Return(t) ==
    /\ pc[t] = "notify"
    /\ draft' = [draft EXCEPT ![t] = {}]
    /\ Goto(t, "idle")
    /\ UNCHANGED <<mem, file, lock, edit, issued, acked, crashes>>

Crash_defaults_bug ==          \* Load writes the defaults over the file
    /\ crashes < MaxCrashes
    /\ crashes' = crashes + 1
    /\ mem' = {} /\ file' = {}
    /\ lock' = Free
    /\ pc' = [t \in Callers |-> "idle"]
    /\ draft' = [t \in Callers |-> {}]
    /\ edit' = [t \in Callers |-> {}]
    /\ UNCHANGED <<issued, acked>>

(* The process dies at any point and is started again: Load reads the file. *)
Crash ==
    /\ crashes < MaxCrashes
    /\ crashes' = crashes + 1
    /\ mem' = file
    /\ lock' = Free
    /\ pc' = [t \in Callers |-> "idle"]
    /\ draft' = [t \in Callers |-> {}]
    /\ edit' = [t \in Callers |-> {}]
    /\ UNCHANGED <<file, issued, acked>>

Update(t) ==
    \/ Begin(t) \/ Download(t) \/ BeginReplace(t)
    \/ Rename(t) \/ WriteFails(t) \/ Publish(t)

StoreNext ==
    \/ \E t \in Editors : Update(t)
    \/ \E t \in Reloaders : (pc[t] = "idle" /\ ReadDisk(t)) \/ Adopt(t)
    \/ \E t \in Callers : Return(t)
    \/ Crash

StoreSpec == StoreInit /\ [][StoreNext]_storeVars
------------------------------------------------------------------------------
StoreTypeOK ==
    /\ mem \in Configs /\ file \in Configs
    /\ lock \in Editors \cup {Free}
    /\ pc \in [Callers -> {"idle", "editing", "writing", "renamed", "read", "notify"}]
    /\ draft \in [Callers -> Configs]
    /\ edit \in [Callers -> Configs]
    /\ issued \in Configs /\ acked \in Configs
    /\ crashes \in 0..MaxCrashes

(* A whole configuration takes the place of the old one. *)
Replaced == \E t \in Replacers : pc[t] = "writing" /\ pc'[t] = "renamed"

(* A Reload puts into memory what the file was before it was last written. *)
StaleReload ==
    \E t \in Reloaders : pc[t] = "read" /\ pc'[t] = "notify" /\ draft[t] # file

(* What was acknowledged and is where Update has put it.                   *)
Safe == acked \cap mem \cap file

(***************************************************************************)
(* "Update atomically replaces the configuration and persists it"          *)
(* (config.go:314): an edit that is acknowledged is in memory and in the   *)
(* file by then.  It stays in the file until a client replaces the whole   *)
(* configuration, and in memory until a Reload that has read the file      *)
(* before the edit was in it, and has waited for the lock since, adopts    *)
(* what it read: whatever other administrators and Reloads do, whichever   *)
(* writes fail, and whenever the process dies.  Once a stale Reload has    *)
(* dropped it from memory, the next Update takes it out of the file too.   *)
(***************************************************************************)
Durable ==
    [][/\ acked' \ acked \subseteq mem' \cap file'
       /\ Safe \subseteq file' \/ Replaced
       /\ Safe \subseteq mem' \/ StaleReload]_storeVars

(***************************************************************************)
(* Memory is what the file says, but while an Update holds the lock        *)
(* between the rename and the assignment; then the file is what that       *)
(* Update is about to put into memory.                                     *)
(***************************************************************************)
MemoryIsFile ==
    \/ mem = file
    \/ \E t \in Editors : lock = t /\ pc[t] = "renamed" /\ file = draft[t]

(***************************************************************************)
(* Nothing drives memory and file apart but a Reload that adopts what the  *)
(* file no longer says: not an Update that fails or comes between another, *)
(* nor a Reload that is up to date, nor a crash; and the next Update, or a *)
(* restart, brings them together again.                                    *)
(***************************************************************************)
OnlyStaleReloadParts ==
    [][/\ MemoryIsFile => MemoryIsFile' \/ StaleReload
       /\ (\E t \in Editors : pc[t] = "renamed" /\ pc'[t] = "notify") => MemoryIsFile'
       /\ crashes' # crashes => MemoryIsFile']_storeVars

(***************************************************************************)
(* An edit whose write failed leaves no trace: without a crash between the *)
(* rename and the answer, what is in force was acknowledged, even when a   *)
(* Reload has taken it from the file before it was.                        *)
(***************************************************************************)
NothingUnasked ==
    crashes = 0 => mem \subseteq acked

(***************************************************************************)
(* What Durable would say if Reload read the file under the lock: an edit  *)
(* that was acknowledged stays in the file.                                *)
(***************************************************************************)
DurableInFile ==
    [][acked \cap file \subseteq file' \/ Replaced]_storeVars
==============================================================================
