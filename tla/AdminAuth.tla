------------------------------ MODULE AdminAuth ------------------------------
(***************************************************************************)
(* The console's credentials (internal/admin/auth.go and the handlers of   *)
(* server.go that touch them) on top of the configuration store, of which  *)
(* they are the section `admin`: user name, hash of the password, and the  *)
(* secret that signs session tokens.  Every change is an Update of         *)
(* ConfigStore with its lock, its failing writes and its crashes, and the  *)
(* file watcher and POST /api/reload take the section from the file as it  *)
(* was some time ago.  What the handlers read before their Update may be   *)
(* old by then, and the password handler needs two Updates.                *)
(*                                                                         *)
(* Hashing is the identity on passwords (a hash verifies the password it   *)
(* was made of), a token is its user and the secret it was signed with.    *)
(* Expiry, which only ever ends a token, is left out.                      *)
(***************************************************************************)
EXTENDS ConfigStore

CONSTANTS
    Users, Passwords,   \* user names and passwords
    Dotted,             \* the user names with a "." in them
    Admin, Admin123,    \* what normalize fills in
    Browser,            \* somebody who logs in
    MaxSecrets,         \* bound of the model: secrets made
    None

ASSUME CredentialsAssumption ==
    /\ Dotted \subseteq Users
    /\ Admin \in Users \ Dotted /\ Admin123 \in Passwords
    /\ None \notin Users \cup Passwords \cup Callers \cup {Browser}
    /\ Browser \notin Callers
    /\ MaxSecrets \in Nat \ {0}

VARIABLES
    admin,          \* s.cfg.Admin
    adminFile,      \* the section in config.json
    adminDraft,     \* adminDraft[t]: in the configuration t is about to write, or
                    \*   has read from the file
    seen,           \* seen[t]: what the handler read before its Update
    want,           \* want[t]: new password and new name, or None, in the request
    task,           \* task[t]: what t does: "none", "edit", "fetched", "put",
                    \*   "import", "change", "rename", or "sign" a token
    secrets,        \* number of secrets made so far
    session,        \* a token that was handed out, or None
    imported,       \* whether a configuration was imported
    alone,          \* whoever is changing the password, and nobody else has touched
                    \*   the credentials since; or None
    known           \* the password acknowledged last, None when another one is on its way

authVars == <<admin, adminFile, adminDraft, seen, want, task, secrets, session,
              imported, alone, known>>
vars == <<storeVars, authVars>>

Signers == Editors \cup {Browser}

Nothing == [user |-> None, pass |-> None, secret |-> 0]

(* Load has filled in what was missing, and saved it (config.go:296).      *)
Init ==
    /\ StoreInit
    /\ admin = [user |-> Admin, pass |-> Admin123, secret |-> 1]
    /\ adminFile = admin
    /\ adminDraft = [t \in Callers |-> Nothing]
    /\ seen = [t \in Editors |-> Nothing]
    /\ want = [t \in Signers |-> Nothing]
    /\ task = [t \in Signers |-> "none"]
    /\ secrets = 1
    /\ session = None
    /\ imported = FALSE
    /\ alone = None
    /\ known = None

Do(t, what) == task' = [task EXCEPT ![t] = what]

(* Handlers that have read credentials and are yet to write them back.     *)
Pending == {t \in Editors : task[t] \in {"put", "import", "change", "rename"}}
------------------------------------------------------------------------------
(* Sessions *)

(* Auth.Login: name and password are those in force at the time.           *)
Login ==
    /\ task[Browser] = "none" /\ lock = Free
    /\ want' = [want EXCEPT ![Browser] = [Nothing EXCEPT !.user = admin.user]]
    /\ Do(Browser, "sign")
    /\ UNCHANGED <<storeVars, admin, adminFile, adminDraft, seen, secrets, session,
                   imported, alone, known>>

(* Auth.Token reads the secret for itself.  The request is acknowledged    *)
(* with the token; it is the one we follow from now on, or not.            *)
Sign(t) ==
    /\ task[t] = "sign" /\ lock = Free
    /\ session' \in {session, [user |-> want[t].user, key |-> admin.secret]}
    /\ known' = IF alone = t THEN want[t].pass ELSE known
    /\ want' = [want EXCEPT ![t] = Nothing]
    /\ Do(t, "none")
    /\ UNCHANGED <<storeVars, admin, adminFile, adminDraft, seen, secrets, imported, alone>>

(* Auth.Verify cuts the token at its first two dots.                       *)
Verifies(s) == s.user \notin Dotted /\ s.key = admin.secret
------------------------------------------------------------------------------
(* The handlers up to their Update *)

WillWrite(t, a) == adminDraft' = [adminDraft EXCEPT ![t] = a]

(* Routes, proxies, settings: any other edit.                              *)
Edit(t) ==
    /\ task[t] = "none"
    /\ Begin(t)
    /\ WillWrite(t, admin)
    /\ Do(t, "edit")
    /\ UNCHANGED <<admin, adminFile, seen, want, secrets, session, imported, alone, known>>

(* Auth.ChangePassword has verified the old password.                      *)
Check(t) ==
    /\ task[t] = "none" /\ pc[t] = "idle" /\ lock = Free
    /\ seen' = [seen EXCEPT ![t] = admin]
    /\ \E pass \in Passwords \ {admin.pass}, user \in Users \cup {None} :
          want' = [want EXCEPT ![t] = [user |-> user, pass |-> pass, secret |-> 0]]
    /\ alone' = IF Pending = {} THEN t ELSE None
    /\ known' = None
    /\ Do(t, "change")
    /\ UNCHANGED <<storeVars, admin, adminFile, adminDraft, secrets, session, imported>>

Change(t) ==
    /\ task[t] = "change"
    /\ Begin(t)
    /\ WillWrite(t, [admin EXCEPT !.user = seen[t].user, !.pass = want[t].pass])
    /\ UNCHANGED <<admin, adminFile, seen, want, task, secrets, session, imported, alone, known>>

(* handlePassword's second Update.                                         *)
ChangeName(t) ==
    /\ task[t] = "rename"
    /\ Begin(t)
    /\ WillWrite(t, [admin EXCEPT !.user = want[t].user])
    /\ UNCHANGED <<admin, adminFile, seen, want, task, secrets, session, imported, alone, known>>

(* A client fetches the configuration: to put back what GET /api/config    *)
(* gave it, in which of the credentials there is only the name, or to      *)
(* import an export, which has them all.                                   *)
Fetch(t) ==
    /\ task[t] = "none"
    /\ Download(t)
    /\ WillWrite(t, admin)
    /\ Do(t, "fetched")
    /\ UNCHANGED <<admin, adminFile, seen, want, secrets, session, imported, alone, known>>

(* PUT /api/config reads the credentials it is going to keep.              *)
ReadOld(t) ==
    /\ task[t] = "fetched" /\ lock = Free
    /\ seen' = [seen EXCEPT ![t] = admin]
    /\ alone' = None
    /\ Do(t, "put")
    /\ UNCHANGED <<storeVars, admin, adminFile, adminDraft, want, secrets, session, imported, known>>

Kept_hash_bug(a, old) ==       \* the hash, which GET does not give out, is not kept
    [user |-> a.user, pass |-> Admin123, secret |-> old.secret]

Kept_secret_bug(a, old) ==     \* normalize makes a new secret
    [user |-> a.user, pass |-> old.pass, secret |-> old.secret + 1]

(* GET /api/config gave the client neither hash nor secret.                *)
Kept(a, old) == [user |-> a.user, pass |-> old.pass, secret |-> old.secret]

Put(t) ==
    /\ task[t] = "put"
    /\ BeginReplace(t)
    /\ WillWrite(t, Kept(adminDraft[t], seen[t]))
    /\ UNCHANGED <<admin, adminFile, seen, want, task, secrets, session, imported, alone, known>>

(* POST /api/import takes the file as it is, an export with its secret and *)
(* hash or one made by hand without them, which normalize fills in.        *)
Import(t) ==
    /\ task[t] = "fetched"
    /\ BeginReplace(t)
    /\ \/ UNCHANGED <<adminDraft, secrets>>
       \/ /\ secrets < MaxSecrets
          /\ secrets' = secrets + 1
          /\ WillWrite(t, [user |-> Admin, pass |-> Admin123, secret |-> secrets + 1])
    /\ imported' = TRUE
    /\ alone' = None
    /\ known' = None
    /\ Do(t, "import")
    /\ UNCHANGED <<admin, adminFile, seen, want, session>>
------------------------------------------------------------------------------
(* Update and what comes after it *)

Write(t) ==
    /\ Rename(t)
    /\ adminFile' = adminDraft[t]
    /\ UNCHANGED <<admin, adminDraft, seen, want, task, secrets, session, imported, alone, known>>

Install(t) ==
    /\ Publish(t)
    /\ admin' = adminDraft[t]
    /\ UNCHANGED <<adminFile, adminDraft, seen, want, task, secrets, session, imported, alone, known>>

Forget(t) ==
    /\ adminDraft' = [adminDraft EXCEPT ![t] = Nothing]
    /\ seen' = [seen EXCEPT ![t] = Nothing]

(* What the handler does after its Update.  The error of the second one is *)
(* ignored.                                                                *)
AfterError(t) == IF task[t] = "rename" THEN "sign" ELSE "none"

AfterUpdate(t) ==
    IF task[t] = "change"
    THEN IF want[t].user = None THEN "sign" ELSE "rename"
    ELSE AfterError(t)

(* The token will be for the new name, or the old one.                     *)
Wanted(t, next) ==
    CASE next = "none" -> Nothing
      [] next = "sign" /\ want[t].user = None -> [want[t] EXCEPT !.user = seen[t].user]
      [] OTHER -> want[t]

Proceed(t, next) ==
    /\ Do(t, next)
    /\ want' = [want EXCEPT ![t] = Wanted(t, next)]
    /\ Forget(t)
    /\ UNCHANGED <<admin, adminFile, secrets, session, imported, alone, known>>

Answer(t) ==
    \/ WriteFails(t) /\ Proceed(t, AfterError(t))
    \/ Return(t) /\ Proceed(t, AfterUpdate(t))

------------------------------------------------------------------------------
(* Store.Reload, which the watcher and POST /api/reload call               *)

ReadFile(t) ==
    /\ pc[t] = "idle"
    /\ ReadDisk(t)
    /\ WillWrite(t, adminFile)
    /\ UNCHANGED <<admin, adminFile, seen, want, task, secrets, session, imported, alone, known>>

(* Credentials that the file no longer has come back to life; whoever      *)
(* changed them is not alone any more.                                     *)
Overtaken(t) == adminDraft[t] # adminFile

TakeUp(t) ==
    /\ Adopt(t)
    /\ admin' = adminDraft[t]
    /\ alone' = IF Overtaken(t) THEN None ELSE alone
    /\ known' = IF Overtaken(t) THEN None ELSE known
    /\ UNCHANGED <<adminFile, adminDraft, seen, want, task, secrets, session, imported>>

Reloaded(t) ==
    /\ Return(t)
    /\ WillWrite(t, Nothing)
    /\ UNCHANGED <<admin, adminFile, seen, want, task, secrets, session, imported, alone, known>>

Reload(t) == ReadFile(t) \/ TakeUp(t) \/ Reloaded(t)
------------------------------------------------------------------------------
(* The process dies and starts again; tokens stay with their clients.      *)
Restart ==
    /\ Crash
    /\ admin' = adminFile
    /\ adminDraft' = [t \in Callers |-> Nothing]
    /\ seen' = [t \in Editors |-> Nothing]
    /\ want' = [t \in Signers |-> Nothing]
    /\ task' = [t \in Signers |-> "none"]
    /\ alone' = None
    /\ UNCHANGED <<adminFile, secrets, session, imported, known>>
------------------------------------------------------------------------------
Handle(t) ==
    \/ Edit(t) \/ Check(t) \/ Change(t) \/ ChangeName(t)
    \/ Fetch(t) \/ ReadOld(t) \/ Put(t) \/ Import(t)
    \/ Write(t) \/ Install(t) \/ Answer(t)

Next ==
    \/ \E t \in Editors : Handle(t)
    \/ \E t \in Reloaders : Reload(t)
    \/ Login
    \/ \E t \in Signers : Sign(t)
    \/ Restart

Spec == Init /\ [][Next]_vars
------------------------------------------------------------------------------
(***************************************************************************)
(* config.go:296, sessions survive a restart.  They survive everything but *)
(* an import: whatever is edited, fetched and put back, however old the    *)
(* file was that a Reload adopts, and wherever the process dies, a token   *)
(* goes on to verify until it expires.                                     *)
(***************************************************************************)
SessionsStay ==
    session # None /\ ~imported /\ session.user \notin Dotted => Verifies(session)

(***************************************************************************)
(* A new password that was acknowledged, with no other change of the       *)
(* credentials under way, is the one in force, in memory and in the file,  *)
(* and it stays: other edits, failed writes, a crash, a Reload, and a      *)
(* configuration that was fetched before and is put back leave it alone.   *)
(* Only a Reload that had read the file before the change and adopts it    *)
(* after it undoes it (PasswordOutlivesReload).                            *)
(***************************************************************************)
PasswordStays ==
    known # None => admin.pass = known /\ adminFile.pass = known

(***************************************************************************)
(* server.go:792, "password updated", without that exception: when one     *)
(* administrator has changed the password and nobody else changes anything *)
(* a Reload does not bring the old one back.                               *)
(***************************************************************************)
PasswordOutlivesReload ==
    [][\A t \in Reloaders : known # None /\ TakeUp(t) => admin'.pass = known]_vars

(***************************************************************************)
(* A token that was just handed out verifies.  A user name with a dot in   *)
(* it cannot be read back from the token.                                  *)
(***************************************************************************)
FreshTokenVerifies ==
    [][session' # session => session'.user \notin Dotted /\ session'.key = admin.secret]_vars

(***************************************************************************)
(* server.go:792, "password updated": the credentials that were asked for  *)
(* work.  The error of the second Update is ignored, and the new name may  *)
(* never have been stored.                                                 *)
(***************************************************************************)
AcknowledgedNameInForce ==
    [][\A t \in Editors : task[t] = "sign" /\ task'[t] = "none" /\ alone = t /\ crashes' = crashes
          => admin.user = want[t].user]_vars

(***************************************************************************)
(* auth.go:82, who changes the password knows the one it replaces.  Two    *)
(* requests may both verify the same old password and be acknowledged.     *)
(***************************************************************************)
ChangesFollowEachOther ==
    [][\A t \in Editors : task[t] = "change" /\ pc[t] = "idle" /\ pc'[t] = "writing"
          => admin.pass = seen[t].pass]_vars
==============================================================================
