----------------------------- MODULE RateLimiter -----------------------------
(***************************************************************************)
(* The rate limiter of a route (internal/proxy/middleware.go, Limiter and  *)
(* bucket): a token bucket for all clients or for each client address, and *)
(* the goroutine that collects the buckets of idle clients.                *)
(*                                                                         *)
(* Allow reads the clock, then looks the bucket up under l.mu, then takes  *)
(* a token under b.mu: three steps with anything in between.  The collector *)
(* holds l.mu for a whole sweep but b.mu only while it reads b.last.       *)
(*                                                                         *)
(* Levels are integers: one request costs Cost units and Rate units flow   *)
(* in per tick, so rps is Rate / Cost per tick.  (The code has a float64.) *)
(***************************************************************************)
EXTENDS Integers, Sequences

CONSTANTS
    Clients,        \* client addresses
    Requests,       \* slots for concurrent calls of Allow
    PerIP,          \* Rate.PerIP
    Shared,         \* the key of the bucket for all clients, Limiter.global
    Rate,           \* units that flow into a bucket per tick
    Cost,           \* units a request takes
    Burst,          \* Limiter.burst, requests a full bucket admits
    IdleLimit,      \* ticks without a request after which a bucket may go
    NBuckets,       \* bound of the model: bucket objects alive at a time
    MaxTime         \* bound of the model: the clock stops there

ASSUME RateAssumption ==
    /\ PerIP \in BOOLEAN
    /\ Rate \in Nat /\ Cost \in Nat \ {0} /\ Burst \in Nat \ {0}
    /\ IdleLimit \in Nat
    /\ NBuckets \in Nat \ {0} /\ MaxTime \in Nat \ {0}
    /\ Shared \notin Clients

Keys == IF PerIP THEN Clients ELSE {Shared}
Key(c) == IF PerIP THEN c ELSE Shared

Buckets == 1..NBuckets
NoBucket == 0

Full == Burst * Cost

VARIABLES
    clock,          \* time.Now(); 0 is the zero time.Time
    slot,           \* slot[k]: the bucket of key k (l.ips, or l.global)
    tokens,         \* tokens[b]: bucket.tokens
    last,           \* last[b]: bucket.last
    pc,             \* pc[r]: "idle", "clocked" or "holding"
    client,         \* client[r]: who sent request r
    stamp,          \* stamp[r]: the time r has read
    held,           \* held[r]: the bucket r has looked up
    sweep,          \* the keys the collector has still to visit
    judged,         \* the key it has found idle, or none
    cut,            \* the collector's limit for b.last
    swept,          \* when the collector last started
    grants,         \* history: grants[b], the times of b's admissions
    admitted,       \* history: admitted[k], how many requests of k
    latest          \* history: latest[k], the time of k's last admission

callVars == <<pc, client, stamp, held>>
gcVars == <<sweep, judged, cut, swept>>
historyVars == <<grants, admitted, latest>>
vars == <<clock, slot, tokens, last, callVars, gcVars, historyVars>>

NoKey == {}

(* NewLimiter *)
Init ==
    /\ clock = 1
    /\ slot = [k \in Keys |-> IF PerIP THEN NoBucket ELSE 1]
    /\ tokens = [b \in Buckets |-> 0]
    /\ last = [b \in Buckets |-> 0]
    /\ pc = [r \in Requests |-> "idle"]
    /\ client = [r \in Requests |-> Shared]
    /\ stamp = [r \in Requests |-> 0]
    /\ held = [r \in Requests |-> NoBucket]
    /\ sweep = {} /\ judged = NoKey /\ cut = 0 /\ swept = 0
    /\ grants = [b \in Buckets |-> <<>>]
    /\ admitted = [k \in Keys |-> 0]
    /\ latest = [k \in Keys |-> 0]

Tick ==
    /\ clock < MaxTime
    /\ clock' = clock + 1
    /\ UNCHANGED <<slot, tokens, last, callVars, gcVars, historyVars>>
------------------------------------------------------------------------------
(* bucket.take, as a function of the bucket and the caller's time *)

Level_floor_bug(b, t) ==       \* parts of a token are thrown away
    IF last[b] = 0 THEN Full
    ELSE IF t <= last[b] THEN tokens[b]
    ELSE LET level == tokens[b] + (((t - last[b]) * Rate) \div Cost) * Cost
         IN  IF level > Full THEN Full ELSE level

Level_first_bug(b, t) ==       \* a new bucket holds one token
    IF last[b] = 0 THEN Cost
    ELSE IF t <= last[b] THEN tokens[b]
    ELSE LET level == tokens[b] + (t - last[b]) * Rate
         IN  IF level > Full THEN Full ELSE level

(* A bucket is full at its first request; a caller whose time is older     *)
(* than the bucket's adds nothing.                                         *)
Level(b, t) ==
    IF last[b] = 0 THEN Full
    ELSE IF t <= last[b] THEN tokens[b]
    ELSE LET level == tokens[b] + (t - last[b]) * Rate
         IN  IF level > Full THEN Full ELSE level

Mark_back_bug(b, t) == t       \* time may flow backwards

Mark(b, t) == IF t > last[b] THEN t ELSE last[b]
------------------------------------------------------------------------------
(* Limiter.Allow *)

Arrive(r) ==
    /\ pc[r] = "idle"
    /\ \E c \in Clients : client' = [client EXCEPT ![r] = c]
    /\ stamp' = [stamp EXCEPT ![r] = clock]
    /\ pc' = [pc EXCEPT ![r] = "clocked"]
    /\ UNCHANGED <<clock, slot, tokens, last, held, gcVars, historyVars>>

(* l.mu is free unless the collector is at work. *)
Find(r) ==
    /\ pc[r] = "clocked"
    /\ sweep = {} /\ judged = NoKey
    /\ slot[Key(client[r])] # NoBucket
    /\ held' = [held EXCEPT ![r] = slot[Key(client[r])]]
    /\ pc' = [pc EXCEPT ![r] = "holding"]
    /\ UNCHANGED <<clock, slot, tokens, last, client, stamp, gcVars, historyVars>>

Unused(b) ==
    /\ \A k \in Keys : slot[k] # b
    /\ \A r \in Requests : held[r] # b

(* &bucket{}: empty, and its time is zero until the first take. *)
Create(r) ==
    /\ pc[r] = "clocked"
    /\ sweep = {} /\ judged = NoKey
    /\ slot[Key(client[r])] = NoBucket
    /\ \E b \in Buckets :
          /\ Unused(b) /\ \A a \in 1..b - 1 : ~Unused(a)
          /\ slot' = [slot EXCEPT ![Key(client[r])] = b]
          /\ held' = [held EXCEPT ![r] = b]
          /\ tokens' = [tokens EXCEPT ![b] = 0]
          /\ last' = [last EXCEPT ![b] = 0]
          /\ grants' = [grants EXCEPT ![b] = <<>>]
    /\ pc' = [pc EXCEPT ![r] = "holding"]
    /\ UNCHANGED <<clock, client, stamp, gcVars, admitted, latest>>

(* The bucket moves to the caller's time, and the call is over. *)
Settle(r, level) ==
    /\ tokens' = [tokens EXCEPT ![held[r]] = level]
    /\ last' = [last EXCEPT ![held[r]] = Mark(held[r], stamp[r])]
    /\ pc' = [pc EXCEPT ![r] = "idle"]
    /\ client' = [client EXCEPT ![r] = Shared]
    /\ stamp' = [stamp EXCEPT ![r] = 0]
    /\ held' = [held EXCEPT ![r] = NoBucket]

Admit(r) ==
    LET b == held[r]
        level == Level(b, stamp[r])
        now == Mark(b, stamp[r])
        k == Key(client[r])
    IN  /\ pc[r] = "holding"
        /\ level >= Cost
        /\ Settle(r, level - Cost)
        /\ grants' = [grants EXCEPT ![b] = Append(@, now)]
        /\ admitted' = [admitted EXCEPT ![k] = @ + 1]
        /\ latest' = [latest EXCEPT ![k] = IF now > @ THEN now ELSE @]
        /\ UNCHANGED <<clock, slot, gcVars>>

Deny(r) ==
    LET level == Level(held[r], stamp[r])
    IN  /\ pc[r] = "holding"
        /\ level < Cost
        /\ Settle(r, level)
        /\ UNCHANGED <<clock, slot, gcVars, historyVars>>
------------------------------------------------------------------------------
(* Limiter.gc *)

(* The ticker fires, at most once at a time of the model. *)
BeginSweep ==
    /\ PerIP
    /\ sweep = {} /\ judged = NoKey
    /\ swept < clock
    /\ swept' = clock
    /\ cut' = clock - IdleLimit
    /\ sweep' = {k \in Keys : slot[k] # NoBucket}
    /\ UNCHANGED <<clock, slot, tokens, last, callVars, judged, historyVars>>

(* The zero time of a bucket nobody has taken from is before any limit. *)
Idle(b) == last[b] = 0 \/ last[b] < cut

Judge ==
    /\ judged = NoKey
    /\ \E k \in sweep :
          /\ sweep' = sweep \ {k}
          /\ judged' = IF Idle(slot[k]) THEN {k} ELSE NoKey
    /\ UNCHANGED <<clock, slot, tokens, last, callVars, cut, swept, historyVars>>

Evict ==
    /\ judged # NoKey
    /\ slot' = [k \in Keys |-> IF k \in judged THEN NoBucket ELSE slot[k]]
    /\ judged' = NoKey
    /\ UNCHANGED <<clock, tokens, last, callVars, sweep, cut, swept, historyVars>>
------------------------------------------------------------------------------
Next ==
    \/ Tick
    \/ \E r \in Requests : Arrive(r) \/ Find(r) \/ Create(r) \/ Admit(r) \/ Deny(r)
    \/ BeginSweep \/ Judge \/ Evict

Spec == Init /\ [][Next]_vars
------------------------------------------------------------------------------
(***************************************************************************)
(* The law of the token bucket: in any stretch of time a bucket admits at  *)
(* most Burst requests and what flowed in meanwhile, in whatever order its *)
(* callers come to take and however old the times are they bring.          *)
(***************************************************************************)
WindowBound ==
    \A b \in Buckets : \A i, j \in 1..Len(grants[b]) :
        i <= j =>
            (j - i + 1) * Cost <= Full + Rate * (grants[b][j] - grants[b][i])

(***************************************************************************)
(* Waiting pays: a request is turned away only if its client (or, with one *)
(* bucket for all, some client) was admitted less than the time of one     *)
(* token before.  Being turned away does not put the client back.          *)
(***************************************************************************)
NoEarlyDenial ==
    [][\A r \in Requests :
          Deny(r) => (stamp[r] - latest[Key(client[r])]) * Rate < Cost]_vars

(***************************************************************************)
(* Clients do not pay for each other: with a bucket for each address, a    *)
(* client is turned away only after a burst of its own was admitted.       *)
(***************************************************************************)
DenialEarned ==
    [][\A r \in Requests :
          Deny(r) => admitted[Key(client[r])] >= Burst]_vars

(***************************************************************************)
(* README, "token bucket, per IP": a client gets no more than one bucket   *)
(* allows.  But the collector takes a new bucket for an idle one, and then *)
(* one client has two.                                                     *)
(***************************************************************************)
ClientBound ==
    \A k \in Keys : admitted[k] * Cost <= Full + Rate * (clock - 1)
==============================================================================
