-------------------------- MODULE RateLimiterProofs --------------------------
(***************************************************************************)
(* The token bucket law for every rate, burst, number of clients and of    *)
(* concurrent calls, and for every order in which calls that have read the *)
(* clock come to take their token.                                         *)
(*                                                                         *)
(* The inductive invariant is a ledger: for every admission, what is left  *)
(* in the bucket and what was taken since is covered by a full bucket and  *)
(* by what has flowed in since.                                            *)
(***************************************************************************)
EXTENDS RateLimiter, TLAPS

LimiterTypeOK ==
    /\ clock \in Nat \ {0}
    /\ slot \in [Keys -> Buckets \cup {NoBucket}]
    /\ tokens \in [Buckets -> Int]
    /\ last \in [Buckets -> Nat]
    /\ pc \in [Requests -> {"idle", "clocked", "holding"}]
    /\ client \in [Requests -> Clients \cup {Shared}]
    /\ stamp \in [Requests -> Nat]
    /\ held \in [Requests -> Buckets \cup {NoBucket}]
    /\ grants \in [Buckets -> Seq(Nat)]

(* Who holds a bucket has a client and has read the clock. *)
CallsOK ==
    \A r \in Requests :
        /\ pc[r] # "idle" => stamp[r] > 0 /\ client[r] \in Clients
        /\ pc[r] = "holding" => held[r] \in Buckets

(* The account of bucket b if it held level units at time now. *)
Covered(b, level, now) ==
    \A i \in 1..Len(grants[b]) :
        level + (Len(grants[b]) - i + 1) * Cost <= Full + Rate * (now - grants[b][i])

Ledger(b) ==
    /\ last[b] = 0 => grants[b] = <<>>
    /\ tokens[b] <= Full
    /\ Covered(b, tokens[b], last[b])

LimiterInv ==
    LimiterTypeOK /\ CallsOK /\ (\A b \in Buckets : Ledger(b)) /\ WindowBound
------------------------------------------------------------------------------
LEMMA FullType == Full \in Int /\ Full >= Cost /\ Cost \in Int /\ Cost > 0
<1>1. Burst \in Int /\ Cost \in Int /\ Burst >= 1 /\ Cost >= 1
  BY RateAssumption
<1>2. \A x, y \in Int : x >= 1 /\ y >= 1 => x * y \in Int /\ x * y >= y
  OBVIOUS
<1> QED
  BY <1>1, <1>2 DEF Full

(* Later, what has flowed in covers what the level has risen by. *)
LEMMA Carry ==
    ASSUME NEW rate \in Int, NEW full \in Int, NEW spent \in Int,
           NEW level \in Int, NEW risen \in Int,
           NEW from \in Int, NEW old \in Int, NEW now \in Int,
           level + spent <= full + rate * (old - from),
           risen <= level + rate * (now - old)
    PROVE  risen + spent <= full + rate * (now - from)
<1>1. rate * (now - from) = rate * (now - old) + rate * (old - from)
  OBVIOUS
<1>2. rate * (now - from) \in Int /\ rate * (now - old) \in Int
      /\ rate * (old - from) \in Int
  OBVIOUS
<1> QED
  BY <1>1, <1>2

(* One more admission is one more Cost. *)
LEMMA OneMore ==
    ASSUME NEW n \in Int, NEW cost \in Int
    PROVE  (n + 1) * cost = n * cost + cost /\ n * cost \in Int
  OBVIOUS
------------------------------------------------------------------------------
(* What take finds in a bucket: at most a full one, and covered at the     *)
(* time to which it moves the bucket.                                      *)
LEMMA LevelCovered ==
    ASSUME LimiterInv, NEW b \in Buckets, NEW t \in Nat, t > 0
    PROVE  /\ Level(b, t) \in Int
           /\ Level(b, t) <= Full
           /\ Mark(b, t) \in Nat /\ Mark(b, t) > 0
           /\ Covered(b, Level(b, t), Mark(b, t))
<1> DEFINE level == Level(b, t)
           now == Mark(b, t)
<1>1. tokens[b] \in Int /\ last[b] \in Nat /\ Rate \in Int /\ grants[b] \in Seq(Nat)
  BY RateAssumption DEF LimiterInv, LimiterTypeOK
<1>2. now \in Nat /\ now > 0
  BY <1>1 DEF Mark
<1>3. tokens[b] <= Full /\ Covered(b, tokens[b], last[b])
      /\ (last[b] = 0 => grants[b] = <<>>)
  BY DEF LimiterInv, Ledger
<1>4. (t - last[b]) * Rate \in Int /\ (t - last[b]) * Rate = Rate * (t - last[b])
  BY <1>1
<1>5. level \in Int /\ level <= Full
  BY <1>1, <1>3, <1>4, FullType DEF Level
<1>6. CASE last[b] = 0
  <2>1. 1..Len(grants[b]) = {}
    BY <1>3, <1>6
  <2> QED
    BY <2>1, <1>2, <1>5 DEF Covered
<1>7. CASE last[b] # 0
  <2>1. level <= tokens[b] + Rate * (now - last[b])
    <3>1. CASE t <= last[b]
      <4>1. level = tokens[b] /\ now = last[b]
        BY <3>1, <1>1, <1>7 DEF Level, Mark
      <4>2. Rate * (now - last[b]) = 0
        BY <4>1, <1>1
      <4> QED
        BY <4>1, <4>2, <1>1
    <3>2. CASE t > last[b]
      <4>1. now = t
        BY <3>2 DEF Mark
      <4>2. level <= tokens[b] + (t - last[b]) * Rate
        BY <3>2, <1>1, <1>4, <1>7, FullType DEF Level
      <4> QED
        BY <4>1, <4>2, <1>4
    <3> QED
      BY <3>1, <3>2, <1>1
  <2>2. ASSUME NEW i \in 1..Len(grants[b])
        PROVE  level + (Len(grants[b]) - i + 1) * Cost <= Full + Rate * (now - grants[b][i])
    <3>1. grants[b][i] \in Int /\ Len(grants[b]) - i + 1 \in Int
      BY <1>1
    <3>2. (Len(grants[b]) - i + 1) * Cost \in Int
      BY <3>1, OneMore, FullType
    <3>3. tokens[b] + (Len(grants[b]) - i + 1) * Cost
             <= Full + Rate * (last[b] - grants[b][i])
      BY <1>3 DEF Covered
    <3> HIDE DEF level, now
    <3>4. last[b] \in Int /\ now \in Int
      BY <1>1, <1>2
    <3> QED
      BY <3>1, <3>2, <3>3, <3>4, <2>1, <1>1, <1>5, FullType, Carry
  <2> QED
    BY <2>2, <1>2, <1>5 DEF Covered
<1> QED
  BY <1>6, <1>7
------------------------------------------------------------------------------
LEMMA LimiterInitOK == Init => LimiterInv
<1> SUFFICES ASSUME Init PROVE LimiterInv
  OBVIOUS
<1>1. LimiterTypeOK
  BY RateAssumption DEF Init, LimiterTypeOK, Buckets, NoBucket
<1>2. CallsOK
  BY DEF Init, CallsOK
<1>3. \A b \in Buckets : grants[b] = <<>> /\ tokens[b] = 0 /\ last[b] = 0
  BY DEF Init
<1>4. \A b \in Buckets : 1..Len(grants[b]) = {}
  BY <1>3
<1>5. \A b \in Buckets : Ledger(b)
  BY <1>3, <1>4, FullType DEF Ledger, Covered
<1>6. WindowBound
  BY <1>4 DEF WindowBound
<1> QED
  BY <1>1, <1>2, <1>5, <1>6 DEF LimiterInv

(* The steps that touch no bucket leave the ledgers alone. *)
LEMMA SameLedgers ==
    ASSUME LimiterInv, UNCHANGED <<tokens, last, grants>>
    PROVE  (\A b \in Buckets : Ledger(b)') /\ WindowBound'
  BY DEF LimiterInv, Ledger, Covered, WindowBound

(* A new bucket has an empty ledger. *)
LEMMA CreateInv ==
    ASSUME LimiterInv, NEW r \in Requests, Create(r)
    PROVE  LimiterInv'
<1>1. PICK b \in Buckets :
         /\ slot' = [slot EXCEPT ![Key(client[r])] = b]
         /\ held' = [held EXCEPT ![r] = b]
         /\ tokens' = [tokens EXCEPT ![b] = 0]
         /\ last' = [last EXCEPT ![b] = 0]
         /\ grants' = [grants EXCEPT ![b] = <<>>]
  BY DEF Create
<1>2. LimiterTypeOK'
  <2>1. <<>> \in Seq(Nat)
    OBVIOUS
  <2>2. tokens' \in [Buckets -> Int] /\ last' \in [Buckets -> Nat]
    BY <1>1 DEF LimiterInv, LimiterTypeOK
  <2>3. grants' \in [Buckets -> Seq(Nat)]
    BY <1>1, <2>1 DEF LimiterInv, LimiterTypeOK
  <2>4. /\ slot' \in [Keys -> Buckets \cup {NoBucket}]
        /\ held' \in [Requests -> Buckets \cup {NoBucket}]
    BY <1>1 DEF LimiterInv, LimiterTypeOK
  <2> QED
    BY <2>2, <2>3, <2>4 DEF Create, LimiterInv, LimiterTypeOK
<1>3. CallsOK'
  BY <1>1 DEF Create, LimiterInv, LimiterTypeOK, CallsOK
<1>4. grants'[b] = <<>> /\ tokens'[b] = 0 /\ last'[b] = 0
  BY <1>1 DEF LimiterInv, LimiterTypeOK
<1>5. \A a \in Buckets : a # b =>
         grants'[a] = grants[a] /\ tokens'[a] = tokens[a] /\ last'[a] = last[a]
  BY <1>1 DEF LimiterInv, LimiterTypeOK
<1>6. 1..Len(grants'[b]) = {}
  BY <1>4
<1>7. ASSUME NEW a \in Buckets
      PROVE  Ledger(a)'
  <2>1. CASE a = b
    <3>1. tokens'[a] <= Full
      BY <2>1, <1>4, FullType
    <3> QED
      BY <2>1, <3>1, <1>4, <1>6 DEF Ledger, Covered
  <2>2. CASE a # b
    BY <2>2, <1>5 DEF LimiterInv, Ledger, Covered
  <2> QED
    BY <2>1, <2>2
<1>8. WindowBound'
  BY <1>5, <1>6 DEF LimiterInv, WindowBound
<1> QED
  BY <1>2, <1>3, <1>7, <1>8 DEF LimiterInv

(* A refused call moves its bucket to the caller's time. *)
LEMMA DenyInv ==
    ASSUME LimiterInv, NEW r \in Requests, Deny(r)
    PROVE  LimiterInv'
<1> DEFINE b == held[r]
           level == Level(b, stamp[r])
           now == Mark(b, stamp[r])
<1>1. b \in Buckets /\ stamp[r] \in Nat /\ stamp[r] > 0
  BY DEF Deny, LimiterInv, LimiterTypeOK, CallsOK
<1>2. /\ level \in Int /\ level <= Full
      /\ now \in Nat /\ now > 0
      /\ Covered(b, level, now)
  BY <1>1, LevelCovered
<1>3. /\ tokens' = [tokens EXCEPT ![b] = level]
      /\ last' = [last EXCEPT ![b] = now]
      /\ grants' = grants
  BY DEF Deny, Settle, historyVars
<1> HIDE DEF level, now
<1>4. LimiterTypeOK'
  BY <1>1, <1>2, <1>3 DEF Deny, Settle, LimiterInv, LimiterTypeOK
<1>5. CallsOK'
  BY DEF Deny, Settle, LimiterInv, LimiterTypeOK, CallsOK
<1>6. ASSUME NEW a \in Buckets
      PROVE  Ledger(a)'
  <2>1. CASE a = b
    <3>1. tokens'[a] = level /\ last'[a] = now
      BY <2>1, <1>1, <1>3 DEF LimiterInv, LimiterTypeOK
    <3> QED
      BY <3>1, <2>1, <1>2, <1>3 DEF Ledger, Covered
  <2>2. CASE a # b
    <3>1. tokens'[a] = tokens[a] /\ last'[a] = last[a]
      BY <2>2, <1>1, <1>3 DEF LimiterInv, LimiterTypeOK
    <3> QED
      BY <3>1, <1>3 DEF LimiterInv, Ledger, Covered
  <2> QED
    BY <2>1, <2>2
<1>7. WindowBound'
  BY <1>3 DEF LimiterInv, WindowBound
<1> QED
  BY <1>4, <1>5, <1>6, <1>7 DEF LimiterInv

(* An admitted call takes Cost units, which its level holds. *)
LEMMA AdmitInv ==
    ASSUME LimiterInv, NEW r \in Requests, Admit(r)
    PROVE  LimiterInv'
<1> DEFINE b == held[r]
           level == Level(b, stamp[r])
           now == Mark(b, stamp[r])
           n == Len(grants[b])
<1>1. b \in Buckets /\ stamp[r] \in Nat /\ stamp[r] > 0
  BY DEF Admit, LimiterInv, LimiterTypeOK, CallsOK
<1>2. /\ level \in Int /\ level <= Full
      /\ now \in Nat /\ now > 0
      /\ Covered(b, level, now)
  BY <1>1, LevelCovered
<1>3. /\ tokens' = [tokens EXCEPT ![b] = level - Cost]
      /\ last' = [last EXCEPT ![b] = now]
      /\ grants' = [grants EXCEPT ![b] = Append(@, now)]
      /\ level >= Cost
  BY DEF Admit, Settle
<1>4. grants[b] \in Seq(Nat) /\ n \in Nat
  BY <1>1 DEF LimiterInv, LimiterTypeOK
<1> HIDE DEF level, now
<1>5. LimiterTypeOK'
  BY <1>1, <1>2, <1>3, <1>4, FullType DEF Admit, Settle, LimiterInv, LimiterTypeOK
<1>6. CallsOK'
  BY DEF Admit, Settle, LimiterInv, LimiterTypeOK, CallsOK
<1>7. /\ grants'[b] = Append(grants[b], now)
      /\ tokens'[b] = level - Cost /\ last'[b] = now
  BY <1>1, <1>3 DEF LimiterInv, LimiterTypeOK
<1>8. /\ Len(grants'[b]) = n + 1
      /\ grants'[b][n + 1] = now
      /\ \A i \in 1..n : grants'[b][i] = grants[b][i]
  BY <1>2, <1>4, <1>7
<1>9. \A a \in Buckets : a # b =>
         grants'[a] = grants[a] /\ tokens'[a] = tokens[a] /\ last'[a] = last[a]
  BY <1>1, <1>3 DEF LimiterInv, LimiterTypeOK
<1>10. ASSUME NEW i \in 1..n
       PROVE  /\ level - Cost + (n + 1 - i + 1) * Cost <= Full + Rate * (now - grants[b][i])
              /\ (n + 1 - i + 1) * Cost <= Full + Rate * (now - grants[b][i])
  <2>1. level + (n - i + 1) * Cost <= Full + Rate * (now - grants[b][i])
    BY <1>2 DEF Covered
  <2>2. /\ (n - i + 1) * Cost \in Int
        /\ (n + 1 - i + 1) * Cost = (n - i + 1) * Cost + Cost
    <3>1. n - i + 1 \in Int /\ n + 1 - i + 1 = (n - i + 1) + 1
      BY <1>4
    <3> QED
      BY <3>1, OneMore, FullType
  <2>3. Rate * (now - grants[b][i]) \in Int
    <3>1. grants[b][i] \in Int /\ now \in Int /\ Rate \in Int
      BY <1>2, <1>4, RateAssumption
    <3> QED
      BY <3>1
  <2> QED
    BY <2>1, <2>2, <2>3, <1>2, <1>3, FullType
<1>11. /\ (n + 1 - (n + 1) + 1) * Cost = Cost
       /\ Rate * (now - now) = 0
  <2>1. n + 1 - (n + 1) + 1 = 1 /\ now - now = 0
    BY <1>2, <1>4
  <2>2. 1 * Cost = Cost /\ Rate * 0 = 0
    BY FullType, RateAssumption
  <2> QED
    BY <2>1, <2>2
<1>12. ASSUME NEW a \in Buckets
       PROVE  Ledger(a)'
  <2>1. CASE a = b
    <3>1. now # 0 /\ level - Cost <= Full
      BY <1>2, FullType
    <3>2. ASSUME NEW i \in 1..n + 1
          PROVE  level - Cost + (n + 1 - i + 1) * Cost
                    <= Full + Rate * (now - grants'[b][i])
      <4>1. CASE i \in 1..n
        BY <4>1, <1>8, <1>10
      <4>2. CASE i = n + 1
        BY <4>2, <1>2, <1>8, <1>11, FullType
      <4> QED
        BY <4>1, <4>2, <1>4
    <3> QED
      BY <2>1, <3>1, <3>2, <1>7, <1>8 DEF Ledger, Covered
  <2>2. CASE a # b
    BY <2>2, <1>9 DEF LimiterInv, Ledger, Covered
  <2> QED
    BY <2>1, <2>2
<1>13. WindowBound'
  <2> SUFFICES ASSUME NEW a \in Buckets,
                      NEW i \in 1..Len(grants'[a]), NEW j \in 1..Len(grants'[a]), i <= j
               PROVE  (j - i + 1) * Cost <= Full + Rate * (grants'[a][j] - grants'[a][i])
    BY DEF WindowBound
  <2>1. CASE a # b
    BY <2>1, <1>9 DEF LimiterInv, WindowBound
  <2>2. CASE a = b /\ j \in 1..n
    <3>1. i \in 1..n
      BY <2>2, <1>4, <1>8
    <3> QED
      BY <3>1, <2>2, <1>8 DEF LimiterInv, WindowBound
  <2>3. CASE a = b /\ j = n + 1 /\ i \in 1..n
    BY <2>3, <1>8, <1>10
  <2>4. CASE a = b /\ j = n + 1 /\ i = n + 1
    BY <2>4, <1>8, <1>11, FullType
  <2> QED
    BY <2>1, <2>2, <2>3, <2>4, <1>4, <1>8
<1> QED
  BY <1>5, <1>6, <1>12, <1>13 DEF LimiterInv

LEMMA LimiterStep ==
    ASSUME LimiterInv, [Next]_vars
    PROVE  LimiterInv'
<1>1. CASE Tick
  <2>1. LimiterTypeOK' /\ CallsOK'
    BY <1>1 DEF Tick, LimiterInv, LimiterTypeOK, CallsOK, callVars, historyVars
  <2> QED
    BY <1>1, <2>1, SameLedgers DEF Tick, LimiterInv, historyVars
<1>2. ASSUME NEW r \in Requests, Arrive(r)
      PROVE  LimiterInv'
  <2>1. LimiterTypeOK' /\ CallsOK'
    BY <1>2 DEF Arrive, LimiterInv, LimiterTypeOK, CallsOK, historyVars
  <2> QED
    BY <1>2, <2>1, SameLedgers DEF Arrive, LimiterInv, historyVars
<1>3. ASSUME NEW r \in Requests, Find(r)
      PROVE  LimiterInv'
  <2>1. Key(client[r]) \in Keys
    BY <1>3 DEF Find, LimiterInv, CallsOK, Key, Keys
  <2>2. slot[Key(client[r])] \in Buckets
    BY <1>3, <2>1 DEF Find, LimiterInv, LimiterTypeOK
  <2>3. LimiterTypeOK' /\ CallsOK'
    BY <1>3, <2>1, <2>2 DEF Find, LimiterInv, LimiterTypeOK, CallsOK, historyVars
  <2> QED
    BY <1>3, <2>3, SameLedgers DEF Find, LimiterInv, historyVars
<1>4. CASE BeginSweep \/ Judge
  <2>1. LimiterTypeOK' /\ CallsOK'
    BY <1>4 DEF BeginSweep, Judge, LimiterInv, LimiterTypeOK, CallsOK, callVars, historyVars
  <2> QED
    BY <1>4, <2>1, SameLedgers DEF BeginSweep, Judge, LimiterInv, historyVars
<1>5. CASE Evict
  <2>1. LimiterTypeOK' /\ CallsOK'
    BY <1>5 DEF Evict, LimiterInv, LimiterTypeOK, CallsOK, callVars, historyVars
  <2> QED
    BY <1>5, <2>1, SameLedgers DEF Evict, LimiterInv, historyVars
<1>6. CASE UNCHANGED vars
  <2>1. LimiterTypeOK' /\ CallsOK'
    BY <1>6 DEF vars, LimiterInv, LimiterTypeOK, CallsOK, callVars, historyVars
  <2> QED
    BY <1>6, <2>1, SameLedgers DEF vars, LimiterInv, historyVars
<1> QED
  BY <1>1, <1>2, <1>3, <1>4, <1>5, <1>6, CreateInv, AdmitInv, DenyInv DEF Next

(* In any stretch of time a bucket admits at most Burst requests and what  *)
(* has flowed in meanwhile.                                                *)
THEOREM LimiterWindowBound == Spec => []WindowBound
<1>1. Init => LimiterInv
  BY LimiterInitOK
<1>2. LimiterInv /\ [Next]_vars => LimiterInv'
  BY LimiterStep
<1>3. LimiterInv => WindowBound
  BY DEF LimiterInv
<1> QED
  BY <1>1, <1>2, <1>3, PTL DEF Spec
------------------------------------------------------------------------------
(* The second half: nobody is denied without cause.  Bucket b belongs to   *)
(* the client it is looked up for, evicted or not.                         *)
Owner(b, k) ==
    \/ slot[k] = b
    \/ \E r \in Requests : held[r] = b /\ Key(client[r]) = k

OneOwner ==
    \A b \in Buckets : \A k, l \in Keys : Owner(b, k) /\ Owner(b, l) => k = l

HeldWhileHolding == \A r \in Requests : held[r] # NoBucket => pc[r] = "holding"

HistoryTypeOK == admitted \in [Keys -> Nat] /\ latest \in [Keys -> Nat]

(* With level units at time now a bucket of k has given away only what k   *)
(* was admitted for, and has filled up since then.                         *)
Funded(level, now, k) ==
    /\ level >= 0
    /\ level + admitted[k] * Cost >= Full
    /\ level >= Full \/ level >= Rate * (now - latest[k])

Deposits ==
    \A b \in Buckets : \A k \in Keys :
        last[b] # 0 /\ Owner(b, k) => Funded(tokens[b], last[b], k)

CreditInv == OneOwner /\ HeldWhileHolding /\ HistoryTypeOK /\ Deposits

(* Time that passes fills a bucket, at most as fast as Rate. *)
LEMMA Inflow ==
    ASSUME NEW x \in Int, NEW y \in Int, x <= y
    PROVE  Rate * x \in Int /\ Rate * y \in Int /\ Rate * x <= Rate * y
<1>1. \A r \in Nat, a, b \in Int : a <= b => r * a <= r * b
  OBVIOUS
<1> QED
  BY <1>1, RateAssumption

(* Nobody becomes the owner of a bucket that is in use, so what is true of *)
(* the owners of the buckets before stays true. *)
LEMMA OwnersLeave ==
    ASSUME CreditInv,
           \A b \in Buckets : \A k \in Keys : Owner(b, k)' => Owner(b, k)
    PROVE  OneOwner'
  BY DEF CreditInv, OneOwner

LEMMA SameDeposits ==
    ASSUME CreditInv, UNCHANGED <<tokens, last, admitted, latest>>,
           \A b \in Buckets : \A k \in Keys : Owner(b, k)' => Owner(b, k)
    PROVE  OneOwner' /\ HistoryTypeOK' /\ Deposits'
<1>1. OneOwner'
  BY OwnersLeave
<1>2. HistoryTypeOK'
  BY DEF CreditInv, HistoryTypeOK
<1>3. Deposits'
  BY DEF CreditInv, Deposits, Funded
<1> QED
  BY <1>1, <1>2, <1>3

(* What take finds in the bucket of k.                                     *)
LEMMA LevelFunded ==
    ASSUME LimiterInv, CreditInv, NEW b \in Buckets, NEW k \in Keys, Owner(b, k),
           NEW t \in Nat, t > 0
    PROVE  Funded(Level(b, t), Mark(b, t), k)
<1>1. /\ tokens[b] \in Int /\ last[b] \in Nat /\ Full \in Int /\ Full > 0
      /\ admitted[k] * Cost \in Int /\ admitted[k] * Cost >= 0
      /\ latest[k] \in Nat /\ Rate \in Int
  <2>1. admitted[k] \in Nat /\ Cost \in Nat
    BY RateAssumption DEF CreditInv, HistoryTypeOK
  <2>2. \A x, y \in Nat : x * y \in Nat
    OBVIOUS
  <2>3. admitted[k] * Cost \in Nat
    BY <2>1, <2>2
  <2> QED
    BY <2>3, FullType, RateAssumption
    DEF LimiterInv, LimiterTypeOK, CreditInv, HistoryTypeOK
<1>2. CASE last[b] = 0
  <2>1. Level(b, t) = Full
    BY <1>2 DEF Level
  <2> QED
    BY <2>1, <1>1 DEF Funded
<1>3. CASE last[b] # 0 /\ t <= last[b]
  <2>1. Level(b, t) = tokens[b] /\ Mark(b, t) = last[b]
    BY <1>1, <1>3 DEF Level, Mark
  <2> QED
    BY <2>1, <1>3 DEF CreditInv, Deposits
<1>4. CASE last[b] # 0 /\ t > last[b]
  <2> DEFINE risen == tokens[b] + (t - last[b]) * Rate
  <2>1. Level(b, t) = (IF risen > Full THEN Full ELSE risen) /\ Mark(b, t) = t
    BY <1>1, <1>4 DEF Level, Mark
  <2>2. /\ (t - last[b]) * Rate = Rate * (t - last[b])
        /\ Rate * (t - last[b]) >= 0 /\ Rate * (t - last[b]) \in Int
    <3>1. Rate * 0 = 0 /\ 0 <= t - last[b]
      BY <1>1, <1>4
    <3> QED
      BY <3>1, <1>1, Inflow
  <2>3. Funded(tokens[b], last[b], k)
    BY <1>4 DEF CreditInv, Deposits
  <2>4. risen \in Int /\ risen >= tokens[b]
    BY <2>2, <1>1
  <2>5. risen >= Full \/ risen >= Rate * (t - latest[k])
    <3>1. Rate * (t - latest[k]) = Rate * (t - last[b]) + Rate * (last[b] - latest[k])
      BY <1>1
    <3>2. Rate * (last[b] - latest[k]) \in Int
      BY <1>1
    <3> QED
      BY <3>1, <3>2, <2>2, <2>3, <2>4, <1>1 DEF Funded
  <2>6. risen >= 0 /\ risen + admitted[k] * Cost >= Full
    BY <2>3, <2>4, <1>1 DEF Funded
  <2> HIDE DEF risen
  <2> QED
    BY <2>1, <2>4, <2>5, <2>6, <1>1 DEF Funded
<1> QED
  BY <1>1, <1>2, <1>3, <1>4

(* Who takes from a bucket is its owner's.                                 *)
LEMMA CallerOwns ==
    ASSUME LimiterInv, NEW r \in Requests, pc[r] = "holding"
    PROVE  /\ held[r] \in Buckets /\ Key(client[r]) \in Keys
           /\ Owner(held[r], Key(client[r]))
           /\ stamp[r] \in Nat /\ stamp[r] > 0
  BY DEF LimiterInv, LimiterTypeOK, CallsOK, Owner, Key, Keys

LEMMA SettleOwners ==
    ASSUME LimiterInv, NEW r \in Requests, NEW level, Settle(r, level), slot' = slot
    PROVE  \A b \in Buckets : \A k \in Keys : Owner(b, k)' => Owner(b, k)
  BY DEF Settle, Owner, LimiterInv, LimiterTypeOK, Buckets, NoBucket, Key

LEMMA CreditInit == Init => CreditInv
<1> SUFFICES ASSUME Init PROVE CreditInv
  OBVIOUS
<1>1. OneOwner
  BY RateAssumption DEF Init, OneOwner, Owner, Buckets, NoBucket, Keys
<1>2. HeldWhileHolding /\ HistoryTypeOK
  BY DEF Init, HeldWhileHolding, HistoryTypeOK
<1>3. Deposits
  BY DEF Init, Deposits
<1> QED
  BY <1>1, <1>2, <1>3 DEF CreditInv

(* A new bucket has no owner but the one it is made for.                   *)
LEMMA CreateCredit ==
    ASSUME LimiterInv, CreditInv, NEW r \in Requests, Create(r)
    PROVE  CreditInv'
<1> DEFINE key == Key(client[r])
<1>1. PICK b \in Buckets :
         /\ Unused(b)
         /\ slot' = [slot EXCEPT ![key] = b]
         /\ held' = [held EXCEPT ![r] = b]
         /\ tokens' = [tokens EXCEPT ![b] = 0]
         /\ last' = [last EXCEPT ![b] = 0]
  BY DEF Create
<1>2. UNCHANGED <<client, admitted, latest>> /\ pc' = [pc EXCEPT ![r] = "holding"]
  BY DEF Create
<1>3. key \in Keys
  BY DEF Create, LimiterInv, CallsOK, Key, Keys
<1>4. \A k \in Keys : Owner(b, k)' => k = key
  BY <1>1, <1>2 DEF Owner, Unused, LimiterInv, LimiterTypeOK, Key
<1>5. \A a \in Buckets : \A k \in Keys : a # b /\ Owner(a, k)' => Owner(a, k)
  BY <1>1, <1>2 DEF Owner, LimiterInv, LimiterTypeOK, Key
<1>6. OneOwner'
  BY <1>4, <1>5 DEF CreditInv, OneOwner
<1>7. HeldWhileHolding' /\ HistoryTypeOK'
  BY <1>1, <1>2 DEF CreditInv, HeldWhileHolding, HistoryTypeOK, LimiterInv, LimiterTypeOK
<1>8. last'[b] = 0
  BY <1>1 DEF LimiterInv, LimiterTypeOK
<1>9. \A a \in Buckets : a # b => tokens'[a] = tokens[a] /\ last'[a] = last[a]
  BY <1>1 DEF LimiterInv, LimiterTypeOK
<1>10. Deposits'
  BY <1>2, <1>5, <1>8, <1>9 DEF CreditInv, Deposits, Funded
<1> QED
  BY <1>6, <1>7, <1>10 DEF CreditInv

LEMMA DenyCredit ==
    ASSUME LimiterInv, CreditInv, NEW r \in Requests, Deny(r)
    PROVE  CreditInv'
<1> DEFINE b == held[r]
           level == Level(b, stamp[r])
           now == Mark(b, stamp[r])
<1>1. b \in Buckets /\ Owner(b, Key(client[r])) /\ stamp[r] \in Nat /\ stamp[r] > 0
  BY CallerOwns DEF Deny
<1>2. /\ Settle(r, level) /\ slot' = slot /\ UNCHANGED <<admitted, latest>>
      /\ tokens' = [tokens EXCEPT ![b] = level] /\ last' = [last EXCEPT ![b] = now]
  BY DEF Deny, Settle, historyVars
<1>3. \A a \in Buckets : \A k \in Keys : Owner(a, k)' => Owner(a, k)
  BY <1>2, SettleOwners
<1>4. \A k \in Keys : Owner(b, k) => Funded(level, now, k)
  BY <1>1, LevelFunded
<1> HIDE DEF level, now
<1>5. HeldWhileHolding' /\ HistoryTypeOK'
  BY <1>2 DEF Settle, CreditInv, HeldWhileHolding, HistoryTypeOK, LimiterInv, LimiterTypeOK
<1>6. tokens'[b] = level /\ last'[b] = now
  BY <1>1, <1>2 DEF LimiterInv, LimiterTypeOK
<1>7. \A a \in Buckets : a # b => tokens'[a] = tokens[a] /\ last'[a] = last[a]
  BY <1>2 DEF LimiterInv, LimiterTypeOK
<1>8. Deposits'
  BY <1>2, <1>3, <1>4, <1>6, <1>7 DEF CreditInv, Deposits, Funded
<1> QED
  BY <1>3, <1>5, <1>8, OwnersLeave DEF CreditInv

(* What is taken from the bucket is put down to its owner, and to nobody   *)
(* else. *)
LEMMA AdmitCredit ==
    ASSUME LimiterInv, CreditInv, NEW r \in Requests, Admit(r)
    PROVE  CreditInv'
<1> DEFINE b == held[r]
           key == Key(client[r])
           level == Level(b, stamp[r])
           now == Mark(b, stamp[r])
<1>1. /\ b \in Buckets /\ key \in Keys /\ Owner(b, key)
      /\ stamp[r] \in Nat /\ stamp[r] > 0
  BY CallerOwns DEF Admit
<1>2. /\ Settle(r, level - Cost) /\ slot' = slot /\ level >= Cost
      /\ tokens' = [tokens EXCEPT ![b] = level - Cost]
      /\ last' = [last EXCEPT ![b] = now]
      /\ admitted' = [admitted EXCEPT ![key] = @ + 1]
      /\ latest' = [latest EXCEPT ![key] = IF now > @ THEN now ELSE @]
  BY DEF Admit, Settle
<1>3. \A a \in Buckets : \A k \in Keys : Owner(a, k)' => Owner(a, k)
  BY <1>2, SettleOwners
<1>4. Funded(level, now, key) /\ level \in Int /\ now \in Nat
  BY <1>1, LevelFunded, LevelCovered
<1> HIDE DEF level, now
<1>5. HeldWhileHolding'
  BY <1>2 DEF Settle, CreditInv, HeldWhileHolding, LimiterInv, LimiterTypeOK
<1>6. HistoryTypeOK'
  BY <1>1, <1>2, <1>4 DEF CreditInv, HistoryTypeOK
<1>7. tokens'[b] = level - Cost /\ last'[b] = now
  BY <1>1, <1>2 DEF LimiterInv, LimiterTypeOK
<1>8. \A a \in Buckets : a # b => tokens'[a] = tokens[a] /\ last'[a] = last[a]
  BY <1>2 DEF LimiterInv, LimiterTypeOK
<1>9. /\ admitted'[key] = admitted[key] + 1
      /\ latest'[key] = IF now > latest[key] THEN now ELSE latest[key]
  BY <1>1, <1>2 DEF CreditInv, HistoryTypeOK
<1>10. \A k \in Keys : k # key => admitted'[k] = admitted[k] /\ latest'[k] = latest[k]
  BY <1>2 DEF CreditInv, HistoryTypeOK
<1>11. /\ admitted[key] \in Int /\ latest[key] \in Nat
       /\ admitted[key] * Cost \in Int
       /\ (admitted[key] + 1) * Cost = admitted[key] * Cost + Cost
  <2>1. admitted[key] \in Int /\ latest[key] \in Nat
    BY <1>1 DEF CreditInv, HistoryTypeOK
  <2> QED
    BY <2>1, OneMore, FullType
<1>12. ASSUME NEW a \in Buckets, NEW k \in Keys, last'[a] # 0, Owner(a, k)'
       PROVE  Funded(tokens[a], last[a], k)'
  <2>1. CASE a = b
    <3>1. k = key
      BY <2>1, <1>1, <1>3, <1>12 DEF CreditInv, OneOwner
    <3>2. tokens'[a] >= 0 /\ tokens'[a] + admitted'[k] * Cost >= Full
      BY <3>1, <2>1, <1>2, <1>4, <1>7, <1>9, <1>11, FullType DEF Funded
    <3>3. Rate * (now - latest'[key]) <= 0
      <4>1. now - latest'[key] \in Int /\ now - latest'[key] <= 0
        BY <1>4, <1>9, <1>11
      <4>2. Rate * 0 = 0
        BY RateAssumption
      <4> QED
        BY <4>1, <4>2, Inflow
    <3>4. Rate * (now - latest'[key]) \in Int /\ tokens'[a] \in Int
      <4>1. now - latest'[key] \in Int
        BY <1>4, <1>9, <1>11
      <4> QED
        BY <4>1, <2>1, <1>4, <1>7, FullType, Inflow
    <3> QED
      BY <3>1, <3>2, <3>3, <3>4, <2>1, <1>7 DEF Funded
  <2>2. CASE a # b /\ k # key
    BY <2>2, <1>3, <1>8, <1>10, <1>12 DEF CreditInv, Deposits, Funded
  <2>3. CASE a # b /\ k = key
    <3>1. Funded(tokens[a], last[a], k) /\ tokens'[a] = tokens[a] /\ last'[a] = last[a]
      BY <2>3, <1>3, <1>8, <1>12 DEF CreditInv, Deposits
    <3>2. tokens[a] \in Int /\ last[a] \in Nat
      BY DEF LimiterInv, LimiterTypeOK
    <3>3. tokens[a] + (admitted[k] + 1) * Cost >= Full
      BY <3>1, <3>2, <2>3, <1>11, FullType DEF Funded
    <3>4. /\ Rate * (last[a] - latest'[key]) <= Rate * (last[a] - latest[key])
          /\ Rate * (last[a] - latest'[key]) \in Int
          /\ Rate * (last[a] - latest[key]) \in Int
      <4>1. /\ last[a] - latest'[key] \in Int /\ last[a] - latest[key] \in Int
            /\ last[a] - latest'[key] <= last[a] - latest[key]
        BY <3>2, <1>4, <1>9, <1>11
      <4> QED
        BY <4>1, Inflow
    <3> QED
      BY <3>1, <3>2, <3>3, <3>4, <2>3, <1>9, FullType DEF Funded
  <2> QED
    BY <2>1, <2>2, <2>3
<1>13. Deposits'
  BY <1>12 DEF Deposits
<1> QED
  BY <1>3, <1>5, <1>6, <1>13, OwnersLeave DEF CreditInv

LEMMA CreditStep ==
    ASSUME LimiterInv, CreditInv, [Next]_vars
    PROVE  CreditInv'
<1> USE DEF CreditInv, HeldWhileHolding
<1>1. CASE Tick \/ BeginSweep \/ Judge \/ UNCHANGED vars
  <2>1. UNCHANGED <<slot, tokens, last, callVars, historyVars>>
    BY <1>1 DEF Tick, BeginSweep, Judge, vars
  <2>2. \A b \in Buckets : \A k \in Keys : Owner(b, k)' => Owner(b, k)
    BY <2>1 DEF Owner, callVars, Key
  <2> QED
    BY <2>1, <2>2, SameDeposits DEF callVars, historyVars
<1>2. ASSUME NEW r \in Requests, Arrive(r)
      PROVE  CreditInv'
  <2>1. \A b \in Buckets : \A k \in Keys : Owner(b, k)' => Owner(b, k)
    BY <1>2 DEF Arrive, Owner, LimiterInv, LimiterTypeOK, Buckets, NoBucket, Key
  <2>2. HeldWhileHolding'
    BY <1>2 DEF Arrive, LimiterInv, LimiterTypeOK
  <2> QED
    BY <1>2, <2>1, <2>2, SameDeposits DEF Arrive, historyVars
<1>3. ASSUME NEW r \in Requests, Find(r)
      PROVE  CreditInv'
  <2>1. \A b \in Buckets : \A k \in Keys : Owner(b, k)' => Owner(b, k)
    BY <1>3 DEF Find, Owner, LimiterInv, LimiterTypeOK, Key
  <2>2. HeldWhileHolding'
    BY <1>3 DEF Find, LimiterInv, LimiterTypeOK
  <2> QED
    BY <1>3, <2>1, <2>2, SameDeposits DEF Find, historyVars
<1>4. CASE Evict
  <2>1. \A b \in Buckets : \A k \in Keys : Owner(b, k)' => Owner(b, k)
    BY <1>4 DEF Evict, callVars, Owner, Buckets, NoBucket, Key
  <2> QED
    BY <1>4, <2>1, SameDeposits DEF Evict, callVars, historyVars
<1> QED
  BY <1>1, <1>2, <1>3, <1>4, CreateCredit, AdmitCredit, DenyCredit DEF Next

LEMMA CreditSpec == Spec => [](LimiterInv /\ CreditInv)
<1>1. Init => LimiterInv /\ CreditInv
  BY LimiterInitOK, CreditInit
<1>2. LimiterInv /\ CreditInv /\ [Next]_vars => (LimiterInv /\ CreditInv)'
  BY LimiterStep, CreditStep
<1> QED
  BY <1>1, <1>2, PTL DEF Spec

(* Who is denied found less than a token in a bucket of its own.           *)
LEMMA DeniedLevel ==
    ASSUME LimiterInv, CreditInv, NEW r \in Requests, Deny(r)
    PROVE  \E level \in Int, now \in Nat :
              /\ level < Cost /\ now >= stamp[r]
              /\ Funded(level, now, Key(client[r]))
<1>1. /\ held[r] \in Buckets /\ Key(client[r]) \in Keys
      /\ Owner(held[r], Key(client[r])) /\ stamp[r] \in Nat /\ stamp[r] > 0
  BY CallerOwns DEF Deny
<1>2. /\ Level(held[r], stamp[r]) \in Int /\ Mark(held[r], stamp[r]) \in Nat
      /\ Funded(Level(held[r], stamp[r]), Mark(held[r], stamp[r]), Key(client[r]))
  BY <1>1, LevelCovered, LevelFunded
<1>3. Mark(held[r], stamp[r]) >= stamp[r]
  BY <1>1 DEF Mark, LimiterInv, LimiterTypeOK
<1> QED
  BY <1>2, <1>3 DEF Deny

(* One token's time after its last admission a client is not denied,       *)
(* whatever others do and however often it was denied in between.          *)
THEOREM LimiterNoEarlyDenial == Spec => NoEarlyDenial
<1>1. ASSUME LimiterInv, CreditInv, NEW r \in Requests, Deny(r)
      PROVE  (stamp[r] - latest[Key(client[r])]) * Rate < Cost
  <2> DEFINE before == latest[Key(client[r])]
  <2>1. PICK level \in Int, now \in Nat :
          level < Cost /\ now >= stamp[r] /\ Funded(level, now, Key(client[r]))
    BY <1>1, DeniedLevel
  <2>2. stamp[r] \in Nat /\ before \in Nat /\ Rate \in Int
    BY <1>1, CallerOwns, RateAssumption DEF Deny, CreditInv, HistoryTypeOK
  <2>3. level >= Rate * (now - before)
    BY <2>1, FullType DEF Funded
  <2>4. /\ Rate * (stamp[r] - before) <= Rate * (now - before)
        /\ Rate * (stamp[r] - before) \in Int /\ Rate * (now - before) \in Int
    <3>1. /\ stamp[r] - before \in Int /\ now - before \in Int
          /\ stamp[r] - before <= now - before
      BY <2>1, <2>2
    <3> QED
      BY <3>1, Inflow
  <2>5. (stamp[r] - before) * Rate = Rate * (stamp[r] - before)
    BY <2>2
  <2> QED
    BY <2>1, <2>3, <2>4, <2>5, FullType
<1>2. LimiterInv /\ CreditInv
        => [\A r \in Requests : Deny(r) => (stamp[r] - latest[Key(client[r])]) * Rate < Cost]_vars
  BY <1>1
<1> QED
  BY <1>2, CreditSpec, PTL DEF NoEarlyDenial

(* With a bucket per address, a client is denied only after a whole burst  *)
(* of its own, buckets that were collected and made again included.        *)
THEOREM LimiterDenialEarned == Spec => DenialEarned
<1>1. ASSUME LimiterInv, CreditInv, NEW r \in Requests, Deny(r)
      PROVE  admitted[Key(client[r])] >= Burst
  <2> DEFINE n == admitted[Key(client[r])]
  <2>1. PICK level \in Int, now \in Nat :
          level < Cost /\ Funded(level, now, Key(client[r]))
    BY <1>1, DeniedLevel
  <2>2. n \in Nat
    BY <1>1, CallerOwns DEF Deny, CreditInv, HistoryTypeOK
  <2>3. level + n * Cost >= Burst * Cost
    BY <2>1 DEF Funded, Full
  <2>4. \A c, m, b \in Nat, l \in Int : l < c /\ l + m * c >= b * c => m >= b
    <3> SUFFICES ASSUME NEW c \in Nat, NEW m \in Nat, NEW b \in Nat, NEW l \in Int,
                        l < c, m + 1 <= b, l + m * c >= b * c
                 PROVE  FALSE
      OBVIOUS
    <3>1. (m + 1) * c <= b * c /\ (m + 1) * c = m * c + c /\ m * c \in Int /\ b * c \in Int
      OBVIOUS
    <3> QED
      BY <3>1
  <2> QED
    BY <2>1, <2>2, <2>3, <2>4, RateAssumption
<1>2. LimiterInv /\ CreditInv
        => [\A r \in Requests : Deny(r) => admitted[Key(client[r])] >= Burst]_vars
  BY <1>1
<1> QED
  BY <1>2, CreditSpec, PTL DEF DenialEarned
==============================================================================
