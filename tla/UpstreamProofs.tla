--------------------------- MODULE UpstreamProofs ----------------------------
(***************************************************************************)
(* Theorems about the pool, for any number of nodes and requests, any      *)
(* thresholds, weights, budgets and strategies: first the health record    *)
(* alone (Backend, and with its history BackendHistory), then the requests *)
(* that mark it (Upstream).                                                *)
(***************************************************************************)
EXTENDS Upstream, BackendHistory, FiniteSetTheorems, TLAPS

------------------------------------------------------------------------------
(* The health record.                                                      *)
BackendInv == BackendTypeOK /\ DeadIffThreshold

(* A counter of the model stays a counter. *)
LEMMA BumpType ==
    ASSUME NEW n \in 0..MaxCount
    PROVE  Bump(n) \in 0..MaxCount
  BY CountAssumption DEF Bump

(* The failure count that takes a node out is positive and within reach. *)
LEMMA ThresholdType == Threshold \in Nat \ {0} /\ Threshold <= MaxCount
  BY HealthAssumption, CountAssumption DEF Threshold

LEMMA BackendInitInv == BackendInit => BackendInv
<1> SUFFICES ASSUME BackendInit PROVE BackendInv
  OBVIOUS
<1>1. alive \in [Nodes -> BOOLEAN]
  BY Zenon DEF BackendInit
<1>2. fails \in [Nodes -> 0..MaxCount] /\ okStreak \in [Nodes -> 0..MaxCount]
  BY CountAssumption DEF BackendInit
<1>3. DeadIffThreshold
  BY ThresholdType DEF BackendInit, DeadIffThreshold
<1> QED
  BY <1>1, <1>2, <1>3 DEF BackendInv, BackendTypeOK

(***************************************************************************)
(* Each of the three writers keeps the record consistent, whoever calls it *)
(* and in whatever order: callers may rely on this without knowing of each *)
(* other.                                                                  *)
(***************************************************************************)
LEMMA MarkFailInv ==
    ASSUME BackendInv, NEW b \in Nodes, MarkFail(b)
    PROVE  BackendInv'
<1>1. Bump(fails[b]) \in 0..MaxCount
  BY BumpType DEF BackendInv, BackendTypeOK
<1>2. BackendTypeOK'
  <2>1. alive' \in [Nodes -> BOOLEAN]
    BY Zenon DEF BackendInv, BackendTypeOK, MarkFail
  <2>2. fails' \in [Nodes -> 0..MaxCount] /\ okStreak' \in [Nodes -> 0..MaxCount]
    BY <1>1, CountAssumption DEF BackendInv, BackendTypeOK, MarkFail
  <2> QED
    BY <2>1, <2>2 DEF BackendTypeOK
<1>3. DeadIffThreshold'
  <2> SUFFICES ASSUME NEW c \in Nodes
               PROVE  ~alive'[c] <=> fails'[c] >= Threshold
    BY DEF DeadIffThreshold
  <2>1. CASE c = b
    <3>1. fails'[c] = Bump(fails[b])
      BY <2>1 DEF MarkFail, BackendInv, BackendTypeOK
    <3>2. alive'[c] <=> (alive[b] /\ Bump(fails[b]) < Threshold)
      BY <2>1, Zenon DEF MarkFail, BackendInv, BackendTypeOK
    <3>3. ~alive[b] <=> fails[b] >= Threshold
      BY DEF BackendInv, DeadIffThreshold
    <3>4. fails[b] >= Threshold => Bump(fails[b]) >= Threshold
      BY CountAssumption, ThresholdType
      DEF Bump, BackendInv, BackendTypeOK
    <3> QED
      BY <1>1, <3>1, <3>2, <3>3, <3>4, ThresholdType
      DEF BackendInv, BackendTypeOK
  <2>2. CASE c # b
    BY <2>2 DEF MarkFail, BackendInv, BackendTypeOK, DeadIffThreshold
  <2> QED
    BY <2>1, <2>2
<1> QED
  BY <1>2, <1>3 DEF BackendInv

LEMMA MarkOKInv ==
    ASSUME BackendInv, NEW b \in Nodes, MarkOK(b)
    PROVE  BackendInv'
<1>1. Bump(okStreak[b]) \in 0..MaxCount
  BY BumpType DEF BackendInv, BackendTypeOK
<1>2. BackendTypeOK'
  <2>1. alive' \in [Nodes -> BOOLEAN]
    BY Zenon DEF BackendInv, BackendTypeOK, MarkOK
  <2>2. fails' \in [Nodes -> 0..MaxCount] /\ okStreak' \in [Nodes -> 0..MaxCount]
    BY <1>1, CountAssumption DEF BackendInv, BackendTypeOK, MarkOK
  <2> QED
    BY <2>1, <2>2 DEF BackendTypeOK
<1>3. DeadIffThreshold'
  BY ThresholdType DEF BackendInv, BackendTypeOK, MarkOK, DeadIffThreshold
<1> QED
  BY <1>2, <1>3 DEF BackendInv

LEMMA MarkSuccessInv ==
    ASSUME BackendInv, NEW b \in Nodes, MarkSuccess(b)
    PROVE  BackendInv'
<1>1. BackendTypeOK'
  BY CountAssumption DEF BackendInv, BackendTypeOK, MarkSuccess
<1>2. DeadIffThreshold'
  BY ThresholdType
  DEF BackendInv, BackendTypeOK, MarkSuccess, DeadIffThreshold
<1> QED
  BY <1>1, <1>2 DEF BackendInv

(***************************************************************************)
(* A node is out exactly when its failures have reached the threshold, for *)
(* every number of nodes, every threshold and every order of the marks     *)
(* (upstream.go markFail, markOK, markSuccess).                            *)
(***************************************************************************)
THEOREM BackendConsistent == BackendSpec => [](BackendTypeOK /\ DeadIffThreshold)
<1>1. BackendInv /\ [BackendNext]_backendVars => BackendInv'
  <2> SUFFICES ASSUME BackendInv, [BackendNext]_backendVars
               PROVE  BackendInv'
    OBVIOUS
  <2>1. CASE BackendNext
    BY <2>1, MarkFailInv, MarkOKInv, MarkSuccessInv DEF BackendNext
  <2>2. CASE UNCHANGED backendVars
    BY <2>2
    DEF backendVars, BackendInv, BackendTypeOK, DeadIffThreshold
  <2> QED
    BY <2>1, <2>2
<1> QED
  BY <1>1, BackendInitInv, PTL DEF BackendSpec, BackendInv

------------------------------------------------------------------------------
(***************************************************************************)
(* The history of the marks.  A node that is out has had nothing but probe *)
(* successes for the length of its streak, since any failure ends the      *)
(* streak and any proxied success brings the node back; a node that is in  *)
(* has had no proxied success for as many marks as it has failures.        *)
(***************************************************************************)
Marks == {"fail", "ok", "success"}

MarksTypeOK ==
    /\ marks \in [Nodes -> Seq(Marks)]
    /\ \A b \in Nodes : Len(marks[b]) <= Window

StreakIsRecent ==
    \A b \in Nodes : ~alive[b] =>
        okStreak[b] < Passes /\ LastMarks(b, okStreak[b], {"ok"})

FailuresAreRecent ==
    \A b \in Nodes : alive[b] => LastMarks(b, fails[b], {"fail", "ok"})

HistoryInv ==
    BackendInv /\ MarksTypeOK /\ StreakIsRecent /\ FailuresAreRecent

LEMMA WindowType == Window \in Nat /\ Window >= Threshold /\ Window >= Passes
  BY ThresholdType, HealthAssumption DEF Window

(* One more mark is recorded, and the oldest is forgotten at the limit.    *)
LEMMA RecordMarks ==
    ASSUME MarksTypeOK, NEW b \in Nodes, NEW m \in Marks, Record(b, m)
    PROVE  /\ MarksTypeOK'
           /\ \A c \in Nodes \ {b} : marks'[c] = marks[c]
           /\ LET l == Len(marks[b])
                  s == marks[b]
                  t == marks'[b]
              IN  \/ /\ l < Window /\ Len(t) = l + 1 /\ t[l + 1] = m
                     /\ \A i \in 1..l : t[i] = s[i]
                  \/ /\ l = Window /\ Len(t) = l
                     /\ \A i \in 1..l : t[i] = IF i = l THEN m ELSE s[i + 1]
<1> DEFINE s == marks[b]
           longer == Append(s, m)
           t == IF Len(longer) > Window THEN Tail(longer) ELSE longer
<1>1. s \in Seq(Marks) /\ Len(s) \in Nat /\ Len(s) <= Window
  BY DEF MarksTypeOK
<1>2. /\ longer \in Seq(Marks) /\ Len(longer) = Len(s) + 1
      /\ longer[Len(s) + 1] = m /\ \A i \in 1..Len(s) : longer[i] = s[i]
  BY <1>1
<1>3. marks' = [marks EXCEPT ![b] = t]
  BY DEF Record
<1>4. CASE Len(s) < Window
  <2> HIDE DEF longer
  <2>1. t = longer
    BY <1>1, <1>2, <1>4, WindowType
  <2>2. marks' = [marks EXCEPT ![b] = longer]
    BY <1>3, <2>1
  <2>3. MarksTypeOK' /\ marks'[b] = longer
    BY <1>1, <1>2, <1>4, <2>2, WindowType DEF MarksTypeOK
  <2> QED
    BY <1>2, <1>4, <2>2, <2>3 DEF MarksTypeOK
<1>5. CASE Len(s) = Window
  <2> HIDE DEF longer
  <2>1. t = Tail(longer)
    BY <1>2, <1>5, WindowType
  <2>2. /\ Tail(longer) \in Seq(Marks) /\ Len(Tail(longer)) = Len(s)
        /\ \A i \in 1..Len(s) : Tail(longer)[i] = longer[i + 1]
    BY <1>1, <1>2
  <2>3. \A i \in 1..Len(s) : Tail(longer)[i] = IF i = Len(s) THEN m ELSE s[i + 1]
    BY <1>1, <1>2, <2>2
  <2> QED
    BY <1>1, <1>3, <1>5, <2>1, <2>2, <2>3 DEF MarksTypeOK
<1> QED
  BY <1>1, <1>4, <1>5, WindowType

(* A run of marks in S is longer by one after a mark in S.                 *)
LEMMA RunGrows ==
    ASSUME MarksTypeOK, NEW b \in Nodes, NEW m \in Marks, Record(b, m),
           NEW S, m \in S, NEW n \in Nat, n < Window, LastMarks(b, n, S)
    PROVE  LastMarks(b, n + 1, S)' /\ LastMarks(b, n, S)'
<1> DEFINE l == Len(marks[b])
           s == marks[b]
           t == marks'[b]
<1>1. l \in Nat /\ Window \in Nat /\ l >= n /\ \A i \in l - n + 1 .. l : s[i] \in S
  BY WindowType DEF MarksTypeOK, LastMarks
<1>2. \/ /\ l < Window /\ Len(t) = l + 1 /\ t[l + 1] = m
         /\ \A i \in 1..l : t[i] = s[i]
      \/ /\ l = Window /\ Len(t) = l
         /\ \A i \in 1..l : t[i] = IF i = l THEN m ELSE s[i + 1]
  BY RecordMarks
<1> HIDE DEF l, s, t
<1>3. Len(t) \in Nat /\ Len(t) >= n + 1
  BY <1>1, <1>2
<1>4. ASSUME NEW i \in Len(t) - (n + 1) + 1 .. Len(t)
      PROVE  t[i] \in S
  <2>1. CASE l < Window
    <3>1. Len(t) = l + 1 /\ t[l + 1] = m /\ \A j \in 1..l : t[j] = s[j]
      BY <1>1, <1>2, <2>1
    <3>2. (i \in l - n + 1 .. l /\ i \in 1..l) \/ i = l + 1
      BY <1>1, <3>1
    <3> QED
      BY <1>1, <3>1, <3>2
  <2>2. CASE l = Window
    <3>1. Len(t) = l /\ \A j \in 1..l : t[j] = IF j = l THEN m ELSE s[j + 1]
      BY <1>1, <1>2, <2>2
    <3>2. i \in 1..l /\ (i = l \/ i + 1 \in l - n + 1 .. l)
      BY <1>1, <1>3, <3>1
    <3>3. t[i] = IF i = l THEN m ELSE s[i + 1]
      BY <3>1, <3>2
    <3> QED
      BY <1>1, <3>2, <3>3
  <2> QED
    BY <1>2, <2>1, <2>2
<1>5. Len(t) >= n /\ \A i \in Len(t) - n + 1 .. Len(t) : t[i] \in S
  BY <1>3, <1>4
<1> QED
  BY <1>3, <1>4, <1>5 DEF LastMarks, t

LEMMA LastIs ==
    ASSUME MarksTypeOK, NEW b \in Nodes, NEW m \in Marks, Record(b, m)
    PROVE  LastMarks(b, 1, {m})'
<1>1. LastMarks(b, 0, {m}) /\ 0 < Window
  BY WindowType, HealthAssumption DEF MarksTypeOK, LastMarks
<1> QED
  BY <1>1, RunGrows

(* What is said of the marks of the other nodes is not touched.            *)
LEMMA OtherMarksKeep ==
    ASSUME MarksTypeOK, NEW b \in Nodes, NEW m \in Marks, Record(b, m),
           NEW c \in Nodes \ {b}, NEW n, NEW S
    PROVE  LastMarks(c, n, S)' <=> LastMarks(c, n, S)
  BY RecordMarks DEF LastMarks

LEMMA HistoryFail ==
    ASSUME HistoryInv, NEW b \in Nodes, MarkFail(b), Record(b, "fail")
    PROVE  /\ HistoryInv'
           /\ alive[b] /\ ~alive'[b] =>
                 LastMarks(b, 1, {"fail"})' /\ LastMarks(b, Threshold, {"fail", "ok"})'
<1> USE DEF HistoryInv
<1>1. BackendInv' /\ MarksTypeOK' /\ "fail" \in Marks
  BY MarkFailInv, RecordMarks DEF Marks
<1>2. /\ okStreak'[b] = 0 /\ fails'[b] = Bump(fails[b]) /\ (alive'[b] => alive[b])
      /\ \A c \in Nodes \ {b} : /\ alive'[c] = alive[c] /\ fails'[c] = fails[c]
                                /\ okStreak'[c] = okStreak[c]
  BY DEF BackendInv, BackendTypeOK, MarkFail
<1>3. LastMarks(b, 0, {"ok"})'
  BY <1>1 DEF LastMarks, MarksTypeOK
<1>4. StreakIsRecent'
  BY <1>1, <1>2, <1>3, OtherMarksKeep, HealthAssumption DEF StreakIsRecent
<1>5. PICK n \in Nat : n = fails[b]
  BY DEF BackendInv, BackendTypeOK
<1>6. ASSUME alive[b]
      PROVE  /\ n < Threshold /\ Bump(fails[b]) = n + 1
             /\ LastMarks(b, n + 1, {"fail", "ok"})'
  <2>1. n < Threshold /\ n < Window
    BY <1>5, <1>6, ThresholdType, WindowType
    DEF BackendInv, BackendTypeOK, DeadIffThreshold
  <2>2. Bump(fails[b]) = n + 1
    BY <1>5, <2>1, ThresholdType, CountAssumption DEF Bump
  <2>3. LastMarks(b, n, {"fail", "ok"})
    BY <1>5, <1>6 DEF FailuresAreRecent
  <2>4. LastMarks(b, n + 1, {"fail", "ok"})'
    BY <1>1, <2>1, <2>3, RunGrows
  <2> QED
    BY <2>1, <2>2, <2>4
<1>7. alive[b] => LastMarks(b, fails[b], {"fail", "ok"})'
  BY <1>2, <1>6 DEF LastMarks
<1>8. FailuresAreRecent'
  BY <1>1, <1>2, <1>7, OtherMarksKeep DEF FailuresAreRecent, LastMarks
<1>9. ASSUME alive[b], ~alive'[b]
      PROVE  LastMarks(b, 1, {"fail"})' /\ LastMarks(b, Threshold, {"fail", "ok"})'
  <2>1. n + 1 = Threshold
    BY <1>1, <1>2, <1>6, <1>9, ThresholdType
    DEF BackendInv, BackendTypeOK, DeadIffThreshold
  <2>2. LastMarks(b, n + 1, {"fail", "ok"})'
    BY <1>6, <1>9
  <2> QED
    BY <1>1, <2>1, <2>2, LastIs DEF LastMarks
<1> QED
  BY <1>1, <1>4, <1>8, <1>9

LEMMA HistoryOK ==
    ASSUME HistoryInv, NEW b \in Nodes, MarkOK(b), Record(b, "ok")
    PROVE  /\ HistoryInv'
           /\ ~alive[b] /\ alive'[b] => LastMarks(b, Passes, {"ok"})'
           /\ alive[b] => alive'[b]
<1> USE DEF HistoryInv
<1>1. BackendInv' /\ MarksTypeOK' /\ "ok" \in Marks
  BY MarkOKInv, RecordMarks DEF Marks
<1>2. /\ okStreak'[b] = Bump(okStreak[b]) /\ (alive[b] => alive'[b])
      /\ Bump(okStreak[b]) >= Passes => fails'[b] = 0 /\ alive'[b]
      /\ ~(Bump(okStreak[b]) >= Passes) => fails'[b] = fails[b] /\ (alive'[b] <=> alive[b])
      /\ \A c \in Nodes \ {b} : /\ alive'[c] = alive[c] /\ fails'[c] = fails[c]
                                /\ okStreak'[c] = okStreak[c]
  BY DEF BackendInv, BackendTypeOK, MarkOK
<1>3. PICK k \in Nat, n \in Nat : k = okStreak[b] /\ n = fails[b]
  BY DEF BackendInv, BackendTypeOK
<1>4. ASSUME ~alive[b]
      PROVE  k < Passes /\ Bump(okStreak[b]) = k + 1 /\ LastMarks(b, k + 1, {"ok"})'
  <2>1. k < Passes /\ k < Window /\ LastMarks(b, k, {"ok"})
    BY <1>3, <1>4, WindowType, HealthAssumption DEF StreakIsRecent
  <2>2. Bump(okStreak[b]) = k + 1
    BY <1>3, <2>1, CountAssumption, HealthAssumption DEF Bump
  <2>3. LastMarks(b, k + 1, {"ok"})'
    BY <1>1, <2>1, RunGrows
  <2> QED
    BY <2>1, <2>2, <2>3
<1>5. ASSUME ~alive'[b]
      PROVE  k + 1 < Passes /\ okStreak'[b] = k + 1 /\ LastMarks(b, k + 1, {"ok"})'
  BY <1>2, <1>4, <1>5, HealthAssumption
<1>6. StreakIsRecent'
  BY <1>2, <1>5, <1>1, OtherMarksKeep DEF StreakIsRecent, LastMarks
<1>7. ASSUME ~alive[b], alive'[b]
      PROVE  LastMarks(b, Passes, {"ok"})'
  <2>1. k + 1 = Passes
    BY <1>2, <1>4, <1>7, HealthAssumption
  <2> QED
    BY <1>4, <1>7, <2>1 DEF LastMarks
<1>8. ASSUME alive'[b]
      PROVE  LastMarks(b, fails[b], {"fail", "ok"})'
  <2>1. CASE fails'[b] = 0
    BY <1>1, <2>1 DEF LastMarks, MarksTypeOK
  <2>2. CASE fails'[b] # 0
    <3>1. fails'[b] = n /\ alive[b] /\ n < Window /\ LastMarks(b, n, {"fail", "ok"})
      BY <1>2, <1>3, <1>8, <2>2, ThresholdType, WindowType
      DEF BackendInv, BackendTypeOK, DeadIffThreshold, FailuresAreRecent
    <3>2. LastMarks(b, n, {"fail", "ok"})'
      BY <1>1, <3>1, RunGrows
    <3> QED
      BY <3>1, <3>2 DEF LastMarks
  <2> QED
    BY <2>1, <2>2
<1>9. FailuresAreRecent'
  BY <1>1, <1>2, <1>8, OtherMarksKeep DEF FailuresAreRecent, LastMarks
<1> QED
  BY <1>1, <1>2, <1>6, <1>7, <1>9

LEMMA HistorySuccess ==
    ASSUME HistoryInv, NEW b \in Nodes, MarkSuccess(b), Record(b, "success")
    PROVE  /\ HistoryInv'
           /\ alive'[b] /\ LastMarks(b, 1, {"success"})'
<1> USE DEF HistoryInv
<1>1. BackendInv' /\ MarksTypeOK' /\ "success" \in Marks
  BY MarkSuccessInv, RecordMarks DEF Marks
<1>2. /\ alive'[b] /\ fails'[b] = 0 /\ okStreak' = okStreak
      /\ \A c \in Nodes \ {b} : alive'[c] = alive[c] /\ fails'[c] = fails[c]
  BY DEF BackendInv, BackendTypeOK, MarkSuccess
<1>3. StreakIsRecent'
  BY <1>1, <1>2, OtherMarksKeep DEF StreakIsRecent, LastMarks
<1>4. LastMarks(b, fails[b], {"fail", "ok"})'
  BY <1>1, <1>2 DEF LastMarks, MarksTypeOK
<1>5. FailuresAreRecent'
  BY <1>1, <1>2, <1>4, OtherMarksKeep DEF FailuresAreRecent, LastMarks
<1> QED
  BY <1>1, <1>2, <1>3, <1>5, LastIs

LEMMA HistoryStutter ==
    ASSUME HistoryInv, UNCHANGED historyVars
    PROVE  HistoryInv'
  BY DEF HistoryInv, historyVars, BackendInv, BackendTypeOK, DeadIffThreshold,
     MarksTypeOK, StreakIsRecent, FailuresAreRecent, LastMarks

LEMMA HistoryStart == HistoryInit => HistoryInv
<1> SUFFICES ASSUME HistoryInit PROVE HistoryInv
  OBVIOUS
<1>1. BackendInv
  BY BackendInitInv DEF HistoryInit
<1>2. MarksTypeOK /\ \A b \in Nodes : alive[b] /\ fails[b] = 0
  BY WindowType DEF HistoryInit, BackendInit, MarksTypeOK
<1>3. \A b \in Nodes : LastMarks(b, 0, {"fail", "ok"})
  BY <1>2 DEF LastMarks, MarksTypeOK
<1> QED
  BY <1>1, <1>2, <1>3 DEF HistoryInv, StreakIsRecent, FailuresAreRecent

LEMMA HistoryAlways == HistorySpec => []HistoryInv
<1>1. HistoryInv /\ [HistoryNext]_historyVars => HistoryInv'
  BY HistoryFail, HistoryOK, HistorySuccess, HistoryStutter DEF HistoryNext
<1> QED
  BY <1>1, HistoryStart, PTL DEF HistorySpec

(***************************************************************************)
(* A node comes back by one proxied success, or by Passes probe successes  *)
(* with nothing else among them, for any settings: okStreak never carries  *)
(* a success from before the node went out (upstream.go markOK,            *)
(* markSuccess).                                                           *)
(***************************************************************************)
THEOREM BackendRevivalNeedsPasses == HistorySpec => RevivalNeedsPasses
<1> DEFINE A == \A b \in Nodes : ~alive[b] /\ alive'[b] =>
                    \/ LastMarks(b, 1, {"success"})'
                    \/ LastMarks(b, Passes, {"ok"})'
<1>1. ASSUME HistoryInv, HistoryNext PROVE A
  <2> SUFFICES ASSUME NEW c \in Nodes, ~alive[c], alive'[c]
               PROVE  \/ LastMarks(c, 1, {"success"})'
                      \/ LastMarks(c, Passes, {"ok"})'
    OBVIOUS
  <2>1. ASSUME NEW b \in Nodes, MarkFail(b) PROVE FALSE
    BY <1>1, <2>1 DEF HistoryInv, BackendInv, BackendTypeOK, MarkFail
  <2>2. ASSUME NEW b \in Nodes, MarkOK(b), Record(b, "ok")
        PROVE  LastMarks(c, Passes, {"ok"})'
    <3>1. c = b
      BY <1>1, <2>2 DEF HistoryInv, BackendInv, BackendTypeOK, MarkOK
    <3> QED
      BY <1>1, <2>2, <3>1, HistoryOK
  <2>3. ASSUME NEW b \in Nodes, MarkSuccess(b), Record(b, "success")
        PROVE  LastMarks(c, 1, {"success"})'
    <3>1. c = b
      BY <1>1, <2>3 DEF HistoryInv, BackendInv, BackendTypeOK, MarkSuccess
    <3> QED
      BY <1>1, <2>3, <3>1, HistorySuccess
  <2> QED
    BY <1>1, <2>1, <2>2, <2>3 DEF HistoryNext
<1> HIDE DEF A
<1>2. HistoryInv /\ [HistoryNext]_historyVars => [A]_historyVars
  BY <1>1
<1> QED
  BY <1>2, HistoryAlways, PTL DEF A, HistorySpec, RevivalNeedsPasses

(***************************************************************************)
(* A node goes out on a failure, and only when the last Threshold marks    *)
(* hold no proxied success, for any settings (upstream.go markFail).       *)
(***************************************************************************)
THEOREM BackendRemovalNeedsNoSuccess == HistorySpec => RemovalNeedsNoSuccess
<1> DEFINE A == \A b \in Nodes : alive[b] /\ ~alive'[b] =>
                    LastMarks(b, 1, {"fail"})'
                    /\ LastMarks(b, Threshold, {"fail", "ok"})'
<1>1. ASSUME HistoryInv, HistoryNext PROVE A
  <2> SUFFICES ASSUME NEW c \in Nodes, alive[c], ~alive'[c]
               PROVE  /\ LastMarks(c, 1, {"fail"})'
                      /\ LastMarks(c, Threshold, {"fail", "ok"})'
    OBVIOUS
  <2>1. ASSUME NEW b \in Nodes, MarkFail(b), Record(b, "fail")
        PROVE  /\ LastMarks(c, 1, {"fail"})'
               /\ LastMarks(c, Threshold, {"fail", "ok"})'
    <3>1. c = b
      BY <1>1, <2>1 DEF HistoryInv, BackendInv, BackendTypeOK, MarkFail
    <3> QED
      BY <1>1, <2>1, <3>1, HistoryFail
  <2>2. ASSUME NEW b \in Nodes, MarkOK(b) \/ MarkSuccess(b) PROVE FALSE
    BY <1>1, <2>2 DEF HistoryInv, BackendInv, BackendTypeOK, MarkOK, MarkSuccess
  <2> QED
    BY <1>1, <2>1, <2>2 DEF HistoryNext
<1> HIDE DEF A
<1>2. HistoryInv /\ [HistoryNext]_historyVars => [A]_historyVars
  BY <1>1
<1> QED
  BY <1>2, HistoryAlways, PTL DEF A, HistorySpec, RemovalNeedsNoSuccess

------------------------------------------------------------------------------
(* The requests, which implement the record and the failover.              *)
(* What TypeOK says of the variables the proof is about. *)
CoreType ==
    /\ conns \in [Nodes -> Int]
    /\ pc \in [Requests -> Places]
    /\ node \in [Requests -> Nodes \cup {None}]
    /\ exclude \in [Requests -> SUBSET Nodes]
    /\ tries \in [Requests -> 0..Retry + 1]
    /\ scan \in [Requests -> Scans]
    /\ probe \in Nodes \cup {None}
    /\ verdict \in {"none", "ok", "bad"}

(* A request has a node while it is about one, and the node is none that   *)
(* has failed it; neither are the candidates of a scan.  Every failure is  *)
(* in the set and has been paid for, and only a request that still has     *)
(* attempts is looking for a node.                                         *)
RequestOK(r) ==
    /\ pc[r] \in {"picked", "flight", "failed", "answered", "body"} =>
          node[r] \in Nodes
    /\ pc[r] \in {"picked", "flight", "failed"} => node[r] \notin exclude[r]
    /\ scan[r].cands \cap exclude[r] = {}
    /\ pc[r] \notin {"scan", "weigh"} => scan[r].cands = {}
    /\ pc[r] = "weigh" => scan[r].best \in Nodes \ exclude[r]
    /\ Cardinality(exclude[r]) = tries[r]
    /\ pc[r] = "idle" => exclude[r] = {}
    /\ pc[r] \in {"scan", "weigh", "picked", "flight", "failed"} =>
          tries[r] < Attempts(r)

(* The checker has an answer only about a node it has asked. *)
Probing == verdict # "none" => probe \in Nodes \ Internal

UpInv == CoreType /\ Probing /\ \A r \in Requests : RequestOK(r)

(* The requests other than r keep their locals. *)
OthersKeep(r) ==
    \A q \in Requests \ {r} :
        /\ pc'[q] = pc[q]
        /\ node'[q] = node[q]
        /\ exclude'[q] = exclude[q]
        /\ tries'[q] = tries[q]
        /\ scan'[q] = scan[q]

LEMMA AttemptsType ==
    \A r \in Requests : Attempts(r) \in 1..Retry + 1
  BY RouteAssumption DEF Attempts

LEMMA NoneIsNoNode == None \notin Nodes
  BY NodesAssumption DEF None, Nodes

LEMMA FreshScanType == FreshScan \in Scans /\ FreshScan.cands = {}
  BY NodesAssumption DEF FreshScan, Scans, None, Nodes

LEMMA ExcludeFinite ==
    ASSUME CoreType, NEW r \in Requests
    PROVE  IsFiniteSet(exclude[r]) /\ Cardinality(exclude[r]) \in Nat
<1>1. IsFiniteSet(Nodes)
  BY NodesAssumption, FS_Interval DEF Nodes
<1> QED
  BY <1>1, FS_Subset, FS_CardinalityType DEF CoreType

(* A step of request r is judged by what it does to r. *)
LEMMA RequestStep ==
    ASSUME UpInv, NEW r \in Requests,
           CoreType', Probing', OthersKeep(r), RequestOK(r)'
    PROVE  UpInv'
<1> SUFFICES ASSUME NEW q \in Requests, q # r PROVE RequestOK(q)'
  BY DEF UpInv
<1> QED
  BY DEF UpInv, OthersKeep, RequestOK, Attempts

LEMMA UpInit == Init => UpInv
<1> SUFFICES ASSUME Init PROVE UpInv
  OBVIOUS
<1>1. CoreType
  BY FreshScanType, RouteAssumption, NodesAssumption
  DEF Init, CoreType, Places, None, Nodes
<1>2. Probing
  BY DEF Init, Probing
<1>3. ASSUME NEW r \in Requests PROVE RequestOK(r)
  BY FreshScanType, FS_EmptySet DEF Init, RequestOK
<1> QED
  BY <1>1, <1>2, <1>3 DEF UpInv

(* A request that leaves is as good as new. *)
LEMMA LeaveInv ==
    ASSUME UpInv, NEW r \in Requests, Leave(r),
           conns' \in [Nodes -> Int], UNCHANGED checkerVars
    PROVE  UpInv'
<1>1. CoreType'
  BY FreshScanType, RouteAssumption
  DEF UpInv, CoreType, Leave, Goto, Places, checkerVars
<1>2. Probing'
  BY DEF UpInv, Probing, checkerVars
<1>3. OthersKeep(r)
  BY DEF UpInv, CoreType, Leave, Goto, OthersKeep
<1>4. RequestOK(r)'
  <2>1. /\ pc'[r] = "idle"
        /\ exclude'[r] = {}
        /\ tries'[r] = 0
        /\ scan'[r] = FreshScan
    BY DEF UpInv, CoreType, Leave, Goto
  <2>2. Cardinality({}) = 0
    BY FS_EmptySet
  <2> QED
    BY <2>1, <2>2, FreshScanType DEF RequestOK
<1> QED
  BY <1>1, <1>2, <1>3, <1>4, RequestStep

(* So is a step that only moves r's scan, within what it may find. *)
LEMMA ScanInv ==
    ASSUME UpInv, NEW r \in Requests, NEW s \in Scans,
           scan' = [scan EXCEPT ![r] = s],
           s.cands \cap exclude[r] = {},
           pc[r] \in {"scan", "weigh"},
           \/ UNCHANGED pc
           \/ pc' = [pc EXCEPT ![r] = "weigh"],
           pc'[r] = "weigh" => s.best \in Nodes \ exclude[r],
           UNCHANGED <<conns, node, exclude, tries, checkerVars>>
    PROVE  UpInv'
<1>1. CoreType'
  BY DEF UpInv, CoreType, Places, checkerVars
<1>2. Probing'
  BY DEF UpInv, Probing, checkerVars
<1>3. OthersKeep(r)
  BY DEF UpInv, CoreType, OthersKeep
<1>4. RequestOK(r)'
  BY DEF UpInv, CoreType, RequestOK, Attempts
<1> QED
  BY <1>1, <1>2, <1>3, <1>4, RequestStep
------------------------------------------------------------------------------
(* Each step of a request keeps the invariant. *)

LEMMA LookInv ==
    ASSUME UpInv, NEW r \in Requests, Look(r)
    PROVE  UpInv'
<1> DEFINE b == scan[r].at
           wanted == /\ b \notin exclude[r]
                     /\ alive[b]
                     /\ b \in Backup => scan[r].pass = 2
           found == IF wanted THEN scan[r].cands \cup {b} ELSE scan[r].cands
           s == [scan[r] EXCEPT !.at = @ + 1, !.cands = found]
<1>1. scan[r] \in Scans /\ b \in Nodes
  BY NodesAssumption DEF UpInv, CoreType, Look, Scans, Nodes
<1>2. found \in SUBSET Nodes /\ found \cap exclude[r] = {}
  BY <1>1 DEF UpInv, CoreType, RequestOK, Scans
<1>3. scan' = [scan EXCEPT ![r] = s]
  BY DEF Look
<1>4. s \in Scans /\ s.cands = found
  <2>1. scan[r].at + 1 \in 1..N + 1
    BY <1>1, NodesAssumption DEF Nodes
  <2> HIDE DEF found
  <2> QED
    BY <1>1, <1>2, <2>1 DEF Scans
<1> HIDE DEF s, found
<1> QED
  BY <1>2, <1>3, <1>4, ScanInv DEF Look, poolVars

LEMMA SecondPassInv ==
    ASSUME UpInv, NEW r \in Requests, SecondPass(r)
    PROVE  UpInv'
<1> DEFINE s == [scan[r] EXCEPT !.pass = 2, !.at = 1]
<1>1. scan' = [scan EXCEPT ![r] = s]
  BY DEF SecondPass
<1>2. s \in Scans /\ s.cands = {}
  BY NodesAssumption DEF UpInv, CoreType, Scans, SecondPass
<1> QED
  BY <1>1, <1>2, ScanInv DEF SecondPass, poolVars

LEMMA StartWeighingInv ==
    ASSUME UpInv, NEW r \in Requests, StartWeighing(r)
    PROVE  UpInv'
<1>1. PICK b \in scan[r].cands :
        scan' = [scan EXCEPT ![r].best = b, ![r].load = conns[b],
                             ![r].cands = @ \ {b}]
  BY DEF StartWeighing
<1> DEFINE s == [scan[r] EXCEPT !.best = b, !.load = conns[b],
                                !.cands = @ \ {b}]
<1>2. scan[r] \in Scans /\ b \in Nodes \ exclude[r] /\ conns[b] \in Int
  BY DEF UpInv, CoreType, RequestOK, Scans
<1>3. scan' = [scan EXCEPT ![r] = s]
  BY <1>1
<1>4. s \in Scans /\ s.best = b /\ s.cands \subseteq scan[r].cands
  BY <1>2 DEF Scans
<1>5. s.cands \cap exclude[r] = {}
  BY <1>4 DEF UpInv, RequestOK
<1>6. pc[r] \in {"scan", "weigh"} /\ pc' = [pc EXCEPT ![r] = "weigh"]
  BY DEF StartWeighing, Goto
<1> HIDE DEF s
<1> QED
  BY <1>2, <1>3, <1>4, <1>5, <1>6, ScanInv DEF StartWeighing, poolVars

LEMMA WeighInv ==
    ASSUME UpInv, NEW r \in Requests, Weigh(r)
    PROVE  UpInv'
<1>1. PICK b \in scan[r].cands :
        LET better == LessLoaded(b, conns[b], scan[r].best, scan[r].load)
        IN  scan' = [scan EXCEPT
                       ![r].best  = IF better THEN b ELSE @,
                       ![r].load  = IF better THEN conns[b] ELSE @,
                       ![r].cands = @ \ {b}]
  BY DEF Weigh
<1> DEFINE better == LessLoaded(b, conns[b], scan[r].best, scan[r].load)
           best == IF better THEN b ELSE scan[r].best
           load == IF better THEN conns[b] ELSE scan[r].load
           s == [scan[r] EXCEPT !.best = best, !.load = load,
                                !.cands = @ \ {b}]
<1>2. scan[r] \in Scans /\ b \in Nodes \ exclude[r] /\ conns[b] \in Int
  BY DEF UpInv, CoreType, RequestOK, Scans
<1>3. scan' = [scan EXCEPT ![r] = s]
  BY <1>1
<1> HIDE DEF better
<1>4. best \in Nodes \ exclude[r] /\ load \in Int
  BY <1>2 DEF UpInv, RequestOK, Scans, Weigh
<1> HIDE DEF best, load
<1>5. s \in Scans /\ s.best = best /\ s.cands \subseteq scan[r].cands
  BY <1>2, <1>4 DEF Scans
<1>6. s.cands \cap exclude[r] = {}
  BY <1>5 DEF UpInv, RequestOK
<1> HIDE DEF s
<1> QED
  BY <1>3, <1>4, <1>5, <1>6, ScanInv DEF Weigh, poolVars

(* A pick forgets the scan and keeps one of its candidates. *)
LEMMA PickedInv ==
    ASSUME UpInv, NEW r \in Requests, NEW b \in Nodes \ exclude[r],
           pc[r] \in {"scan", "weigh"}, Goto(r, "picked"),
           node' = [node EXCEPT ![r] = b],
           scan' = [scan EXCEPT ![r] = FreshScan],
           UNCHANGED <<conns, exclude, tries, checkerVars>>
    PROVE  UpInv'
<1>1. CoreType'
  BY FreshScanType DEF UpInv, CoreType, Goto, Places, checkerVars
<1>2. Probing'
  BY DEF UpInv, Probing, checkerVars
<1>3. OthersKeep(r)
  BY DEF UpInv, CoreType, Goto, OthersKeep
<1>4. RequestOK(r)'
  BY FreshScanType DEF UpInv, CoreType, Goto, RequestOK, Attempts
<1> QED
  BY <1>1, <1>2, <1>3, <1>4, RequestStep

LEMMA PickInv ==
    ASSUME UpInv, NEW r \in Requests, Pick(r)
    PROVE  UpInv'
<1>1. PICK b \in scan[r].cands : node' = [node EXCEPT ![r] = b]
  BY DEF Pick
<1>2. b \in Nodes \ exclude[r]
  BY DEF UpInv, CoreType, RequestOK, Scans
<1> QED
  BY <1>1, <1>2, PickedInv DEF Pick

LEMMA PickLeastInv ==
    ASSUME UpInv, NEW r \in Requests, PickLeast(r)
    PROVE  UpInv'
<1>1. scan[r].best \in Nodes \ exclude[r]
  BY DEF UpInv, RequestOK, PickLeast
<1> QED
  BY <1>1, PickedInv DEF PickLeast, poolVars

(* Steps that only move r on, with or without counting a connection. *)
LEMMA MoveInv ==
    ASSUME UpInv, NEW r \in Requests, NEW p \in Places,
           Goto(r, p), conns' \in [Nodes -> Int],
           UNCHANGED <<node, exclude, tries, scan, checkerVars>>,
           \/ pc[r] = "idle" /\ p = "scan"
           \/ pc[r] = "scan" /\ scan[r].cands = {} /\ p \in {"unavailable", "error"}
           \/ pc[r] = "picked" /\ p = "flight"
           \/ pc[r] = "flight" /\ p \in {"answered", "failed"}
           \/ pc[r] = "answered" /\ p = "body"
    PROVE  UpInv'
<1>1. CoreType'
  BY DEF UpInv, CoreType, Goto, checkerVars
<1>2. Probing'
  BY DEF UpInv, Probing, checkerVars
<1>3. OthersKeep(r)
  BY DEF UpInv, CoreType, Goto, OthersKeep
<1>4. RequestOK(r)'
  <2>1. pc[r] = "idle" => tries[r] = 0
    BY FS_EmptySet DEF UpInv, RequestOK
  <2> QED
    BY <2>1, AttemptsType
    DEF UpInv, CoreType, Goto, RequestOK, Attempts, Places
<1> QED
  BY <1>1, <1>2, <1>3, <1>4, RequestStep

LEMMA RecordFailureInv ==
    ASSUME UpInv, NEW r \in Requests, RecordFailure(r)
    PROVE  UpInv'
<1>1. /\ tries[r] + 1 \in 0..Retry + 1
      /\ node[r] \in Nodes \ exclude[r]
      /\ tries[r] = Cardinality(exclude[r])
      /\ tries[r] \in Nat
      /\ scan[r].cands \cap exclude[r] = {}
  BY AttemptsType, RouteAssumption
  DEF UpInv, CoreType, RequestOK, RecordFailure
<1>2. CoreType'
  BY <1>1 DEF UpInv, CoreType, RecordFailure, Goto, Places, poolVars,
              checkerVars
<1>3. Probing'
  BY DEF UpInv, Probing, RecordFailure, checkerVars
<1>4. OthersKeep(r)
  BY DEF UpInv, CoreType, RecordFailure, Goto, OthersKeep
<1>5. Cardinality(exclude[r] \cup {node[r]}) = tries[r] + 1
  BY <1>1, ExcludeFinite, FS_AddElement DEF UpInv
<1>6. RequestOK(r)'
  <2>1. /\ exclude'[r] = exclude[r] \cup {node[r]}
        /\ tries'[r] = tries[r] + 1
        /\ scan'[r] = scan[r]
        /\ pc'[r] = IF tries[r] + 1 < Attempts(r) THEN "scan" ELSE "error"
    BY DEF UpInv, CoreType, RecordFailure, Goto
  <2>2. scan[r].cands = {}
    BY DEF UpInv, RequestOK, RecordFailure
  <2> QED
    BY <1>5, <2>1, <2>2 DEF RequestOK, Attempts
<1> QED
  BY <1>2, <1>3, <1>4, <1>6, RequestStep

(* The checker and the world leave the requests alone. *)
LEMMA CheckInv ==
    ASSUME UpInv, Check
    PROVE  UpInv'
<1>1. UNCHANGED requestVars /\ UNCHANGED conns
  BY DEF Check, Tick, ProbeInternal, ProbeAnswers, ProbeOK, ProbeBad, poolVars
<1>2. probe' \in Nodes \cup {None} /\ verdict' \in {"none", "ok", "bad"}
  BY NodesAssumption
  DEF UpInv, CoreType, Probing, Check, Tick, ProbeInternal, ProbeAnswers,
      ProbeOK, ProbeBad, Advance, Nodes, None
<1>3. Probing'
  BY RouteAssumption, NoneIsNoNode
  DEF UpInv, CoreType, Probing, Check, Tick, ProbeInternal, ProbeAnswers,
      ProbeOK, ProbeBad
<1>4. CoreType'
  BY <1>1, <1>2 DEF UpInv, CoreType, requestVars
<1> QED
  BY <1>1, <1>3, <1>4 DEF UpInv, RequestOK, requestVars, Attempts
------------------------------------------------------------------------------
LEMMA UpStep == UpInv /\ [Next]_vars => UpInv'
<1> SUFFICES ASSUME UpInv, [Next]_vars PROVE UpInv'
  OBVIOUS
<1>1. ASSUME NEW r \in Requests, Start(r) \/ NothingFound(r) PROVE UpInv'
  BY <1>1, MoveInv
  DEF UpInv, CoreType, Start, NothingFound, Places, poolVars
<1>2. ASSUME NEW r \in Requests, Dial(r) PROVE UpInv'
  <2>1. node[r] \in Nodes
    BY <1>2 DEF UpInv, RequestOK, Dial
  <2>2. conns' \in [Nodes -> Int]
    BY <1>2, <2>1 DEF UpInv, CoreType, Dial
  <2> QED
    BY <1>2, <2>2, MoveInv DEF Dial, Places
<1>3. ASSUME NEW r \in Requests, AttemptFails(r) PROVE UpInv'
  <2>1. node[r] \in Nodes
    BY <1>3 DEF UpInv, RequestOK, AttemptFails
  <2>2. conns' \in [Nodes -> Int]
    BY <1>3, <2>1 DEF UpInv, CoreType, AttemptFails
  <2> QED
    BY <1>3, <2>2, MoveInv DEF AttemptFails, Places
<1>4. ASSUME NEW r \in Requests, AttemptReturns(r) \/ RecordSuccess(r)
      PROVE  UpInv'
  BY <1>4, MoveInv
  DEF UpInv, CoreType, AttemptReturns, RecordSuccess, Places, poolVars
<1>5. ASSUME NEW r \in Requests, CloseBody(r) PROVE UpInv'
  <2>1. node[r] \in Nodes
    BY <1>5 DEF UpInv, RequestOK, CloseBody
  <2>2. conns' \in [Nodes -> Int]
    BY <1>5, <2>1 DEF UpInv, CoreType, CloseBody
  <2> QED
    BY <1>5, <2>2, LeaveInv DEF CloseBody
<1>6. ASSUME NEW r \in Requests, Echo(r) \/ ShowError(r) PROVE UpInv'
  BY <1>6, LeaveInv DEF UpInv, CoreType, Echo, ShowError, poolVars
<1>7. ASSUME NEW r \in Requests, HangUp(r) PROVE UpInv'
  BY <1>7
  DEF HangUp, UpInv, CoreType, Probing, RequestOK, Attempts, poolVars,
      checkerVars
<1>8. CASE ServerChanges \/ UNCHANGED vars
  BY <1>8
  DEF ServerChanges, vars, UpInv, CoreType, Probing, RequestOK, Attempts,
      poolVars, requestVars, checkerVars
<1>9. ASSUME NEW r \in Requests, Choose(r) \/ Attempt(r) PROVE UpInv'
  BY <1>1, <1>2, <1>3, <1>4, <1>6, <1>9, LookInv, SecondPassInv, PickInv,
     StartWeighingInv, WeighInv, PickLeastInv, RecordFailureInv
  DEF Choose, Attempt
<1> QED
  BY <1>1, <1>5, <1>6, <1>7, <1>8, <1>9, CheckInv DEF Next

LEMMA UpAlways == Spec => []UpInv
  BY UpInit, UpStep, PTL DEF Spec

(* Every step leaves the health records alone or is one mark.              *)
LEMMA BackendRefined ==
    UpInv /\ [Next]_vars => [BackendNext]_backendVars
<1> SUFFICES ASSUME UpInv, [Next]_vars,
                    ~ UNCHANGED backendVars
             PROVE  BackendNext
  OBVIOUS
<1>1. ASSUME NEW r \in Requests, Choose(r) PROVE FALSE
  BY <1>1
  DEF Choose, Look, SecondPass, NothingFound, Pick, StartWeighing, Weigh,
      PickLeast
<1>2. ASSUME NEW r \in Requests, Attempt(r) PROVE BackendNext
  <2>1. Echo(r) \/ RecordFailure(r) \/ RecordSuccess(r)
    BY <1>2 DEF Attempt, Dial, AttemptReturns, AttemptFails
  <2>2. node[r] \in Nodes
    BY <2>1 DEF UpInv, RequestOK, Echo, RecordFailure, RecordSuccess
  <2> QED
    BY <2>1, <2>2 DEF Echo, RecordFailure, RecordSuccess, BackendNext
<1>3. ASSUME Check PROVE BackendNext
  BY <1>3, RouteAssumption
  DEF Check, Tick, ProbeInternal, ProbeAnswers, ProbeOK, ProbeBad,
      UpInv, Probing, BackendNext
<1>4. ASSUME NEW r \in Requests,
             Start(r) \/ CloseBody(r) \/ ShowError(r) \/ HangUp(r)
      PROVE  FALSE
  BY <1>4 DEF Start, CloseBody, ShowError, HangUp
<1>5. ~ ServerChanges /\ ~ UNCHANGED vars
  BY DEF ServerChanges, vars
<1> QED
  BY <1>1, <1>2, <1>3, <1>4, <1>5 DEF Next

(***************************************************************************)
(* Requests, retries and the checker use the health record as Backend      *)
(* allows: no interleaving of RoundTrip and HealthChecker.check produces a *)
(* record that a sequence of whole marks could not.                        *)
(***************************************************************************)
THEOREM UpstreamImplementsBackend == Spec => BackendSpec
<1>1. Init => BackendInit
  BY DEF Init
<1> QED
  BY <1>1, UpAlways, BackendRefined, PTL DEF Spec, BackendSpec

(***************************************************************************)
(* Hence a node of the proxy is out exactly when its failures have reached *)
(* the threshold, whatever the traffic and the probes did.                 *)
(***************************************************************************)
THEOREM UpstreamHealthConsistent == Spec => []DeadIffThreshold
  BY UpstreamImplementsBackend, BackendConsistent, PTL

(***************************************************************************)
(* A retry never goes back to a node that failed the request, and every    *)
(* failure costs one of its 1 + Retry attempts (1 with a body).            *)
(***************************************************************************)
THEOREM UpstreamFreshAttempt == Spec => []FreshAttempt
<1>1. UpInv => FreshAttempt
  BY DEF UpInv, RequestOK, FreshAttempt
<1> QED
  BY <1>1, UpAlways, PTL
------------------------------------------------------------------------------
(* The refinement of Failover. *)

(* What the mapping makes of request r before and after a step. *)
LEMMA MappedStays ==
    ASSUME NEW r \in Requests,
           pc'[r] = pc[r], node'[r] = node[r], exclude'[r] = exclude[r]
    PROVE  Phase(r)' = Phase(r) /\ Failed(r)' = Failed(r) /\ At(r)' = At(r)
  BY DEF Phase, Failed, At

LEMMA InitRefined == Init => F!FailoverInit
<1> SUFFICES ASSUME Init PROVE F!FailoverInit
  OBVIOUS
<1>1. ASSUME NEW r \in Requests
      PROVE  Phase(r) = "idle" /\ Failed(r) = {} /\ At(r) = None
  BY DEF Init, Phase, Failed, At
<1> QED
  BY <1>1 DEF Init, F!FailoverInit

(* A step of r that leaves its phase, failures and node, and every         *)
(* counter, is no step of Failover.                                        *)
LEMMA Stutters ==
    ASSUME UpInv, NEW r \in Requests, OthersKeep(r), UNCHANGED conns,
           Phase(r)' = Phase(r), Failed(r)' = Failed(r), At(r)' = At(r)
    PROVE  UNCHANGED F!failoverVars
<1>1. ASSUME NEW q \in Requests
      PROVE  Phase(q)' = Phase(q) /\ Failed(q)' = Failed(q) /\ At(q)' = At(q)
  BY MappedStays DEF OthersKeep
<1> QED
  BY <1>1 DEF F!failoverVars

(* The mapped variables as the actions of Failover write them. *)
LEMMA MappedMoves ==
    ASSUME UpInv, NEW r \in Requests, OthersKeep(r)
    PROVE  /\ [q \in Requests |-> Phase(q)]'
                = [[q \in Requests |-> Phase(q)] EXCEPT ![r] = Phase(r)']
           /\ [q \in Requests |-> Failed(q)]'
                = [[q \in Requests |-> Failed(q)] EXCEPT ![r] = Failed(r)']
           /\ [q \in Requests |-> At(q)]'
                = [[q \in Requests |-> At(q)] EXCEPT ![r] = At(r)']
<1>1. ASSUME NEW q \in Requests, q # r
      PROVE  Phase(q)' = Phase(q) /\ Failed(q)' = Failed(q) /\ At(q)' = At(q)
  BY MappedStays, <1>1 DEF OthersKeep
<1> QED
  BY <1>1

(* A step of a request touches that request only. *)
LEMMA RequestFrames ==
    ASSUME UpInv, NEW r \in Requests,
           \/ Start(r) \/ Choose(r) \/ Attempt(r) \/ CloseBody(r)
           \/ ShowError(r) \/ HangUp(r)
    PROVE  OthersKeep(r)
<1> USE DEF UpInv, CoreType, OthersKeep, Goto, Leave
<1>1. CASE Start(r) \/ HangUp(r)
  BY <1>1 DEF Start, HangUp
<1>2. CASE Look(r) \/ SecondPass(r) \/ NothingFound(r)
  BY <1>2 DEF Look, SecondPass, NothingFound
<1>3. CASE Pick(r) \/ PickLeast(r)
  <2>1. CASE Pick(r)
    BY <2>1 DEF Pick
  <2>2. CASE PickLeast(r)
    BY <2>2 DEF PickLeast
  <2> QED
    BY <1>3, <2>1, <2>2
<1>4. CASE StartWeighing(r) \/ Weigh(r)
  <2>1. CASE StartWeighing(r)
    BY <2>1 DEF StartWeighing
  <2>2. CASE Weigh(r)
    BY <2>2 DEF Weigh
  <2> QED
    BY <1>4, <2>1, <2>2
<1>5. CASE Echo(r) \/ CloseBody(r) \/ ShowError(r)
  BY <1>5 DEF Echo, CloseBody, ShowError
<1>6. CASE Dial(r) \/ AttemptReturns(r) \/ AttemptFails(r) \/ RecordSuccess(r)
  BY <1>6 DEF Dial, AttemptReturns, AttemptFails, RecordSuccess
<1>7. CASE RecordFailure(r)
  BY <1>7 DEF RecordFailure
<1> QED
  BY <1>1, <1>2, <1>3, <1>4, <1>5, <1>6, <1>7 DEF Choose, Attempt

(* Looking for a node is invisible, and so is recording what an attempt    *)
(* has found, unless it was the last.                                      *)
LEMMA QuietSteps ==
    ASSUME UpInv, NEW r \in Requests,
           \/ Look(r) \/ SecondPass(r) \/ Pick(r) \/ StartWeighing(r)
           \/ Weigh(r) \/ PickLeast(r) \/ AttemptReturns(r) \/ HangUp(r)
           \/ RecordFailure(r) /\ tries[r] + 1 < Attempts(r)
    PROVE  UNCHANGED F!failoverVars
<1>1. OthersKeep(r)
  BY RequestFrames DEF Choose, Attempt
<1>2. UNCHANGED conns
  BY DEF Look, SecondPass, Pick, StartWeighing, Weigh, PickLeast,
         AttemptReturns, HangUp, RecordFailure, poolVars
<1>3. Phase(r)' = Phase(r) /\ Failed(r)' = Failed(r) /\ At(r)' = At(r)
  <2>1. CASE Look(r) \/ SecondPass(r) \/ Weigh(r) \/ HangUp(r)
    BY <2>1, MappedStays DEF Look, SecondPass, Weigh, HangUp
  <2>2. CASE Pick(r) \/ StartWeighing(r) \/ PickLeast(r)
    <3>1. /\ pc[r] \in {"scan", "weigh"}
          /\ pc'[r] \in {"picked", "weigh"}
          /\ exclude'[r] = exclude[r]
      BY <2>2 DEF UpInv, CoreType, Pick, StartWeighing, PickLeast, Goto
    <3> QED
      BY <3>1 DEF Phase, Failed, At
  <2>3. CASE AttemptReturns(r)
    BY <2>3 DEF UpInv, CoreType, AttemptReturns, Goto, Phase, Failed, At
  <2>4. CASE RecordFailure(r) /\ tries[r] + 1 < Attempts(r)
    BY <2>4 DEF UpInv, CoreType, RecordFailure, Goto, Phase, Failed, At
  <2> QED
    BY <2>1, <2>2, <2>3, <2>4
<1> QED
  BY <1>1, <1>2, <1>3, Stutters

LEMMA StartRefined ==
    ASSUME UpInv, NEW r \in Requests, Start(r)
    PROVE  F!Arrive(r)
<1>1. /\ Phase(r) = "idle" /\ Phase(r)' = "trying"
      /\ Failed(r)' = Failed(r) /\ At(r)' = At(r)
  BY DEF UpInv, CoreType, Start, Goto, Phase, Failed, At
<1>2. OthersKeep(r) /\ UNCHANGED conns
  BY RequestFrames DEF Start, poolVars
<1> QED
  BY <1>1, <1>2, MappedMoves DEF F!Arrive

(* The two copies of the standard operator are one. *)
LEMMA SameCardinality == \A S : F!Cardinality(S) = Cardinality(S)
  BY DEF F!Cardinality, Cardinality

LEMMA DialRefined ==
    ASSUME UpInv, NEW r \in Requests, Dial(r)
    PROVE  F!Attach(r)
<1>1. /\ Phase(r) = "trying" /\ Phase(r)' = "trying"
      /\ Failed(r) = exclude[r] /\ Failed(r)' = Failed(r)
      /\ At(r) = None /\ At(r)' = node[r]
  BY DEF UpInv, CoreType, Dial, Goto, Phase, Failed, At
<1>2. OthersKeep(r)
  BY RequestFrames DEF Attempt
<1>3. /\ node[r] \in Nodes \ exclude[r]
      /\ Cardinality(exclude[r]) < Attempts(r)
  BY DEF UpInv, RequestOK, Dial
<1>4. conns' = [conns EXCEPT ![node[r]] = @ + 1]
  BY DEF Dial
<1>5. /\ [q \in Requests |-> Failed(q)][r] = exclude[r]
      /\ [q \in Requests |-> Attempts(q)][r] = Attempts(r)
  BY <1>1
<1>6. F!Cardinality([q \in Requests |-> Failed(q)][r])
        < [q \in Requests |-> Attempts(q)][r]
  BY <1>3, <1>5, SameCardinality
<1>7. /\ [q \in Requests |-> At(q)]'
           = [[q \in Requests |-> At(q)] EXCEPT ![r] = node[r]]
      /\ UNCHANGED [q \in Requests |-> Phase(q)]
      /\ UNCHANGED [q \in Requests |-> Failed(q)]
  BY <1>1, <1>2, MappedMoves
<1>8. \E b \in Nodes \ [q \in Requests |-> Failed(q)][r] :
         /\ [q \in Requests |-> At(q)]'
              = [[q \in Requests |-> At(q)] EXCEPT ![r] = b]
         /\ conns' = [conns EXCEPT ![b] = @ + 1]
  BY <1>3, <1>4, <1>5, <1>7
<1>9. /\ [q \in Requests |-> Phase(q)][r] = "trying"
      /\ [q \in Requests |-> At(q)][r] = None
  BY <1>1
<1> QED
  BY <1>6, <1>7, <1>8, <1>9 DEF F!Attach

LEMMA AttemptFailsRefined ==
    ASSUME UpInv, NEW r \in Requests, AttemptFails(r)
    PROVE  F!Fail(r)
<1>1. /\ Phase(r) = "trying" /\ Phase(r)' = "trying"
      /\ At(r) = node[r] /\ At(r)' = None
      /\ Failed(r)' = Failed(r) \cup {node[r]}
  BY DEF UpInv, CoreType, AttemptFails, Goto, Phase, Failed, At
<1>2. OthersKeep(r)
  BY RequestFrames DEF Attempt
<1>3. node[r] \in Nodes
  BY DEF UpInv, RequestOK, AttemptFails
<1>4. conns' = [conns EXCEPT ![node[r]] = @ - 1]
  BY DEF AttemptFails
<1> QED
  BY <1>1, <1>2, <1>3, <1>4, MappedMoves DEF F!Fail

LEMMA RecordSuccessRefined ==
    ASSUME UpInv, NEW r \in Requests, RecordSuccess(r)
    PROVE  F!Serve(r)
<1>1. /\ Phase(r) = "trying" /\ Phase(r)' = "served"
      /\ At(r) = node[r] /\ At(r)' = At(r)
      /\ Failed(r)' = Failed(r)
  BY DEF UpInv, CoreType, RecordSuccess, Goto, Phase, Failed, At
<1>2. OthersKeep(r) /\ UNCHANGED conns
  BY RequestFrames DEF Attempt, RecordSuccess, poolVars
<1>3. node[r] \in Nodes
  BY DEF UpInv, RequestOK, RecordSuccess
<1> QED
  BY <1>1, <1>2, <1>3, MappedMoves DEF F!Serve

LEMMA CloseBodyRefined ==
    ASSUME UpInv, NEW r \in Requests, CloseBody(r)
    PROVE  F!Detach(r)
<1>1. /\ Phase(r) = "served" /\ Phase(r)' = "idle"
      /\ At(r) = node[r] /\ At(r)' = None
      /\ Failed(r)' = {}
  BY DEF UpInv, CoreType, CloseBody, Goto, Leave, Phase, Failed, At
<1>2. OthersKeep(r)
  BY RequestFrames
<1>3. conns' = [conns EXCEPT ![node[r]] = @ - 1]
  BY DEF CloseBody
<1> QED
  BY <1>1, <1>2, <1>3, MappedMoves DEF F!Detach

LEMMA RefusalRefined ==
    ASSUME UpInv, NEW r \in Requests,
           \/ NothingFound(r)
           \/ RecordFailure(r) /\ ~(tries[r] + 1 < Attempts(r))
    PROVE  F!Refuse(r)
<1>1. /\ Phase(r) = "trying" /\ Phase(r)' = "refused"
      /\ At(r) = None /\ At(r)' = At(r)
      /\ Failed(r)' = Failed(r)
  <2>1. CASE NothingFound(r)
    BY <2>1 DEF UpInv, CoreType, NothingFound, Goto, Phase, Failed, At
  <2>2. CASE RecordFailure(r) /\ ~(tries[r] + 1 < Attempts(r))
    BY <2>2 DEF UpInv, CoreType, RecordFailure, Goto, Phase, Failed, At
  <2> QED
    BY <2>1, <2>2
<1>2. OthersKeep(r) /\ UNCHANGED conns
  BY RequestFrames
  DEF Choose, Attempt, NothingFound, RecordFailure, poolVars
<1> QED
  BY <1>1, <1>2, MappedMoves DEF F!Refuse

LEMMA ShowErrorRefined ==
    ASSUME UpInv, NEW r \in Requests, ShowError(r)
    PROVE  F!Dismiss(r)
<1>1. /\ Phase(r) = "refused" /\ Phase(r)' = "idle"
      /\ At(r) = None /\ At(r)' = At(r)
      /\ Failed(r)' = {}
  BY DEF UpInv, CoreType, ShowError, Goto, Leave, Phase, Failed, At
<1>2. OthersKeep(r) /\ UNCHANGED conns
  BY RequestFrames DEF ShowError, poolVars
<1> QED
  BY <1>1, <1>2, MappedMoves DEF F!Dismiss

LEMMA EchoRefined ==
    ASSUME UpInv, NEW r \in Requests, Echo(r)
    PROVE  F!AnswerLocally(r)
<1>1. exclude[r] = {}
  <2>1. Cardinality(exclude[r]) = 0 /\ IsFiniteSet(exclude[r])
    BY ExcludeFinite DEF UpInv, RequestOK, Echo, Echoes
  <2> QED
    BY <2>1, FS_EmptySet
<1>2. /\ Phase(r) = "trying" /\ Phase(r)' = "idle"
      /\ At(r) = None /\ At(r)' = At(r)
      /\ Failed(r) = {} /\ Failed(r)' = Failed(r)
  BY <1>1 DEF UpInv, CoreType, Echo, Goto, Leave, Phase, Failed, At
<1>3. OthersKeep(r) /\ UNCHANGED conns
  BY RequestFrames DEF Attempt, Echo, poolVars
<1> QED
  BY <1>2, <1>3, MappedMoves DEF F!AnswerLocally

LEMMA FailoverRefined ==
    UpInv /\ [Next]_vars => [F!FailoverNext]_(F!failoverVars)
<1> SUFFICES ASSUME UpInv, [Next]_vars
             PROVE  F!FailoverNext \/ UNCHANGED F!failoverVars
  OBVIOUS
<1>1. ASSUME NEW r \in Requests, Start(r) \/ CloseBody(r) \/ ShowError(r)
      PROVE  F!FailoverNext
  BY <1>1, StartRefined, CloseBodyRefined, ShowErrorRefined
  DEF F!FailoverNext
<1>2. ASSUME NEW r \in Requests, Choose(r) \/ Attempt(r) \/ HangUp(r)
      PROVE  F!FailoverNext \/ UNCHANGED F!failoverVars
  <2>1. CASE \/ Look(r) \/ SecondPass(r) \/ Pick(r) \/ StartWeighing(r)
             \/ Weigh(r) \/ PickLeast(r) \/ AttemptReturns(r) \/ HangUp(r)
             \/ RecordFailure(r) /\ tries[r] + 1 < Attempts(r)
    BY <2>1, QuietSteps
  <2>2. CASE \/ NothingFound(r)
             \/ RecordFailure(r) /\ ~(tries[r] + 1 < Attempts(r))
    BY <2>2, RefusalRefined DEF F!FailoverNext
  <2>3. CASE Dial(r) \/ AttemptFails(r) \/ RecordSuccess(r) \/ Echo(r)
    BY <2>3, DialRefined, AttemptFailsRefined, RecordSuccessRefined,
       EchoRefined
    DEF F!FailoverNext
  <2> QED
    BY <1>2, <2>1, <2>2, <2>3 DEF Choose, Attempt
<1>3. CASE Check \/ ServerChanges \/ UNCHANGED vars
  <2>1. UNCHANGED requestVars /\ UNCHANGED conns
    BY <1>3
    DEF Check, Tick, ProbeInternal, ProbeAnswers, ProbeOK, ProbeBad,
        ServerChanges, vars, poolVars
  <2>2. ASSUME NEW q \in Requests
        PROVE  Phase(q)' = Phase(q) /\ Failed(q)' = Failed(q) /\ At(q)' = At(q)
    BY <2>1, MappedStays DEF requestVars
  <2> QED
    BY <2>1, <2>2 DEF F!failoverVars
<1> QED
  BY <1>1, <1>2, <1>3 DEF Next

(***************************************************************************)
(* Upstream implements Failover: choosing, judging and probing nodes are   *)
(* details of a pool that keeps the promises stated there.                 *)
(***************************************************************************)
THEOREM UpstreamImplementsFailover == Spec => ImplementsFailover
  BY UpAlways, InitRefined, FailoverRefined, PTL
  DEF Spec, ImplementsFailover, F!FailoverSpec

(***************************************************************************)
(* The connection counters of the proxy are exact, whatever fails, is      *)
(* retried or is given up: what FailoverProofs shows of every              *)
(* implementation of Failover, read back through the mapping.              *)
(***************************************************************************)
FP == INSTANCE FailoverProofs WITH
        Unattached <- None,
        Budget <- [r \in Requests |-> Attempts(r)],
        phase <- [r \in Requests |-> Phase(r)],
        failed <- [r \in Requests |-> Failed(r)],
        at <- [r \in Requests |-> At(r)],
        open <- conns

LEMMA FailoverAssumptions == FP!FailoverAssumption
<1>1. [r \in Requests |-> Attempts(r)] \in [Requests -> Nat]
  BY AttemptsType, RouteAssumption
<1> QED
  BY <1>1, RequestsAssumption, NoneIsNoNode
  DEF FP!FailoverAssumption, FP!IsFiniteSet, IsFiniteSet

LEMMA SameFailover == F!FailoverSpec <=> FP!FailoverSpec
<1>1. F!FailoverInit <=> FP!FailoverInit
  BY DEF F!FailoverInit, FP!FailoverInit
<1>2. F!FailoverNext <=> FP!FailoverNext
  BY DEF F!FailoverNext, FP!FailoverNext, F!Arrive, FP!Arrive, F!Attach,
         FP!Attach, F!Fail, FP!Fail, F!Serve, FP!Serve, F!Detach, FP!Detach,
         F!Refuse, FP!Refuse, F!Dismiss, FP!Dismiss, F!AnswerLocally,
         FP!AnswerLocally, F!Cardinality, FP!Cardinality
<1>3. [F!FailoverNext]_(F!failoverVars) <=> [FP!FailoverNext]_(FP!failoverVars)
  BY <1>2 DEF F!failoverVars, FP!failoverVars
<1> QED
  BY <1>1, <1>3, PTL DEF F!FailoverSpec, FP!FailoverSpec

THEOREM UpstreamConnsMatch == Spec => []ConnsMatch
<1>1. FP!OpenMatches => ConnsMatch
  <2> SUFFICES ASSUME FP!OpenMatches, NEW b \in Nodes
               PROVE  conns[b] = Cardinality(Holders(b))
    BY DEF ConnsMatch
  <2>1. {r \in Requests : [q \in Requests |-> At(q)][r] = b} = Holders(b)
    BY NoneIsNoNode DEF At, Holders
  <2>2. \A S : FP!Cardinality(S) = Cardinality(S)
    BY DEF FP!Cardinality, Cardinality
  <2>3. conns[b] = FP!Cardinality(Holders(b))
    BY <2>1 DEF FP!OpenMatches
  <2> QED
    BY <2>2, <2>3
<1>2. FP!FailoverSpec => [](FP!OpenMatches /\ FP!WithinBudget)
  BY FP!FailoverSafe, FailoverAssumptions
<1> QED
  BY <1>1, <1>2, SameFailover, UpstreamImplementsFailover, PTL
  DEF ImplementsFailover

------------------------------------------------------------------------------
(***************************************************************************)
(* Sums over finite sets.  SumFunctionOnSet is a fold, and the laws of     *)
(* folds are inductions; here each is a least counterexample: among the    *)
(* subsets for which a law fails there would be a smallest one.            *)
(***************************************************************************)
LEMMA SmallestSubset ==
    ASSUME NEW S, IsFiniteSet(S), NEW B, B \subseteq SUBSET S, B # {}
    PROVE  \E T \in B : \A U \in B : U \subseteq T => U = T
<1>1. FiniteSubsetsOf(S) = SUBSET S
  BY FS_FiniteSubsetsOfFinite
<1>2. IsWellFoundedOn(StrictSubsetOrdering(S), SUBSET S)
  BY <1>1, FS_StrictSubsetOrderingWellFounded
<1>3. PICK T \in B : \A U \in B : ~(<<U, T>> \in StrictSubsetOrdering(S))
  BY <1>2, WFMin
<1> QED
  BY <1>3 DEF StrictSubsetOrdering

(* The partial sums of f over the subsets of S, as the fold takes them.    *)
Taken(s) == CHOOSE x \in s : TRUE

ArePartialSums(it, f, S) ==
    it = [s \in SUBSET S |-> IF s = {} THEN 0 ELSE f[Taken(s)] + it[s \ {Taken(s)}]]

PartialSums(f, S) == CHOOSE it : ArePartialSums(it, f, S)

LEMMA TakenIsIn == \A s : s # {} => Taken(s) \in s
  BY DEF Taken

LEMMA SumIsPartialSum ==
    ASSUME NEW f, NEW S
    PROVE  SumFunctionOnSet(f, S) = PartialSums(f, S)[S]
  BY DEF SumFunctionOnSet, FoldFunctionOnSet, MapThenFoldSet, PartialSums,
         ArePartialSums, Taken

LEMMA PartialSumsAgree ==
    ASSUME NEW f, NEW S, IsFiniteSet(S), NEW g, ArePartialSums(g, f, S),
           NEW T \in SUBSET S, NEW h, ArePartialSums(h, f, T),
           NEW u \in SUBSET T
    PROVE  g[u] = h[u]
<1> DEFINE B == {s \in SUBSET T : g[s] # h[s]}
<1>1. IsFiniteSet(T)
  BY FS_Subset
<1>2. B = {}
  <2> SUFFICES ASSUME B # {} PROVE FALSE
    OBVIOUS
  <2>1. PICK s \in B : \A v \in B : v \subseteq s => v = s
    <3>1. B \subseteq SUBSET T
      OBVIOUS
    <3> HIDE DEF B
    <3> QED
      BY <3>1, <1>1, SmallestSubset
  <2>2. s \in SUBSET S /\ s \in SUBSET T
    OBVIOUS
  <2>3. CASE s = {}
    BY <2>2, <2>3 DEF ArePartialSums
  <2>4. CASE s # {}
    <3>1. Taken(s) \in s
      BY <2>4, TakenIsIn
    <3>2. s \ {Taken(s)} \in SUBSET T /\ s \ {Taken(s)} # s /\ s \ {Taken(s)} \subseteq s
      BY <3>1, <2>2
    <3>3. g[s \ {Taken(s)}] = h[s \ {Taken(s)}]
      BY <3>2, <2>1
    <3>4. g[s] = f[Taken(s)] + g[s \ {Taken(s)}]
      BY <2>2, <2>4 DEF ArePartialSums
    <3>5. h[s] = f[Taken(s)] + h[s \ {Taken(s)}]
      BY <2>2, <2>4 DEF ArePartialSums
    <3> QED
      BY <3>3, <3>4, <3>5
  <2> QED
    BY <2>3, <2>4
<1> QED
  BY <1>2

LEMMA PartialSumsExist ==
    ASSUME NEW f, NEW S, IsFiniteSet(S)
    PROVE  \E it : ArePartialSums(it, f, S)
<1> DEFINE B == {T \in SUBSET S : ~ \E it : ArePartialSums(it, f, T)}
<1> SUFFICES ASSUME B # {} PROVE FALSE
  OBVIOUS
<1>1. PICK T \in B : \A U \in B : U \subseteq T => U = T
  <2>1. B \subseteq SUBSET S
    OBVIOUS
  <2> HIDE DEF B
  <2> QED
    BY <2>1, SmallestSubset
<1>2. IsFiniteSet(T) /\ \A U \in SUBSET T : IsFiniteSet(U)
  BY FS_Subset
<1> DEFINE it(U) == CHOOSE g : ArePartialSums(g, f, U)
           G(U) == it(U)[U]
           new == [s \in SUBSET T |->
                      IF s = {} THEN 0 ELSE f[Taken(s)] + G(s \ {Taken(s)})]
<1>3. ASSUME NEW U \in SUBSET T, U # T
      PROVE  ArePartialSums(it(U), f, U)
  <2>1. U \notin B /\ U \in SUBSET S
    BY <1>1, <1>3
  <2> QED
    BY <2>1
<1>4. ASSUME NEW U \in SUBSET T, U # T
      PROVE  new[U] = G(U)
  <2>1. CASE U = {}
    <3>1. G(U) = 0 /\ new[U] = 0
      <4>1. ArePartialSums(it(U), f, U)
        BY <1>3, <1>4
      <4> HIDE DEF it
      <4> QED
        BY <4>1, <2>1 DEF ArePartialSums
    <3> QED
      BY <3>1
  <2>2. CASE U # {}
    <3> DEFINE V == U \ {Taken(U)}
    <3>1. Taken(U) \in U
      BY <2>2, TakenIsIn
    <3>2. V \in SUBSET U /\ V \in SUBSET T /\ V # T
      BY <3>1
    <3>3. ArePartialSums(it(U), f, U) /\ ArePartialSums(it(V), f, V)
      BY <1>3, <1>4, <3>2
    <3>4. it(U)[V] = it(V)[V]
      <4> HIDE DEF it, V
      <4> QED
        BY <3>2, <3>3, <1>2, PartialSumsAgree
    <3>5. it(U)[U] = f[Taken(U)] + it(U)[V]
      <4> HIDE DEF it
      <4> QED
        BY <2>2, <3>3 DEF ArePartialSums
    <3> QED
      BY <2>2, <3>4, <3>5
  <2> QED
    BY <2>1, <2>2
<1>5. ArePartialSums(new, f, T)
  <2>1. ASSUME NEW s \in SUBSET T, s # {}
        PROVE  new[s \ {Taken(s)}] = G(s \ {Taken(s)})
    <3>1. Taken(s) \in s
      BY <2>1, TakenIsIn
    <3>2. s \ {Taken(s)} \in SUBSET T /\ s \ {Taken(s)} # T
      BY <3>1
    <3> HIDE DEF new, G
    <3> QED
      BY <3>2, <1>4
  <2> HIDE DEF G
  <2>2. new = [s \in SUBSET T |->
                  IF s = {} THEN 0 ELSE f[Taken(s)] + new[s \ {Taken(s)}]]
    BY <2>1
  <2> QED
    BY <2>2 DEF ArePartialSums
<1> QED
  BY <1>1, <1>5

(* The recursion that the fold is meant to be. *)
LEMMA SumTaken ==
    ASSUME NEW f, NEW S, IsFiniteSet(S)
    PROVE  SumFunctionOnSet(f, S) =
              IF S = {} THEN 0
              ELSE f[Taken(S)] + SumFunctionOnSet(f, S \ {Taken(S)})
<1>1. \A T : IsFiniteSet(T) => ArePartialSums(PartialSums(f, T), f, T)
  BY PartialSumsExist DEF PartialSums
<1>2. CASE S = {}
  BY <1>1, <1>2, SumIsPartialSum DEF ArePartialSums
<1>3. CASE S # {}
  <2> DEFINE U == S \ {Taken(S)}
  <2>1. U \in SUBSET S /\ IsFiniteSet(U)
    BY FS_Subset
  <2>2. PartialSums(f, S)[S] = f[Taken(S)] + PartialSums(f, S)[U]
    BY <1>1, <1>3 DEF ArePartialSums
  <2>3. PartialSums(f, S)[U] = PartialSums(f, U)[U]
    <3> HIDE DEF U
    <3> QED
      BY <1>1, <2>1, PartialSumsAgree
  <2> QED
    BY <1>3, <2>2, <2>3, SumIsPartialSum
<1> QED
  BY <1>2, <1>3

(* What holds of a set whenever it holds of its proper subsets. *)
LEMMA SubsetInduction ==
    ASSUME NEW S, IsFiniteSet(S), NEW G,
           \A T \in SUBSET S : (\A U \in SUBSET T : U # T => U \in G) => T \in G
    PROVE  \A T \in SUBSET S : T \in G
<1> DEFINE B == {T \in SUBSET S : T \notin G}
<1> SUFFICES ASSUME B # {} PROVE FALSE
  OBVIOUS
<1>1. PICK T \in B : \A U \in B : U \subseteq T => U = T
  <2>1. B \subseteq SUBSET S
    OBVIOUS
  <2> HIDE DEF B
  <2> QED
    BY <2>1, SmallestSubset
<1>2. \A U \in SUBSET T : U # T => U \in G
  BY <1>1
<1> QED
  BY <1>1, <1>2

LEMMA SumEmpty == \A f : SumFunctionOnSet(f, {}) = 0
  BY SumTaken, FS_EmptySet

LEMMA SumType ==
    ASSUME NEW f, NEW S, IsFiniteSet(S), \A x \in S : f[x] \in Int
    PROVE  SumFunctionOnSet(f, S) \in Int
<1> DEFINE G == {T \in SUBSET S : SumFunctionOnSet(f, T) \in Int}
<1>1. ASSUME NEW T \in SUBSET S, \A U \in SUBSET T : U # T => U \in G
      PROVE  T \in G
  <2>1. CASE T = {}
    BY <2>1, SumEmpty
  <2>2. CASE T # {}
    <3>1. Taken(T) \in T
      BY <2>2, TakenIsIn
    <3>2. SumFunctionOnSet(f, T \ {Taken(T)}) \in Int
      BY <3>1, <1>1
    <3>3. IsFiniteSet(T) /\ f[Taken(T)] \in Int
      BY <3>1, FS_Subset
    <3> QED
      BY <2>2, <3>2, <3>3, SumTaken
  <2> QED
    BY <2>1, <2>2
<1> HIDE DEF G
<1>2. S \in G
  BY <1>1, SubsetInduction
<1> QED
  BY <1>2 DEF G

(* Any element may be taken first. *)
LEMMA SumOneOut ==
    ASSUME NEW f, NEW S, IsFiniteSet(S), \A x \in S : f[x] \in Int, NEW x \in S
    PROVE  SumFunctionOnSet(f, S) = f[x] + SumFunctionOnSet(f, S \ {x})
<1> DEFINE Sum(T) == SumFunctionOnSet(f, T)
           G == {T \in SUBSET S : \A y \in T : Sum(T) = f[y] + Sum(T \ {y})}
<1>1. \A T \in SUBSET S : IsFiniteSet(T) /\ Sum(T) \in Int
  BY FS_Subset, SumType
<1>2. \A T \in SUBSET S : T # {} => Sum(T) = f[Taken(T)] + Sum(T \ {Taken(T)})
  BY <1>1, SumTaken
<1> HIDE DEF Sum
<1>3. ASSUME NEW T \in SUBSET S, \A U \in SUBSET T : U # T => U \in G
      PROVE  T \in G
  <2> SUFFICES ASSUME NEW y \in T PROVE Sum(T) = f[y] + Sum(T \ {y})
    OBVIOUS
  <2> DEFINE t == Taken(T)
             V == (T \ {t}) \ {y}
  <2>1. t \in T /\ Sum(T) = f[t] + Sum(T \ {t})
    BY <1>2, TakenIsIn
  <2> HIDE DEF t
  <2>2. CASE y = t
    BY <2>1, <2>2
  <2>3. CASE y # t
    <3>1. Sum(T \ {t}) = f[y] + Sum(V)
      BY <2>1, <2>3, <1>3
    <3>2. Sum(T \ {y}) = f[t] + Sum(V)
      <4>1. T \ {y} \in G /\ t \in T \ {y}
        BY <2>1, <2>3, <1>3
      <4>2. (T \ {y}) \ {t} = V
        OBVIOUS
      <4> QED
        BY <4>1, <4>2
    <3>3. f[y] \in Int /\ f[t] \in Int /\ Sum(V) \in Int
      BY <1>1, <2>1
    <3> HIDE DEF V
    <3> QED
      BY <2>1, <3>1, <3>2, <3>3
  <2> QED
    BY <2>2, <2>3
<1> HIDE DEF G
<1>4. S \in G
  BY <1>3, SubsetInduction
<1> QED
  BY <1>4 DEF G, Sum

(* The four laws that follow are all of one shape: they hold of the empty  *)
(* set, and of a set if they hold of it without one of its elements.       *)
LEMMA ElementInduction ==
    ASSUME NEW S, IsFiniteSet(S), NEW G, {} \in G,
           \A T \in SUBSET S : \A x \in T : T \ {x} \in G => T \in G
    PROVE  S \in G
<1>1. ASSUME NEW T \in SUBSET S, \A U \in SUBSET T : U # T => U \in G
      PROVE  T \in G
  <2>1. ASSUME NEW x \in T PROVE T \in G
    <3>1. T \ {x} \in SUBSET T /\ T \ {x} # T
      OBVIOUS
    <3> QED
      BY <3>1, <1>1
  <2> QED
    BY <2>1
<1> QED
  BY <1>1, SubsetInduction

(* The elements of C get something more. *)
LEMMA SumRaised ==
    ASSUME NEW f, NEW w, NEW h, NEW S, IsFiniteSet(S), NEW C,
           \A x \in S : f[x] \in Int /\ w[x] \in Int,
           \A x \in S : h[x] = f[x] + (IF x \in C THEN w[x] ELSE 0)
    PROVE  SumFunctionOnSet(h, S)
              = SumFunctionOnSet(f, S) + SumFunctionOnSet(w, S \cap C)
<1> DEFINE Sum(k, T) == SumFunctionOnSet(k, T)
           G == {T \in SUBSET S : Sum(h, T) = Sum(f, T) + Sum(w, T \cap C)}
<1>1. \A T \in SUBSET S : IsFiniteSet(T) /\ IsFiniteSet(T \cap C)
  BY FS_Subset, FS_Intersection
<1>2. \A x \in S : h[x] \in Int
  OBVIOUS
<1>3. {} \in G
  BY SumEmpty
<1>4. ASSUME NEW T \in SUBSET S, NEW x \in T, T \ {x} \in G
      PROVE  T \in G
  <2>1. /\ Sum(h, T) = h[x] + Sum(h, T \ {x})
        /\ Sum(f, T) = f[x] + Sum(f, T \ {x})
    <3>1. IsFiniteSet(T) /\ \A y \in T : h[y] \in Int /\ f[y] \in Int
      BY <1>1, <1>2
    <3> QED
      BY <3>1, SumOneOut
  <2>2. Sum(w, T \cap C) = (IF x \in C THEN w[x] ELSE 0) + Sum(w, (T \ {x}) \cap C)
    <3>1. CASE x \in C
      <4>1. (T \cap C) \ {x} = (T \ {x}) \cap C /\ x \in T \cap C
        BY <3>1
      <4>2. \A y \in T \cap C : w[y] \in Int
        OBVIOUS
      <4> QED
        BY <3>1, <4>1, <4>2, <1>1, SumOneOut
    <3>2. CASE x \notin C
      <4>1. T \cap C = (T \ {x}) \cap C
        BY <3>2
      <4>2. Sum(w, T \cap C) \in Int
        BY <1>1, SumType
      <4> QED
        BY <3>2, <4>1, <4>2
    <3> QED
      BY <3>1, <3>2
  <2>3. /\ Sum(f, T \ {x}) \in Int /\ Sum(w, (T \ {x}) \cap C) \in Int
        /\ f[x] \in Int /\ w[x] \in Int
    <3>1. IsFiniteSet(T \ {x}) /\ IsFiniteSet((T \ {x}) \cap C)
      BY <1>1
    <3> QED
      BY <3>1, SumType
  <2>4. Sum(h, T \ {x}) = Sum(f, T \ {x}) + Sum(w, (T \ {x}) \cap C)
    BY <1>4
  <2>5. h[x] = f[x] + (IF x \in C THEN w[x] ELSE 0)
    OBVIOUS
  <2> HIDE DEF Sum
  <2>6. Sum(h, T) = Sum(f, T) + Sum(w, T \cap C)
    BY <2>1, <2>2, <2>3, <2>4, <2>5
  <2> QED
    BY <2>6
<1> HIDE DEF G
<1>5. S \in G
  BY <1>3, <1>4, ElementInduction
<1> QED
  BY <1>5 DEF G

LEMMA SumSame ==
    ASSUME NEW f, NEW h, NEW S, IsFiniteSet(S),
           \A x \in S : f[x] \in Int /\ h[x] = f[x]
    PROVE  SumFunctionOnSet(h, S) = SumFunctionOnSet(f, S)
<1>1. SumFunctionOnSet(h, S) = SumFunctionOnSet(f, S) + SumFunctionOnSet(f, S \cap {})
  BY SumRaised
<1> QED
  BY <1>1, SumEmpty, SumType

LEMMA SumSplit ==
    ASSUME NEW f, NEW S, IsFiniteSet(S), NEW C, \A x \in S : f[x] \in Int
    PROVE  SumFunctionOnSet(f, S)
              = SumFunctionOnSet(f, S \ C) + SumFunctionOnSet(f, S \cap C)
<1> DEFINE Sum(T) == SumFunctionOnSet(f, T)
           G == {T \in SUBSET S : Sum(T) = Sum(T \ C) + Sum(T \cap C)}
<1>1. \A T \in SUBSET S : /\ IsFiniteSet(T) /\ Sum(T) \in Int
                          /\ \A x \in T : Sum(T) = f[x] + Sum(T \ {x})
  BY FS_Subset, SumType, SumOneOut
<1>2. {} \in G
  BY SumEmpty
<1> HIDE DEF Sum
<1>3. ASSUME NEW T \in SUBSET S, NEW x \in T, T \ {x} \in G
      PROVE  T \in G
  <2>1. Sum(T) = f[x] + Sum(T \ {x}) /\ f[x] \in Int
    BY <1>1
  <2>2. Sum(T \ {x}) = Sum((T \ {x}) \ C) + Sum((T \ {x}) \cap C)
    BY <1>3
  <2>3. Sum((T \ {x}) \ C) \in Int /\ Sum((T \ {x}) \cap C) \in Int
    BY <1>1
  <2>4. CASE x \in C
    <3>1. (T \ {x}) \ C = T \ C /\ (T \ {x}) \cap C = (T \cap C) \ {x} /\ x \in T \cap C
      BY <2>4
    <3>2. Sum(T \cap C) = f[x] + Sum((T \ {x}) \cap C)
      BY <3>1, <1>1
    <3>3. Sum(T \ C) = Sum((T \ {x}) \ C)
      BY <3>1
    <3>4. Sum(T) = Sum(T \ C) + Sum(T \cap C)
      BY <2>1, <2>2, <2>3, <3>2, <3>3
    <3> QED
      BY <3>4
  <2>5. CASE x \notin C
    <3>1. (T \ {x}) \ C = (T \ C) \ {x} /\ (T \ {x}) \cap C = T \cap C /\ x \in T \ C
      BY <2>5
    <3>2. Sum(T \ C) = f[x] + Sum((T \ {x}) \ C)
      BY <3>1, <1>1
    <3>3. Sum(T \cap C) = Sum((T \ {x}) \cap C)
      BY <3>1
    <3>4. Sum(T) = Sum(T \ C) + Sum(T \cap C)
      BY <2>1, <2>2, <2>3, <3>2, <3>3
    <3> QED
      BY <3>4
  <2> QED
    BY <2>4, <2>5
<1> HIDE DEF G
<1>4. S \in G
  BY <1>2, <1>3, ElementInduction
<1> QED
  BY <1>4 DEF G, Sum

LEMMA SumAtMost ==
    ASSUME NEW f, NEW S, IsFiniteSet(S), NEW c \in Int,
           \A x \in S : f[x] \in Int /\ f[x] <= c
    PROVE  SumFunctionOnSet(f, S) <= Cardinality(S) * c
<1> DEFINE Sum(T) == SumFunctionOnSet(f, T)
           G == {T \in SUBSET S : Sum(T) <= Cardinality(T) * c}
<1>1. \A T \in SUBSET S : /\ IsFiniteSet(T) /\ Sum(T) \in Int
                          /\ \A x \in T : Sum(T) = f[x] + Sum(T \ {x})
  BY FS_Subset, SumType, SumOneOut
<1>2. {} \in G
  BY SumEmpty, FS_EmptySet
<1> HIDE DEF Sum
<1>3. ASSUME NEW T \in SUBSET S, NEW x \in T, T \ {x} \in G
      PROVE  T \in G
  <2> DEFINE n == Cardinality(T \ {x})
  <2>1. Sum(T) = f[x] + Sum(T \ {x}) /\ f[x] \in Int /\ f[x] <= c
    BY <1>1
  <2>2. Sum(T \ {x}) \in Int /\ Sum(T \ {x}) <= n * c
    BY <1>1, <1>3
  <2>3. Cardinality(T) = n + 1 /\ n \in Nat
    <3>1. IsFiniteSet(T) /\ IsFiniteSet(T \ {x})
      BY <1>1
    <3>2. Cardinality(T) \in Nat /\ Cardinality(T \ {x}) \in Nat
      BY <3>1, FS_CardinalityType
    <3>3. Cardinality(T \ {x}) = Cardinality(T) - 1
      BY <3>1, FS_RemoveElement
    <3> QED
      BY <3>2, <3>3
  <2> HIDE DEF n
  <2>4. (n + 1) * c = n * c + c /\ n * c \in Int
    BY <2>3
  <2>5. Sum(T) <= (n + 1) * c
    BY <2>1, <2>2, <2>4
  <2> QED
    BY <2>3, <2>5
<1> HIDE DEF G
<1>4. S \in G
  BY <1>2, <1>3, ElementInduction
<1> QED
  BY <1>4 DEF G, Sum

LEMMA SumNat ==
    ASSUME NEW f, NEW S, IsFiniteSet(S), \A x \in S : f[x] \in Nat
    PROVE  SumFunctionOnSet(f, S) \in Nat
<1> DEFINE G == {T \in SUBSET S : SumFunctionOnSet(f, T) \in Nat}
<1>1. {} \in G
  BY SumEmpty
<1>2. ASSUME NEW T \in SUBSET S, NEW x \in T, T \ {x} \in G
      PROVE  T \in G
  <2>1. IsFiniteSet(T) /\ f[x] \in Nat /\ SumFunctionOnSet(f, T \ {x}) \in Nat
    BY <1>2, FS_Subset
  <2>2. SumFunctionOnSet(f, T) = f[x] + SumFunctionOnSet(f, T \ {x})
    BY <2>1, SumOneOut
  <2> QED
    BY <2>1, <2>2
<1> HIDE DEF G
<1>3. S \in G
  BY <1>1, <1>2, ElementInduction
<1> QED
  BY <1>3 DEF G

LEMMA SumMonotone ==
    ASSUME NEW f, NEW S, IsFiniteSet(S), NEW C \in SUBSET S, \A x \in S : f[x] \in Nat
    PROVE  SumFunctionOnSet(f, C) <= SumFunctionOnSet(f, S)
<1>1. S \cap C = C /\ IsFiniteSet(C) /\ IsFiniteSet(S \ C)
  BY FS_Subset
<1>2. SumFunctionOnSet(f, S) = SumFunctionOnSet(f, S \ C) + SumFunctionOnSet(f, C)
  BY <1>1, SumSplit
<1>3. SumFunctionOnSet(f, S \ C) \in Nat /\ SumFunctionOnSet(f, C) \in Nat
  BY <1>1, SumNat
<1> QED
  BY <1>2, <1>3
------------------------------------------------------------------------------
LEMMA TimesMonotone ==
    ASSUME NEW a \in Int, NEW b \in Int, NEW c \in Nat, a <= b
    PROVE  c * a <= c * b
<1>1. PICK d \in Nat : b = a + d
  <2>1. b - a \in Nat /\ b = a + (b - a)
    OBVIOUS
  <2> QED
    BY <2>1
<1>2. c * b = c * a + c * d /\ c * d \in Nat /\ c * a \in Int
  BY <1>1
<1> QED
  BY <1>2

(* The step of the induction in numbers.  Of k nodes, j were candidates    *)
(* and have x together, the others have y; the node picked has P, at least *)
(* what each of the j has.  With it the k would have their share and one   *)
(* T more, so without it they are within their own.                        *)
LEMMA ShareArithmetic ==
    ASSUME NEW x \in Int, NEW y \in Int, NEW P \in Int, NEW T \in Nat,
           NEW j \in Nat, NEW k \in Nat, NEW n \in Nat, j >= 1,
           x <= j * P,
           2 * (x + y + P) <= (k + 1) * (n - (k + 1)) * T + 2 * T,
           2 * y <= (k - j) * (n - (k - j)) * T
    PROVE  2 * (x + y) <= k * (n - k) * T
<1> DEFINE a == 2 * (x + y)
           b == k * (n - k) * T
           d == (k + 1) * (n - (k + 1)) * T + 2 * T
<1>1. a \in Int /\ b \in Int /\ d \in Int
  OBVIOUS
<1>2. j * (2 * (x + y + P)) <= j * d
  BY TimesMonotone
<1>3. (j + 1) * a = j * (2 * (x + y + P)) + 2 * (x - j * P) + 2 * y
  OBVIOUS
<1>4. j * d + (k - j) * (n - (k - j)) * T = (j + 1) * b - j * (j - 1) * T
  OBVIOUS
<1>5. j * (j - 1) * T \in Nat
  OBVIOUS
<1>6. (j + 1) * a <= (j + 1) * b
  <2> DEFINE u == j * (2 * (x + y + P))
             v == (k - j) * (n - (k - j)) * T
             w == j * (j - 1) * T
             e == j * d
             f == (j + 1) * a
             g == (j + 1) * b
             h == x - j * P
  <2>1. /\ u \in Int /\ v \in Int /\ w \in Nat /\ e \in Int /\ f \in Int
        /\ g \in Int /\ h \in Int /\ h <= 0
    BY <1>1, <1>5
  <2>2. u <= e /\ 2 * y <= v /\ f = u + 2 * h + 2 * y /\ e + v = g - w
    BY <1>2, <1>3, <1>4
  <2> HIDE DEF u, v, w, e, f, g, h
  <2>3. f <= g
    BY <2>1, <2>2
  <2> QED
    BY <2>3 DEF f, g
<1> HIDE DEF a, b, d
<1>7. ~(b + 1 <= a)
  <2> SUFFICES ASSUME b + 1 <= a PROVE FALSE
    OBVIOUS
  <2>1. (j + 1) * (b + 1) <= (j + 1) * a
    BY <1>1, TimesMonotone
  <2>2. (j + 1) * (b + 1) = (j + 1) * b + (j + 1) /\ (j + 1) * b \in Int /\ (j + 1) * a \in Int
    BY <1>1
  <2> QED
    BY <1>6, <2>1, <2>2
<1>8. a <= b
  BY <1>1, <1>7
<1> QED
  BY <1>8 DEF a, b
------------------------------------------------------------------------------
(***************************************************************************)
(* The cursors.  What the proof carries along is a bound for every set of  *)
(* nodes, which the bound of each one follows from: together k of the N    *)
(* nodes are never ahead by more than k * (N - k) / 2 times the weight of  *)
(* the pool.                                                               *)
(***************************************************************************)
Share(k) == k * (N - k) * TotalWeight(Nodes)

Balanced(c) ==
    /\ c \in [Nodes -> Int]
    /\ SumFunctionOnSet(c, Nodes) = 0
    /\ \A A \in SUBSET Nodes :
          2 * SumFunctionOnSet(c, A) <= Share(Cardinality(A))

LEMMA NodeSets ==
    /\ N \in Nat
    /\ IsFiniteSet(Nodes) /\ Cardinality(Nodes) = N
    /\ \A A \in SUBSET Nodes : IsFiniteSet(A) /\ Cardinality(A) \in Nat
    /\ \A A \in SUBSET Nodes, b \in Nodes : IsFiniteSet(A \cup {b})
<1>1. N \in Nat /\ IsFiniteSet(Nodes) /\ Cardinality(Nodes) = N
  BY NodesAssumption, FS_Interval DEF Nodes
<1>2. \A A \in SUBSET Nodes : IsFiniteSet(A) /\ Cardinality(A) \in Nat
  BY <1>1, FS_Subset, FS_CardinalityType
<1>3. \A A \in SUBSET Nodes, b \in Nodes : A \cup {b} \in SUBSET Nodes
  OBVIOUS
<1> QED
  BY <1>1, <1>2, <1>3

LEMMA WeightSums ==
    /\ TotalWeight(Nodes) \in Nat
    /\ \A A \in SUBSET Nodes :
          /\ SumFunctionOnSet(Weight, A) = TotalWeight(A)
          /\ TotalWeight(A) \in Nat
          /\ TotalWeight(A) <= TotalWeight(Nodes)
          /\ \A C \in SUBSET A : TotalWeight(C) <= TotalWeight(A)
<1>1. \A b \in Nodes : Weight[b] \in Nat
  BY RouteAssumption
<1>2. \A A \in SUBSET Nodes : TotalWeight(A) \in Nat
  BY <1>1, NodeSets, SumNat DEF TotalWeight
<1>3. ASSUME NEW A \in SUBSET Nodes, NEW C \in SUBSET A
      PROVE  TotalWeight(C) <= TotalWeight(A)
  <2>1. IsFiniteSet(A) /\ \A b \in A : Weight[b] \in Nat
    BY <1>1, NodeSets
  <2> QED
    BY <2>1, SumMonotone DEF TotalWeight
<1> QED
  BY <1>2, <1>3 DEF TotalWeight

LEMMA RaisedSum ==
    ASSUME NEW c \in [Nodes -> Int], NEW C \in SUBSET Nodes
    PROVE  /\ Raised(c, C) \in [Nodes -> Int]
           /\ \A A \in SUBSET Nodes :
                 SumFunctionOnSet(Raised(c, C), A)
                    = SumFunctionOnSet(c, A) + TotalWeight(A \cap C)
<1> DEFINE w == Raised(c, C)
<1>1. \A b \in Nodes : Weight[b] \in Nat /\ c[b] \in Int
  BY RouteAssumption
<1>2. w = [b \in Nodes |-> c[b] + (IF b \in C THEN Weight[b] ELSE 0)]
  BY DEF Raised
<1>3. w \in [Nodes -> Int]
  BY <1>1, <1>2
<1>4. \A b \in Nodes : w[b] = c[b] + (IF b \in C THEN Weight[b] ELSE 0)
  BY <1>2
<1> HIDE DEF w
<1>5. ASSUME NEW A \in SUBSET Nodes
      PROVE  SumFunctionOnSet(w, A) = SumFunctionOnSet(c, A) + TotalWeight(A \cap C)
  <2>1. /\ IsFiniteSet(A)
        /\ \A b \in A : c[b] \in Int /\ Weight[b] \in Int
        /\ \A b \in A : w[b] = c[b] + (IF b \in C THEN Weight[b] ELSE 0)
    BY <1>1, <1>4, NodeSets
  <2> QED
    BY <2>1, SumRaised DEF TotalWeight
<1> QED
  BY <1>3, <1>5 DEF w

(* The node that is picked pays, and no other does. *)
LEMMA ChargedSum ==
    ASSUME NEW c \in [Nodes -> Int], NEW C \in SUBSET Nodes, NEW p \in C
    PROVE  /\ Charged(p, c, C) \in [Nodes -> Int]
           /\ \A A \in SUBSET Nodes :
                 /\ p \notin A => SumFunctionOnSet(Charged(p, c, C), A)
                       = SumFunctionOnSet(c, A) + TotalWeight(A \cap C)
                 /\ p \in A => SumFunctionOnSet(Charged(p, c, C), A)
                       = SumFunctionOnSet(c, A) + TotalWeight(A \cap C) - TotalWeight(C)
<1> DEFINE w == Raised(c, C)
           v == Charged(p, c, C)
           d == TotalWeight(C)
<1>1. /\ w \in [Nodes -> Int] /\ p \in Nodes /\ d \in Nat
      /\ v = [w EXCEPT ![p] = w[p] - d]
  BY RaisedSum, WeightSums DEF Charged
<1>2. /\ v \in [Nodes -> Int] /\ v[p] = w[p] - d
      /\ \A b \in Nodes \ {p} : v[b] = w[b]
  BY <1>1
<1>3. \A A \in SUBSET Nodes :
         /\ SumFunctionOnSet(w, A) = SumFunctionOnSet(c, A) + TotalWeight(A \cap C)
         /\ SumFunctionOnSet(c, A) \in Int /\ TotalWeight(A \cap C) \in Int
  <2>1. ASSUME NEW A \in SUBSET Nodes
        PROVE  /\ IsFiniteSet(A) /\ \A b \in A : c[b] \in Int
               /\ A \cap C \in SUBSET Nodes
    BY NodeSets
  <2> QED
    BY <2>1, RaisedSum, WeightSums, SumType
<1> HIDE DEF w, v, d
<1>4. ASSUME NEW A \in SUBSET Nodes
      PROVE  /\ p \notin A => SumFunctionOnSet(v, A)
                   = SumFunctionOnSet(c, A) + TotalWeight(A \cap C)
             /\ p \in A => SumFunctionOnSet(v, A)
                   = SumFunctionOnSet(c, A) + TotalWeight(A \cap C) - d
  <2> DEFINE A0 == A \ {p}
             Sw == SumFunctionOnSet(w, A)
             Sc == SumFunctionOnSet(c, A)
             Sv == SumFunctionOnSet(v, A)
  <2>1. /\ IsFiniteSet(A) /\ IsFiniteSet(A0)
        /\ \A b \in A : v[b] \in Int /\ w[b] \in Int
        /\ \A b \in A0 : w[b] \in Int /\ v[b] = w[b]
    BY <1>1, <1>2, NodeSets
  <2>2. SumFunctionOnSet(v, A0) = SumFunctionOnSet(w, A0)
    <3> HIDE DEF A0
    <3> QED
      BY <2>1, SumSame
  <2>3. SumFunctionOnSet(w, A0) \in Int
    <3> HIDE DEF A0
    <3> QED
      BY <2>1, SumType
  <2>4. Sw = Sc + TotalWeight(A \cap C) /\ Sc \in Int /\ TotalWeight(A \cap C) \in Int
    BY <1>3
  <2>5. CASE p \in A
    <3>1. /\ Sv = v[p] + SumFunctionOnSet(v, A0)
          /\ Sw = w[p] + SumFunctionOnSet(w, A0)
      BY <2>1, <2>5, SumOneOut
    <3>2. w[p] \in Int
      BY <1>1
    <3> HIDE DEF A0, Sw, Sc, Sv
    <3>3. Sv = Sc + TotalWeight(A \cap C) - d
      BY <1>1, <1>2, <2>2, <2>3, <2>4, <3>1, <3>2
    <3> QED
      BY <2>5, <3>3 DEF Sv, Sc
  <2>6. CASE p \notin A
    <3>1. A0 = A
      BY <2>6
    <3>2. Sv = Sw
      BY <2>2, <3>1
    <3> QED
      BY <2>4, <2>6, <3>2
  <2> QED
    BY <2>5, <2>6
<1>5. Charged(p, c, C) \in [Nodes -> Int]
  BY <1>2 DEF v
<1>6. ASSUME NEW A \in SUBSET Nodes
      PROVE  /\ p \notin A => SumFunctionOnSet(Charged(p, c, C), A)
                   = SumFunctionOnSet(c, A) + TotalWeight(A \cap C)
             /\ p \in A => SumFunctionOnSet(Charged(p, c, C), A)
                   = SumFunctionOnSet(c, A) + TotalWeight(A \cap C) - TotalWeight(C)
  BY <1>4 DEF v, d
<1> QED
  BY <1>5, <1>6

(* The weights of the candidates are shared out and paid back. *)
LEMMA BalancedCharged ==
    ASSUME NEW c, Balanced(c), NEW C \in SUBSET Nodes, NEW p \in C,
           IsHeaviest(p, c, C)
    PROVE  Balanced(Charged(p, c, C))
<1> DEFINE w == Raised(c, C)
           v == Charged(p, c, C)
           d == TotalWeight(C)
           T == TotalWeight(Nodes)
           S(f, A) == SumFunctionOnSet(f, A)
<1>1. c \in [Nodes -> Int] /\ v \in [Nodes -> Int] /\ w \in [Nodes -> Int]
  BY RaisedSum, ChargedSum DEF Balanced
<1>2. T \in Nat /\ d \in Nat /\ p \in Nodes
  BY WeightSums
<1>3. \A A \in SUBSET Nodes :
         /\ S(w, A) = S(c, A) + TotalWeight(A \cap C)
         /\ p \notin A => S(v, A) = S(c, A) + TotalWeight(A \cap C)
         /\ p \in A => S(v, A) = S(c, A) + TotalWeight(A \cap C) - d
  <2> SUFFICES ASSUME NEW A \in SUBSET Nodes
               PROVE  /\ S(w, A) = S(c, A) + TotalWeight(A \cap C)
                      /\ p \notin A => S(v, A) = S(c, A) + TotalWeight(A \cap C)
                      /\ p \in A => S(v, A) = S(c, A) + TotalWeight(A \cap C) - d
    OBVIOUS
  <2>1. S(w, A) = S(c, A) + TotalWeight(A \cap C)
    BY <1>1, RaisedSum
  <2>2. c \in [Nodes -> Int]
    BY <1>1
  <2>3. p \notin A => S(v, A) = S(c, A) + TotalWeight(A \cap C)
    BY <2>2, ChargedSum
  <2>4. p \in A => S(v, A) = S(c, A) + TotalWeight(A \cap C) - d
    BY <2>2, ChargedSum
  <2> QED
    BY <2>1, <2>3, <2>4
<1>4. \A A \in SUBSET Nodes :
         /\ S(c, A) \in Int /\ S(w, A) \in Int /\ S(v, A) \in Int
         /\ TotalWeight(A \cap C) \in Nat /\ TotalWeight(A \cap C) <= d
         /\ TotalWeight(A \cap C) <= T
  <2>1. ASSUME NEW A \in SUBSET Nodes
        PROVE  /\ IsFiniteSet(A) /\ A \cap C \in SUBSET C /\ A \cap C \in SUBSET Nodes
               /\ \A b \in A : c[b] \in Int /\ w[b] \in Int /\ v[b] \in Int
    BY <1>1, NodeSets
  <2> HIDE DEF w, v
  <2> QED
    BY <2>1, WeightSums, SumType
<1>5. \A b \in C : w[b] \in Int /\ w[b] <= w[p]
  BY <1>1, <1>2 DEF IsHeaviest
<1>6. S(v, Nodes) = 0
  <2>1. Nodes \cap C = C /\ p \in Nodes
    OBVIOUS
  <2>2. S(v, Nodes) = S(c, Nodes) + d - d /\ S(c, Nodes) = 0
    BY <1>3, <2>1 DEF Balanced
  <2> HIDE DEF S
  <2> QED
    BY <1>2, <2>2
<1>7. \A A \in SUBSET Nodes : 2 * S(c, A) <= Share(Cardinality(A))
  BY DEF Balanced
<1> HIDE DEF w, v, d, T, S
<1>8. ASSUME NEW A \in SUBSET Nodes
      PROVE  2 * S(v, A) <= Share(Cardinality(A))
  <2> DEFINE k == Cardinality(A)
             j == Cardinality(A \cap C)
  <2>1. /\ IsFiniteSet(A) /\ IsFiniteSet(A \cap C) /\ N \in Nat
        /\ k \in Nat /\ j \in Nat /\ Cardinality(A \ C) = k - j
        /\ Share(k) \in Int
    <3>1. IsFiniteSet(A) /\ k \in Nat /\ N \in Nat
      BY NodeSets
    <3>2. IsFiniteSet(A \cap C) /\ j \in Nat
      BY <3>1, FS_Intersection, FS_CardinalityType
    <3>3. Cardinality(A \ C) = k - j
      BY <3>1, FS_Difference
    <3>4. Share(k) \in Int
      BY <3>1, <1>2 DEF Share, T
    <3> QED
      BY <3>1, <3>2, <3>3, <3>4
  <2>2. CASE p \in A
    <3>1. S(v, A) = S(c, A) + TotalWeight(A \cap C) - d /\ 2 * S(c, A) <= Share(k)
      BY <1>3, <1>7, <2>2
    <3>2. S(c, A) \in Int /\ TotalWeight(A \cap C) \in Nat /\ TotalWeight(A \cap C) <= d
      BY <1>4
    <3> HIDE DEF k
    <3>3. 2 * S(v, A) <= Share(k)
      BY <1>2, <2>1, <3>1, <3>2
    <3> QED
      BY <3>3 DEF k
  <2>3. CASE p \notin A /\ A \cap C = {}
    <3>1. TotalWeight({}) = 0
      BY SumEmpty DEF TotalWeight
    <3> QED
      BY <1>3, <1>4, <1>7, <2>1, <2>3, <3>1
  (* Some of the candidates in A were passed over for p. *)
  <2>4. CASE p \notin A /\ A \cap C # {}
    <3> DEFINE x == S(w, A \cap C)
               y == S(c, A \ C)
               P == w[p]
               B == A \cup {p}
    <3>1. /\ B \in SUBSET Nodes /\ IsFiniteSet(B) /\ B \ {p} = A
          /\ Cardinality(B) = k + 1
      BY <1>2, <2>1, <2>4, NodeSets, FS_AddElement
    <3>2. /\ x \in Int /\ y \in Int /\ P \in Int
          /\ S(w, A \ C) = y
      <4>1. A \cap C \in SUBSET Nodes /\ A \ C \in SUBSET Nodes /\ (A \ C) \cap C = {}
        OBVIOUS
      <4>2. TotalWeight({}) = 0
        BY SumEmpty DEF TotalWeight
      <4>3. x \in Int /\ y \in Int /\ P \in Int
        BY <1>1, <1>2, <1>4, <4>1
      <4>4. S(w, A \ C) = S(c, A \ C) + TotalWeight((A \ C) \cap C)
        BY <1>3, <4>1
      <4>5. TotalWeight((A \ C) \cap C) = TotalWeight({})
        BY <4>1
      <4> QED
        BY <4>2, <4>3, <4>4, <4>5
    <3>3. S(w, A) = x + y
      <4>1. \A b \in A : w[b] \in Int
        BY <1>1
      <4>2. S(w, A) = S(w, A \ C) + S(w, A \cap C)
        BY <4>1, <2>1, SumSplit DEF S
      <4> QED
        BY <3>2, <4>2
    <3>4. S(w, B) = P + (x + y)
      <4>1. p \in B /\ \A b \in B : w[b] \in Int
        BY <1>1, <3>1
      <4>2. S(w, B) = w[p] + S(w, B \ {p})
        BY <4>1, <3>1, SumOneOut DEF S
      <4> QED
        BY <3>1, <3>3, <4>2
    <3>5. S(v, A) = x + y
      BY <1>3, <1>4, <2>4, <3>3
    <3>6. x <= j * P /\ j >= 1
      <4>1. \A b \in A \cap C : w[b] \in Int /\ w[b] <= P
        BY <1>5
      <4>2. x <= j * P
        <5> HIDE DEF P
        <5> QED
          BY <4>1, <2>1, <3>2, SumAtMost DEF S
      <4>3. j # 0
        BY <2>1, <2>4, FS_EmptySet
      <4> QED
        BY <2>1, <4>2, <4>3
    <3>7. 2 * (x + y + P) <= (k + 1) * (N - (k + 1)) * T + 2 * T
      <4>1. 2 * S(c, B) <= (k + 1) * (N - (k + 1)) * T
        BY <1>7, <3>1 DEF Share, T
      <4>2. S(w, B) <= S(c, B) + T /\ S(c, B) \in Int
        <5>1. /\ S(w, B) = S(c, B) + TotalWeight(B \cap C)
              /\ S(c, B) \in Int
              /\ TotalWeight(B \cap C) \in Nat /\ TotalWeight(B \cap C) <= T
          BY <1>3, <1>4, <3>1
        <5> QED
          BY <1>2, <5>1
      <4>3. (k + 1) * (N - (k + 1)) * T \in Int
        BY <1>2, <2>1
      <4> HIDE DEF x, y, P, k, B
      <4> QED
        BY <1>2, <3>2, <3>4, <4>1, <4>2, <4>3
    <3>8. 2 * y <= (k - j) * (N - (k - j)) * T
      <4>1. A \ C \in SUBSET Nodes
        OBVIOUS
      <4> QED
        BY <1>7, <2>1, <4>1 DEF Share, T
    <3>9. 2 * (x + y) <= k * (N - k) * T
      <4> HIDE DEF x, y, P, k, j
      <4> QED
        BY <1>2, <2>1, <3>2, <3>6, <3>7, <3>8, ShareArithmetic
    <3> QED
      BY <3>5, <3>9 DEF Share, T
  <2> QED
    BY <2>2, <2>3, <2>4
<1> QED
  BY <1>1, <1>6, <1>8 DEF Balanced, S, v

LEMMA CursorInit == Init => Balanced(curW)
<1> SUFFICES ASSUME Init PROVE Balanced(curW)
  OBVIOUS
<1>1. curW = [b \in Nodes |-> 0] /\ curW \in [Nodes -> Int]
  BY DEF Init
<1>2. \A A \in SUBSET Nodes : SumFunctionOnSet(curW, A) = 0
  <2> SUFFICES ASSUME NEW A \in SUBSET Nodes PROVE SumFunctionOnSet(curW, A) = 0
    OBVIOUS
  <2>1. IsFiniteSet(A) /\ \A b \in A : curW[b] \in Nat /\ curW[b] \in Int /\ curW[b] <= 0
    BY <1>1, NodeSets
  <2>2. SumFunctionOnSet(curW, A) \in Nat
    BY <2>1, SumNat
  <2>3. SumFunctionOnSet(curW, A) <= Cardinality(A) * 0
    BY <2>1, SumAtMost
  <2>4. Cardinality(A) * 0 = 0
    BY NodeSets
  <2> QED
    BY <2>2, <2>3, <2>4
<1>3. \A k \in 0..N : Share(k) \in Nat
  <2> SUFFICES ASSUME NEW k \in 0..N PROVE Share(k) \in Nat
    OBVIOUS
  <2>1. k \in Nat /\ N - k \in Nat /\ TotalWeight(Nodes) \in Nat
    BY NodeSets, WeightSums
  <2> QED
    BY <2>1 DEF Share
<1>4. \A A \in SUBSET Nodes : Cardinality(A) \in 0..N
  <2> SUFFICES ASSUME NEW A \in SUBSET Nodes PROVE Cardinality(A) \in 0..N
    OBVIOUS
  <2>1. Cardinality(A) <= Cardinality(Nodes)
    BY NodeSets, FS_Subset
  <2> QED
    BY <2>1, NodeSets
<1> QED
  BY <1>1, <1>2, <1>3, <1>4 DEF Balanced

(* The cursors move in a weighted pick only. *)
LEMMA CursorMoves ==
    ASSUME UpInv, [Next]_vars
    PROVE  \/ UNCHANGED curW
           \/ \E C \in SUBSET Nodes : \E p \in C :
                 IsHeaviest(p, curW, C) /\ curW' = Charged(p, curW, C)
<1>1. ASSUME NEW r \in Requests, Pick(r)
      PROVE  \/ UNCHANGED curW
             \/ \E C \in SUBSET Nodes : \E p \in C :
                   IsHeaviest(p, curW, C) /\ curW' = Charged(p, curW, C)
  <2>1. scan[r].cands \in SUBSET Nodes
    BY DEF UpInv, CoreType, Scans
  <2>2. PICK b \in scan[r].cands : Chosen(b, r)
    BY <1>1 DEF Pick
  <2> QED
    BY <2>1, <2>2, RouteAssumption DEF Chosen
<1>2. ASSUME NEW r \in Requests, Choose(r), ~Pick(r) PROVE UNCHANGED curW
  BY <1>2
  DEF Choose, Look, SecondPass, NothingFound, StartWeighing, Weigh, PickLeast,
      poolVars
<1>3. ASSUME NEW r \in Requests, Attempt(r) PROVE UNCHANGED curW
  BY <1>3
  DEF Attempt, Echo, Dial, AttemptReturns, AttemptFails, RecordFailure,
      RecordSuccess, poolVars
<1>4. ASSUME NEW r \in Requests,
             Start(r) \/ CloseBody(r) \/ ShowError(r) \/ HangUp(r)
      PROVE  UNCHANGED curW
  BY <1>4 DEF Start, CloseBody, ShowError, HangUp, poolVars
<1>5. ASSUME Check \/ ServerChanges \/ UNCHANGED vars PROVE UNCHANGED curW
  BY <1>5
  DEF Check, Tick, ProbeInternal, ProbeAnswers, ProbeOK, ProbeBad,
      ServerChanges, vars, poolVars
<1> QED
  BY <1>1, <1>2, <1>3, <1>4, <1>5 DEF Next

LEMMA CursorAlways == Spec => []Balanced(curW)
<1>1. UpInv /\ Balanced(curW) /\ [Next]_vars => Balanced(curW)'
  <2> SUFFICES ASSUME UpInv, Balanced(curW), [Next]_vars
               PROVE  Balanced(curW)'
    OBVIOUS
  <2>1. CASE UNCHANGED curW
    BY <2>1 DEF Balanced
  <2>2. ASSUME NEW C \in SUBSET Nodes, NEW p \in C,
               IsHeaviest(p, curW, C), curW' = Charged(p, curW, C)
        PROVE  Balanced(curW')
    BY <2>2, BalancedCharged
  <2>3. Balanced(curW)' <=> Balanced(curW')
    BY DEF Balanced, Share
  <2> QED
    BY <2>1, <2>2, <2>3, CursorMoves
<1> QED
  BY <1>1, CursorInit, UpAlways, PTL DEF Spec

(***************************************************************************)
(* The weighted strategy gives and takes nothing for good: the cursors sum *)
(* to zero for any weights, whichever candidates the picks have found      *)
(* (upstream.go smoothWeighted).                                           *)
(***************************************************************************)
THEOREM UpstreamCursorBalance == Spec => []CursorBalance
<1>1. Balanced(curW) => CursorBalance
  BY DEF Balanced, CursorBalance, SumFunction
<1> QED
  BY <1>1, CursorAlways, PTL

(***************************************************************************)
(* No cursor runs away, however many nodes come and go and for however     *)
(* long: what one node is ahead the others are behind, and both are within *)
(* the bound on their set (upstream.go smoothWeighted).                    *)
(***************************************************************************)
THEOREM UpstreamCursorBound == Spec => []CursorBound
<1>1. ASSUME Balanced(curW), NEW b \in Nodes
      PROVE  LET most == (N - 1) * TotalWeight(Nodes)
             IN  -most <= 2 * curW[b] /\ 2 * curW[b] <= most
  <2> DEFINE T == TotalWeight(Nodes)
             rest == Nodes \ {b}
  <2>1. N \in Nat /\ N >= 1 /\ T \in Nat /\ curW[b] \in Int
    BY <1>1, NodesAssumption, WeightSums DEF Balanced
  <2>2. Cardinality({b}) = 1 /\ Cardinality(rest) = N - 1
    BY NodeSets, FS_Singleton, FS_RemoveElement
  <2>3. /\ SumFunctionOnSet(curW, {b}) = curW[b]
        /\ SumFunctionOnSet(curW, rest) = -curW[b]
    <3>1. IsFiniteSet({b}) /\ IsFiniteSet(rest) /\ IsFiniteSet(Nodes)
      BY NodeSets, FS_Singleton, FS_Subset
    <3>2. \A c \in Nodes : curW[c] \in Int
      BY <1>1 DEF Balanced
    <3>3. SumFunctionOnSet(curW, {b}) = curW[b] + SumFunctionOnSet(curW, {b} \ {b})
      BY <3>1, <3>2, SumOneOut
    <3>4. SumFunctionOnSet(curW, {b} \ {b}) = 0
      <4>1. {b} \ {b} = {}
        OBVIOUS
      <4> QED
        BY <4>1, SumEmpty
    <3>5. SumFunctionOnSet(curW, Nodes) = curW[b] + SumFunctionOnSet(curW, rest)
      BY <3>1, <3>2, SumOneOut
    <3>6. SumFunctionOnSet(curW, rest) \in Int
      BY <3>1, <3>2, SumType
    <3>7. SumFunctionOnSet(curW, Nodes) = 0
      BY <1>1 DEF Balanced
    <3> HIDE DEF rest
    <3> QED
      BY <2>1, <3>3, <3>4, <3>5, <3>6, <3>7
  <2>4. /\ 2 * SumFunctionOnSet(curW, {b}) <= Share(1)
        /\ 2 * SumFunctionOnSet(curW, rest) <= Share(N - 1)
    BY <1>1, <2>2 DEF Balanced
  <2>5. Share(1) = (N - 1) * T /\ Share(N - 1) = (N - 1) * T
    <3>1. N - (N - 1) = 1 /\ 1 * (N - 1) = N - 1 /\ (N - 1) * 1 = N - 1
      BY <2>1
    <3> QED
      BY <3>1 DEF Share
  <2>6. (N - 1) * T \in Int
    BY <2>1
  <2> HIDE DEF T, rest
  <2>7. -((N - 1) * T) <= 2 * curW[b] /\ 2 * curW[b] <= (N - 1) * T
    BY <2>1, <2>3, <2>4, <2>5, <2>6
  <2> QED
    BY <2>7 DEF T
<1>2. Balanced(curW) => CursorBound
  BY <1>1 DEF CursorBound
<1> QED
  BY <1>2, CursorAlways, PTL
==============================================================================
