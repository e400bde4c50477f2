--------------------------- MODULE BackendHistory ----------------------------
(***************************************************************************)
(* Backend with a history: the last marks each node received, oldest       *)
(* first, which is what the documentation of the two health settings talks *)
(* about ("N failures in a row", "M successes in a row").                  *)
(***************************************************************************)
EXTENDS Backend, Sequences

VARIABLE
    marks           \* marks[b]: the last Window marks of node b

Window == IF Threshold > Passes THEN Threshold ELSE Passes

historyVars == <<alive, fails, okStreak, marks>>

HistoryInit == BackendInit /\ marks = [b \in Nodes |-> <<>>]

Record(b, m) ==
    LET longer == Append(marks[b], m)
    IN  marks' = [marks EXCEPT ![b] =
                    IF Len(longer) > Window THEN Tail(longer) ELSE longer]

(* Without active checks nobody calls markOK. *)
HistoryNext ==
    \E b \in Nodes :
        \/ MarkFail(b) /\ Record(b, "fail")
        \/ HealthEnabled /\ MarkOK(b) /\ Record(b, "ok")
        \/ MarkSuccess(b) /\ Record(b, "success")

HistorySpec == HistoryInit /\ [][HistoryNext]_historyVars

(* The last n marks of b are all in S. *)
LastMarks(b, n, S) ==
    /\ Len(marks[b]) >= n
    /\ \A i \in Len(marks[b]) - n + 1 .. Len(marks[b]) : marks[b][i] \in S
------------------------------------------------------------------------------
(***************************************************************************)
(* config.HealthCheck.Passes, "successes that bring a node back": a node   *)
(* that is out comes back only by one proxied success, or by Passes probe  *)
(* successes with no failure among them.  okStreak survives markSuccess,   *)
(* so the danger is a stale streak that revives a node too early; the run  *)
(* shows that a failure always separates the two.                          *)
(***************************************************************************)
RevivalNeedsPasses ==
    [][\A b \in Nodes : ~alive[b] /\ alive'[b] =>
          \/ LastMarks(b, 1, {"success"})'
          \/ LastMarks(b, Passes, {"ok"})']_historyVars

(***************************************************************************)
(* The other direction: a node goes out on a failure and never on anything *)
(* else, and only when the last Threshold marks hold no proxied success.   *)
(***************************************************************************)
RemovalNeedsNoSuccess ==
    [][\A b \in Nodes : alive[b] /\ ~alive'[b] =>
          LastMarks(b, 1, {"fail"})'
          /\ LastMarks(b, Threshold, {"fail", "ok"})']_historyVars

(***************************************************************************)
(* What config.go:129 says of Fails: "how many failures in a row take a    *)
(* node out".  markOK clears the failures only after Passes successes, so  *)
(* with Passes > 1 isolated failures add up across successful probes.      *)
(***************************************************************************)
RemovalNeedsConsecutiveFailures ==
    [][\A b \in Nodes : alive[b] /\ ~alive'[b] =>
          LastMarks(b, Threshold, {"fail"})']_historyVars
==============================================================================
