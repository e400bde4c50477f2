---------------------------- MODULE RequestProofs ----------------------------
(***************************************************************************)
(* Theorems about the way of a request: about Forward, what becomes of it, *)
(* for any routes, nodes, clients, paths and configurations and any number *)
(* of reloads; and about Routing, which route is chosen for it, for any    *)
(* plans, hosts and paths and any edits of the table.                      *)
(***************************************************************************)
EXTENDS Forward, Routing, SequenceTheorems, FiniteSetTheorems,
        WellFoundedInduction, TLAPS

(* The request may pass.                                                   *)
Passed == ~AddressRefused(route, req.client) /\ ~LoginRefused

PlainRoute ==
    /\ route.rewrite = <<>> /\ ~route.strip
    /\ \A n \in Nodes : TrimSlashes(Base[n]) = <<>>

IsSeq(s) == s \in Seq({s[k] : k \in DOMAIN s})

Shape ==
    /\ reloads \in Nat /\ spent \in Nat /\ route \in Routes
    /\ pc \in {"arrived", "checking", "sending", "done"}
    /\ pc # "done" => req.path \in Asked /\ HasPrefix(req.path, route.path)
    /\ IsSeq(asks)
    /\ pc \in {"arrived", "checking"} => asks = <<>> /\ tried = {} /\ spent = 0

(* Nothing is sent or spent before the checks.                             *)
Checked == pc = "sending" \/ spent > 0 \/ asks # <<>> => Passed

(* The nodes that were asked are excluded from the next choice.            *)
Distinct ==
    /\ pc = "sending" =>
          /\ node \in Nodes \ tried
          /\ \A k \in 1..Len(asks) : asks[k].node \in tried
          /\ req.body \/ Dynamic(route) => asks = <<>>
    /\ \A k \in 1..Len(asks) : asks[k].node \in Nodes
    /\ SentOnce

(* What the name in the path leads to is the same for the log and for the  *)
(* sending, until the configuration is replaced.                           *)
Named ==
    LET domain == Domain(req.path, route.path)
        target == DynamicURL(route, req.path)
    IN  Dynamic(route) =>
           /\ pc = "arrived" => logged = NoLog
           /\ pc \in {"checking", "sending"} =>
                 /\ domain # <<>>
                 /\ reloads = 0 => logged.exit = ExitFor(cfg, route, HostOf(domain))
           /\ pc = "sending" => url = target
           /\ \A k \in 1..Len(asks) :
                 /\ asks[k].host = domain /\ asks[k].path = target.path
                 /\ domain # <<>> /\ req.path \in Asked /\ HasPrefix(req.path, route.path)
                 /\ reloads = 0 => asks[k].exit = logged.exit

(* A plain route sends the path as it came.                                *)
Unchanged ==
    PlainRoute /\ ~Dynamic(route) =>
        /\ pc = "sending" => url.path = req.path
        /\ \A k \in 1..Len(asks) : asks[k].path = req.path

ForwardInv == Shape /\ Checked /\ Distinct /\ Named /\ Unchanged

------------------------------------------------------------------------------
(* A sequence is longer by what is appended, and the rest stays.           *)
LEMMA Appended ==
    ASSUME NEW s, IsSeq(s), NEW e
    PROVE  /\ IsSeq(Append(s, e)) /\ Append(s, e) # <<>>
           /\ Len(s) \in Nat /\ Len(Append(s, e)) = Len(s) + 1
           /\ Append(s, e)[Len(s) + 1] = e
           /\ \A k \in 1..Len(s) : Append(s, e)[k] = s[k]
<1> DEFINE S == {s[k] : k \in DOMAIN s} \cup {e}
           t == Append(s, e)
<1>1. s \in Seq(S) /\ e \in S
  BY SeqMonotonic DEF IsSeq
<1>2. t \in Seq(S) /\ Len(s) \in Nat /\ Len(t) = Len(s) + 1 /\ t[Len(s) + 1] = e
      /\ \A k \in 1..Len(s) : t[k] = s[k]
  <2> HIDE DEF S
  <2> QED
    BY <1>1, AppendProperties, LenProperties
<1>3. DOMAIN t = 1..Len(t) /\ t = [k \in 1..Len(t) |-> t[k]] /\ Len(t) \in Nat
  <2> HIDE DEF S, t
  <2> QED
    BY <1>2, LenProperties
<1>4. IsSeq(t)
  <2> DEFINE T == {t[k] : k \in DOMAIN t}
             n == Len(t)
  <2> HIDE DEF S, t
  <2>1. \A k \in 1..n : t[k] \in T
    BY <1>3
  <2>2. n \in Nat /\ t = [k \in 1..n |-> t[k]]
    BY <1>3
  <2> HIDE DEF T, n
  <2>3. [k \in 1..n |-> t[k]] \in Seq(T)
    BY <2>1, <2>2
  <2>4. t \in Seq(T)
    BY <2>2, <2>3, Zenon
  <2> QED
    BY <2>4 DEF IsSeq, T
<1> QED
  BY <1>2, <1>4

LEMMA EmptyIsSeq == IsSeq(<<>>) /\ Len(<<>>) = 0
  BY DEF IsSeq

LEMMA ArriveInv ==
    ASSUME ForwardInv, Arrive
    PROVE  ForwardInv'
<1> USE EmptyIsSeq DEF ForwardInv
<1>1. /\ asks' = <<>> /\ spent' = 0 /\ pc' = "arrived" /\ logged' = NoLog
      /\ reloads' = 0 /\ tried' = {}
  BY DEF Arrive
<1>2. route' \in Routes /\ req'.path \in Asked /\ HasPrefix(req'.path, route'.path)
  BY DEF Arrive
<1>3. Shape'
  BY <1>1, <1>2 DEF Shape
<1>4. Checked' /\ Distinct' /\ Named' /\ Unchanged'
  BY <1>1 DEF Checked, Distinct, SentOnce, Named, Unchanged
<1> QED
  BY <1>3, <1>4

(* The request keeps its route until it is answered.                       *)
LEMMA SameTarget ==
    ASSUME UNCHANGED request
    PROVE  /\ Dynamic(route)' <=> Dynamic(route)
           /\ Domain(req.path, route.path)' = Domain(req.path, route.path)
           /\ DynamicURL(route, req.path)' = DynamicURL(route, req.path)
           /\ Passed' <=> Passed
           /\ PlainRoute' <=> PlainRoute
           /\ LoginRefused' <=> LoginRefused
  BY DEF request, Passed, PlainRoute, LoginRefused, Dynamic

LEMMA NameInv ==
    ASSUME ForwardInv, Name
    PROVE  ForwardInv'
<1> USE DEF ForwardInv
<1> DEFINE domain == Domain(req.path, route.path)
<1>1. /\ UNCHANGED <<cfg, reloads, request, url, node, tried, spent, asks>>
      /\ pc = "arrived" /\ pc' \in {"checking", "done"} /\ asks = <<>> /\ spent = 0
  BY DEF Name, Finish, Shape
<1>2. Shape'
  BY <1>1 DEF Shape, request
<1>3. Checked' /\ Distinct' /\ Unchanged'
  BY <1>1, EmptyIsSeq DEF Checked, Distinct, SentOnce, Unchanged
<1>4. ASSUME Dynamic(route), pc' # "done"
      PROVE  domain # <<>> /\ logged'.exit = ExitFor(cfg, route, HostOf(domain))
  <2>1. logged = NoLog
    BY <1>1, <1>4 DEF Named
  <2>2. domain # <<>> /\ logged' = [logged EXCEPT !.host = domain, !.scheme = RouteScheme(route),
                                            !.exit = ExitFor(cfg, route, HostOf(domain))]
    BY <1>4 DEF Name, Finish
  <2> HIDE DEF domain
  <2> QED
    BY <2>1, <2>2 DEF NoLog
<1>5. Named'
  BY <1>1, <1>4, SameTarget, EmptyIsSeq DEF Named, request
<1> QED
  BY <1>2, <1>3, <1>5

(* Refused, or without a node to go to, the request is over: nothing was   *)
(* sent, and a token only taken after the checks.                          *)
LEMMA TurnedAwayInv ==
    ASSUME ForwardInv, Refuse \/ NoUpstream
    PROVE  ForwardInv'
<1> USE EmptyIsSeq DEF ForwardInv
<1>1. /\ UNCHANGED <<cfg, reloads, route, req, url, node, tried, logged, asks>>
      /\ pc = "checking" /\ pc' = "done" /\ asks = <<>> /\ spent' \in Nat
      /\ spent' > 0 => Passed
  BY DEF Refuse, NoUpstream, Admitted, Finish, Shape, Passed, request
<1>2. UNCHANGED request
  BY <1>1 DEF request
<1>3. Shape'
  BY <1>1 DEF Shape
<1>4. Checked'
  BY <1>1, <1>2, SameTarget DEF Checked
<1>5. Distinct' /\ Named' /\ Unchanged'
  BY <1>1 DEF Distinct, SentOnce, Named, Unchanged
<1> QED
  BY <1>3, <1>4, <1>5

(* A route that leaves the path alone, and nodes without a path.           *)
LEMMA PlainPath ==
    ASSUME PlainRoute, NEW u, u.path \in Seq(STRING), NEW n \in Nodes
    PROVE  OutURL(route, u, n).path = u.path
<1>1. OutURL(route, u, n).path = TrimSlashes(Base[n]) \o u.path
  BY DEF PlainRoute, OutURL
<1>2. TrimSlashes(Base[n]) = <<>>
  BY DEF PlainRoute
<1> QED
  BY <1>1, <1>2, ConcatEmptySeq

LEMMA PickInv ==
    ASSUME ForwardInv, Pick
    PROVE  ForwardInv'
<1> USE EmptyIsSeq DEF ForwardInv
<1>1. /\ UNCHANGED <<cfg, reloads, request, tried, asks>>
      /\ pc = "checking" /\ pc' = "sending" /\ asks = <<>> /\ tried = {}
      /\ spent' \in Nat /\ Passed
  BY DEF Pick, Admitted, Shape, Passed
<1>2. PICK n \in Nodes :
          /\ node' = n
          /\ url' = IF Dynamic(route) THEN DynamicURL(route, req.path)
                                      ELSE OutURL(route, [path |-> req.path], n)
          /\ Dynamic(route) => logged' = logged
  BY DEF Pick
<1>3. Shape'
  BY <1>1 DEF Shape, request
<1>4. Checked' /\ Distinct'
  BY <1>1, <1>2, SameTarget DEF Checked, Distinct, SentOnce
<1>5. Named'
  BY <1>1, <1>2, SameTarget DEF Named, request
<1>6. ASSUME PlainRoute, ~Dynamic(route) PROVE url'.path = req.path
  <2>1. req.path \in Seq(STRING)
    BY <1>1, AskedAssumption DEF Shape
  <2> QED
    BY <1>2, <1>6, <2>1, PlainPath
<1>7. Unchanged'
  BY <1>1, <1>6, SameTarget DEF Unchanged, request
<1> QED
  BY <1>3, <1>4, <1>5, <1>7

(* What an attempt adds to the requests that were sent.                    *)
LEMMA AskedInv ==
    ASSUME ForwardInv, pc = "sending", asks' = Append(asks, Ask),
           UNCHANGED <<cfg, reloads, request, spent, logged>>
    PROVE  /\ IsSeq(asks') /\ asks' # <<>>
           /\ Len(asks) \in Nat /\ Len(asks') = Len(asks) + 1
           /\ \A k \in 1..Len(asks') : asks'[k].node \in tried \cup {node}
           /\ \A k \in 1..Len(asks') : asks'[k].node \in Nodes
           /\ SentOnce'
           /\ Dynamic(route) =>
                 LET domain == Domain(req.path, route.path)
                     target == DynamicURL(route, req.path)
                 IN  \A k \in 1..Len(asks') :
                        /\ asks'[k].host = domain /\ asks'[k].path = target.path
                        /\ domain # <<>> /\ req.path \in Asked /\ HasPrefix(req.path, route.path)
                        /\ reloads = 0 => asks'[k].exit = logged.exit
           /\ PlainRoute /\ ~Dynamic(route) =>
                 \A k \in 1..Len(asks') : asks'[k].path = req.path
<1> USE DEF ForwardInv
<1> DEFINE l == Len(asks)
           domain == Domain(req.path, route.path)
           target == DynamicURL(route, req.path)
<1>1. /\ IsSeq(asks') /\ asks' # <<>> /\ l \in Nat /\ Len(asks') = l + 1
      /\ asks'[l + 1] = Ask /\ \A k \in 1..l : asks'[k] = asks[k]
  BY Appended DEF Shape
<1>2. \A k \in 1..Len(asks') : k = l + 1 \/ k \in 1..l
  BY <1>1
<1>3. /\ Ask.node = node /\ Ask.host = url.host /\ Ask.path = url.path
      /\ Dynamic(route) => Ask.exit = ExitFor(cfg, route, HostOf(url.host))
  BY DEF Ask, UsedHost
<1>4. /\ node \in Nodes \ tried /\ \A k \in 1..l : asks[k].node \in tried
      /\ \A k \in 1..l : asks[k].node \in Nodes
      /\ \A j, k \in 1..l : j # k => asks[j].node # asks[k].node
      /\ req.body \/ Dynamic(route) => l = 0
  BY EmptyIsSeq DEF Distinct, SentOnce
<1>5. /\ \A k \in 1..Len(asks') : asks'[k].node \in tried \cup {node}
      /\ \A k \in 1..Len(asks') : asks'[k].node \in Nodes
  BY <1>1, <1>2, <1>3, <1>4
<1>6. SentOnce'
  <2>1. req'.body => Len(asks') <= 1
    BY <1>1, <1>4 DEF request
  <2>2. ASSUME NEW j \in 1..Len(asks'), NEW k \in 1..Len(asks'), j # k
        PROVE  asks'[j].node # asks'[k].node
    BY <1>1, <1>2, <1>3, <1>4, <2>2
  <2> QED
    BY <2>1, <2>2 DEF SentOnce
<1>7. ASSUME Dynamic(route), NEW k \in 1..Len(asks')
      PROVE  /\ asks'[k].host = domain /\ asks'[k].path = target.path
             /\ domain # <<>> /\ req.path \in Asked /\ HasPrefix(req.path, route.path)
             /\ reloads = 0 => asks'[k].exit = logged.exit
  <2>1. asks'[k] = Ask
    BY <1>1, <1>2, <1>4, <1>7
  <2>2. /\ domain # <<>> /\ url = target
        /\ reloads = 0 => logged.exit = ExitFor(cfg, route, HostOf(domain))
    BY <1>7 DEF Named
  <2>3. target.host = domain
    BY DEF DynamicURL
  <2>4. req.path \in Asked /\ HasPrefix(req.path, route.path)
    BY DEF Shape
  <2> HIDE DEF domain, target
  <2> QED
    BY <1>3, <1>7, <2>1, <2>2, <2>3, <2>4
<1>8. ASSUME PlainRoute, ~Dynamic(route), NEW k \in 1..Len(asks')
      PROVE  asks'[k].path = req.path
  <2>1. url.path = req.path /\ \A j \in 1..l : asks[j].path = req.path
    BY <1>8 DEF Unchanged
  <2> QED
    BY <1>1, <1>2, <1>3, <1>8, <2>1
<1> QED
  BY <1>1, <1>5, <1>6, <1>7, <1>8

LEMMA AnsweredInv ==
    ASSUME ForwardInv, Answered
    PROVE  ForwardInv'
<1> USE DEF ForwardInv
<1>1. /\ pc = "sending" /\ asks' = Append(asks, Ask) /\ pc' = "done"
      /\ UNCHANGED <<cfg, reloads, request, url, node, tried, spent, logged>>
  BY DEF Answered, Finish
<1>2. Shape' /\ Checked'
  BY <1>1, AskedInv, SameTarget DEF Shape, Checked, request
<1>3. Distinct'
  BY <1>1, AskedInv DEF Distinct
<1>4. Named'
  BY <1>1, AskedInv, SameTarget DEF Named, request
<1>5. Unchanged'
  BY <1>1, AskedInv, SameTarget DEF Unchanged, request
<1> QED
  BY <1>2, <1>3, <1>4, <1>5

LEMMA FailedInv ==
    ASSUME ForwardInv, Failed
    PROVE  ForwardInv'
<1> USE DEF ForwardInv
<1>1. /\ pc = "sending" /\ asks' = Append(asks, Ask) /\ tried' = tried \cup {node}
      /\ UNCHANGED <<cfg, reloads, request, spent, logged>>
  BY DEF Failed, TriedNow
<1>2. \/ /\ pc' = "sending" /\ Len(asks') < Attempts
         /\ \E n \in Nodes \ tried' : node' = n /\ url' = OutURL(route, url, n)
      \/ pc' = "done"
  BY <1>1 DEF Failed, Finish
<1>3. Shape' /\ Checked'
  BY <1>1, <1>2, AskedInv, SameTarget DEF Shape, Checked, request
<1>4. pc' = "sending" => ~req.body /\ ~Dynamic(route)
  BY <1>1, <1>2, AskedInv DEF Attempts
<1>5. Distinct'
  BY <1>1, <1>2, <1>4, AskedInv, SameTarget DEF Distinct, request
<1>6. Named'
  BY <1>1, <1>2, <1>4, AskedInv, SameTarget DEF Named, request
<1>7. ASSUME PlainRoute, ~Dynamic(route), pc' = "sending"
      PROVE  url'.path = req.path
  <2>1. url.path = req.path /\ req.path \in Seq(STRING)
    BY <1>1, <1>7, AskedAssumption DEF Unchanged, Shape
  <2> QED
    BY <1>2, <1>7, <2>1, PlainPath
<1>8. Unchanged'
  BY <1>1, <1>7, AskedInv, SameTarget DEF Unchanged, request
<1> QED
  BY <1>3, <1>5, <1>6, <1>8

LEMMA ReconfigureInv ==
    ASSUME ForwardInv, Reconfigure
    PROVE  ForwardInv'
<1> USE DEF ForwardInv
<1>1. /\ reloads \in Nat /\ reloads' = reloads + 1
      /\ UNCHANGED <<request, pc, url, node, tried, spent, logged, asks>>
  BY DEF Reconfigure, Shape
<1>2. Shape' /\ Checked' /\ Distinct'
  BY <1>1, SameTarget DEF Shape, Checked, Distinct, SentOnce, request
<1>3. Named'
  BY <1>1, SameTarget DEF Named, request
<1>4. Unchanged'
  BY <1>1, SameTarget DEF Unchanged, request
<1> QED
  BY <1>2, <1>3, <1>4

LEMMA ForwardSpec == Spec => []ForwardInv
<1>1. Init => ForwardInv
  BY EmptyIsSeq DEF Init, ForwardInv, Shape, Checked, Distinct, SentOnce, Named, Unchanged
<1>2. ASSUME ForwardInv, UNCHANGED vars PROVE ForwardInv'
  <2>1. UNCHANGED request
    BY <1>2 DEF vars, request
  <2> QED
    BY <1>2, <2>1, SameTarget
    DEF vars, ForwardInv, Shape, Checked, Distinct, SentOnce, Named, Unchanged, request
<1>3. ForwardInv /\ [Next]_vars => ForwardInv'
  BY <1>2, ArriveInv, NameInv, TurnedAwayInv, PickInv, AnsweredInv, FailedInv,
     ReconfigureInv DEF Next
<1> QED
  BY <1>1, <1>3, PTL DEF Spec

------------------------------------------------------------------------------
(***************************************************************************)
(* Only a request that its route lets in reaches a node or costs a token,  *)
(* for any lists, logins, nodes and retries (engine.go ServeHTTP).         *)
(***************************************************************************)
THEOREM ForwardOnlyAdmitted == Spec => []OnlyAdmittedCount
<1>1. Passed =>
        /\ \A item \in route.deny : item.valid => req.client \notin item.ips
        /\ (\E item \in route.allow : item.valid)
              => \E item \in route.allow : item.valid /\ req.client \in item.ips
        /\ route.auth => req.login
  BY DEF Passed, LoginRefused, AddressRefused, Listed, Valid
<1>2. ForwardInv => OnlyAdmittedCount
  BY <1>1 DEF ForwardInv, Checked, OnlyAdmittedCount
<1> QED
  BY <1>2, ForwardSpec, PTL

(***************************************************************************)
(* A request with a body is sent at most once, and no request to one node  *)
(* twice, for any number of nodes and retries (engine.go RoundTrip).       *)
(***************************************************************************)
THEOREM ForwardSentOnce == Spec => []SentOnce
<1>1. ForwardInv => SentOnce
  BY DEF ForwardInv, Distinct
<1> QED
  BY <1>1, ForwardSpec, PTL

(***************************************************************************)
(* The proxy in the access log is the one that was used, for any rules and *)
(* any names in the path, unless the configuration was replaced meanwhile  *)
(* (engine.go resolveDynProxy, called for the log and for the sending).    *)
(***************************************************************************)
THEOREM ForwardLoggedExit == Spec => []LoggedExitUsed
<1>1. ForwardInv => LoggedExitUsed
  BY DEF ForwardInv, Named, LoggedExitUsed
<1> QED
  BY <1>1, ForwardSpec, PTL

(***************************************************************************)
(* Every node is asked for the same by a route that leaves the path alone, *)
(* however many retries there are (engine.go applyOutURL, RoundTrip).      *)
(***************************************************************************)
THEOREM ForwardSameQuestion == Spec => []SameQuestionPlain
<1> SUFFICES ASSUME ForwardInv, PlainRoute,
                    NEW j \in 1..Len(asks), NEW k \in 1..Len(asks)
             PROVE  Question(asks[j]) = Question(asks[k])
  <2>1. ForwardInv => SameQuestionPlain
    BY DEF SameQuestionPlain, PlainRoute
  <2> QED
    BY <2>1, ForwardSpec, PTL
<1>1. asks[j].path = asks[k].path
  BY DEF ForwardInv, Named, Unchanged
<1>2. /\ asks[j].node \in Nodes /\ asks[k].node \in Nodes
      /\ \A n \in Nodes : TrimSlashes(Base[n]) = <<>>
  BY DEF ForwardInv, Distinct, PlainRoute
<1> QED
  BY <1>1, <1>2 DEF Question

------------------------------------------------------------------------------
(* What paths are made of.  No prover knows that "/" is in STRING.         *)
Fragments == STRING \cup {"/"}

LEMMA PathsAreSeqs ==
    ASSUME NEW s \in Seq(STRING)
    PROVE  s \in Seq(Fragments)
  BY SeqMonotonic DEF Fragments

LEMMA Slashes ==
    /\ Slash \in Seq(Fragments) /\ Len(Slash) = 1 /\ Slash[1] = "/"
    /\ <<"/", "/">> \in Seq(Fragments) /\ Len(<<"/", "/">>) = 2
    /\ <<"/", "/">>[1] = "/" /\ <<"/", "/">>[2] = "/"
<1>1. ASSUME NEW S, NEW e \in S PROVE <<e>> \in Seq(S) /\ <<e, e>> \in Seq(S)
  OBVIOUS
<1>2. "/" \in Fragments
  BY DEF Fragments
<1>3. <<"/">> \in Seq(Fragments) /\ <<"/", "/">> \in Seq(Fragments)
  BY <1>1, <1>2
<1> QED
  BY <1>3 DEF Slash

(***************************************************************************)
(* What the string functions of Paths and Forward do to any path.          *)
(***************************************************************************)
LEMMA SmallestOf ==
    ASSUME NEW T, T \subseteq Nat, T # {}
    PROVE  \E k \in T : \A j \in T : k <= j
<1> DEFINE R == {ss \in Nat \X Nat : ss[1] < ss[2]}
<1>1. IsWellFoundedOn(R, Nat)
  BY NatLessThanWellFounded DEF OpToRel
<1>2. \A x, y \in Nat : <<x, y>> \in R <=> x < y
  OBVIOUS
<1> HIDE DEF R
<1>3. PICK k \in T : \A j \in T : ~(<<j, k>> \in R)
  BY <1>1, WFMin
<1>4. ASSUME NEW j \in T PROVE k <= j
  <2>1. j \in Nat /\ k \in Nat /\ ~(<<j, k>> \in R)
    BY <1>3
  <2>2. ~(j < k)
    BY <1>2, <2>1
  <2> QED
    BY <2>1, <2>2
<1> QED
  BY <1>4

LEMMA LargestUpTo ==
    ASSUME NEW n \in Nat, NEW T, T \subseteq 0..n, T # {}
    PROVE  \E k \in T : \A j \in T : j <= k
<1> DEFINE D == {n - j : j \in T}
<1>1. \A j \in T : j \in 0..n /\ n - j \in Nat /\ n - j \in D
  OBVIOUS
<1>2. PICK d \in D : \A e \in D : d <= e
  BY <1>1, SmallestOf
<1>3. PICK k \in T : d = n - k
  OBVIOUS
<1>4. ASSUME NEW j \in T PROVE j <= k
  <2>1. d <= n - j
    BY <1>1, <1>2
  <2> QED
    BY <1>1, <1>3, <2>1
<1> QED
  BY <1>4

LEMMA PrefixMeans ==
    ASSUME NEW s \in Seq(Fragments), NEW p \in Seq(Fragments)
    PROVE  /\ Len(s) \in Nat /\ Len(p) \in Nat
           /\ HasPrefix(s, p) <=> Len(p) <= Len(s) /\ \A i \in 1..Len(p) : s[i] = p[i]
<1>1. Len(s) \in Nat /\ Len(p) \in Nat
  BY LenProperties
<1>2. SubSeq(p, 1, Len(p)) = p
  BY <1>1, SubSeqFull
<1>3. ASSUME Len(p) <= Len(s)
      PROVE  /\ SubSeq(s, 1, Len(p)) \in Seq(Fragments) /\ Len(SubSeq(s, 1, Len(p))) = Len(p)
             /\ \A i \in 1..Len(p) : SubSeq(s, 1, Len(p))[i] = s[i]
  BY <1>1, <1>3
<1>4. ASSUME Len(p) <= Len(s), \A i \in 1..Len(p) : s[i] = p[i]
      PROVE  p = SubSeq(s, 1, Len(p))
  BY <1>1, <1>3, <1>4, SeqEqual
<1> QED
  BY <1>1, <1>2, <1>3, <1>4 DEF HasPrefix, IsPrefix

(* TrimPrefix takes the prefix away and leaves the rest.                   *)
LEMMA Trimmed ==
    ASSUME NEW s \in Seq(Fragments), NEW p \in Seq(Fragments), HasPrefix(s, p)
    PROVE  LET t == TrimPrefix(s, p)
           IN  /\ t \in Seq(Fragments) /\ Len(t) = Len(s) - Len(p) /\ Len(t) \in Nat
               /\ \A i \in 1..Len(t) : t[i] = s[Len(p) + i]
               /\ s = p \o t
<1> DEFINE t == TrimPrefix(s, p)
<1>1. /\ Len(s) \in Nat /\ Len(p) \in Nat /\ Len(p) <= Len(s)
      /\ \A i \in 1..Len(p) : s[i] = p[i]
  BY PrefixMeans
<1>2. t = SubSeq(s, Len(p) + 1, Len(s))
  BY DEF TrimPrefix
<1>3. /\ t \in Seq(Fragments) /\ Len(t) = Len(s) - Len(p) /\ Len(t) \in Nat
      /\ \A i \in 1..Len(t) : t[i] = s[Len(p) + i]
  <2> HIDE DEF t
  <2> QED
    BY <1>1, <1>2
<1> HIDE DEF t
<1>4. /\ p \o t \in Seq(Fragments) /\ Len(p \o t) = Len(s)
      /\ \A i \in 1..Len(s) : (p \o t)[i] = s[i]
  BY <1>1, <1>3
<1>5. s = p \o t
  BY <1>4, SeqEqual
<1> QED
  BY <1>3, <1>5 DEF t

(* TrimSlashes leaves what stands before the slashes at the end.           *)
LEMMA SlashesTrimmed ==
    ASSUME NEW s \in Seq(Fragments)
    PROVE  \E k \in 0..Len(s) :
              /\ TrimSlashes(s) = SubSeq(s, 1, k)
              /\ k > 0 => s[k] # "/"
              /\ \A j \in k + 1 .. Len(s) : s[j] = "/"
<1> DEFINE Kept == {k \in 1..Len(s) : s[k] # "/"}
           last == IF Kept = {} THEN 0 ELSE CHOOSE k \in Kept : \A j \in Kept : j <= k
<1>1. Len(s) \in Nat
  BY LenProperties
<1>2. TrimSlashes(s) = SubSeq(s, 1, last)
  BY DEF TrimSlashes
<1>3. CASE Kept = {}
  <2>1. last = 0
    BY <1>3
  <2>2. \A j \in 1..Len(s) : s[j] = "/"
    BY <1>3
  <2> HIDE DEF last, Kept
  <2> QED
    BY <1>1, <1>2, <2>1, <2>2
<1>4. CASE Kept # {}
  <2>1. \E k \in Kept : \A j \in Kept : j <= k
    <3>1. Kept \subseteq 0..Len(s)
      BY <1>1
    <3> HIDE DEF Kept
    <3> QED
      BY <1>1, <1>4, <3>1, LargestUpTo
  <2>2. last \in Kept /\ \A j \in Kept : j <= last
    BY <1>4, <2>1
  <2>3. last \in 1..Len(s) /\ s[last] # "/"
    BY <2>2
  <2>4. ASSUME NEW j \in last + 1 .. Len(s) PROVE s[j] = "/"
    <3>1. j \in 1..Len(s) /\ ~(j <= last)
      <4> HIDE DEF last, Kept
      <4> QED
        BY <1>1, <2>3
    <3>2. j \notin Kept
      BY <2>2, <3>1
    <3> QED
      BY <3>1, <3>2
  <2> HIDE DEF last, Kept
  <2> QED
    BY <1>1, <1>2, <2>3, <2>4
<1> QED
  BY <1>3, <1>4

(* BeforeSlash ends before the first slash, or at the end.                 *)
LEMMA StopsAtSlash ==
    ASSUME NEW s \in Seq(Fragments)
    PROVE  \E m \in 0..Len(s) :
              /\ BeforeSlash(s) = SubSeq(s, 1, m)
              /\ m < Len(s) => s[m + 1] = "/"
<1> DEFINE Stops == {k \in 1..Len(s) : s[k] = "/"}
           first == CHOOSE k \in Stops : \A j \in Stops : k <= j
<1>1. Len(s) \in Nat
  BY LenProperties
<1>2. CASE Stops = {}
  BY <1>1, <1>2 DEF BeforeSlash
<1>3. CASE Stops # {}
  <2>1. \E k \in Stops : \A j \in Stops : k <= j
    <3>1. Stops \subseteq Nat
      BY <1>1
    <3> HIDE DEF Stops
    <3> QED
      BY <1>3, <3>1, SmallestOf
  <2>2. first \in Stops
    BY <2>1
  <2>3. first \in 1..Len(s) /\ s[first] = "/"
    BY <2>2
  <2>4. BeforeSlash(s) = SubSeq(s, 1, first - 1)
    BY <1>3 DEF BeforeSlash
  <2> HIDE DEF first, Stops
  <2> QED
    BY <1>1, <2>3, <2>4
<1> QED
  BY <1>2, <1>3

(***************************************************************************)
(* routePathInner is what stands behind the route's path, its last slash   *)
(* included, whether the route's path ends in a slash or not, as long as   *)
(* one slash only follows.                                                 *)
(***************************************************************************)
LEMMA InnerIsBehind ==
    ASSUME NEW s \in Seq(Fragments), NEW p \in Seq(Fragments), HasPrefix(s, p)
    PROVE  LET b == TrimPrefix(s, TrimSlashes(p))
           IN  /\ b \in Seq(Fragments)
               /\ HasPrefix(b, Slash) /\ ~HasPrefix(b, <<"/", "/">>)
                     => InnerPath(s, p) = b
<1> DEFINE q == TrimSlashes(p)
           b == TrimPrefix(s, q)
           t == TrimPrefix(s, p)
<1>0. PICK k \in 0..Len(p) :
          /\ q = SubSeq(p, 1, k)
          /\ k > 0 => p[k] # "/"
          /\ \A j \in k + 1 .. Len(p) : p[j] = "/"
  BY SlashesTrimmed
<1>1. /\ k \in 0..Len(p)
      /\ k > 0 => p[k] # "/"
      /\ \A j \in k + 1 .. Len(p) : p[j] = "/"
  BY <1>0
<1>2. /\ Len(s) \in Nat /\ Len(p) \in Nat /\ Len(p) <= Len(s)
      /\ \A i \in 1..Len(p) : s[i] = p[i]
  BY PrefixMeans
<1> HIDE DEF q
<1>3. q \in Seq(Fragments) /\ Len(q) = k /\ \A i \in 1..k : q[i] = p[i]
  BY <1>0, <1>2
<1>4. HasPrefix(s, q)
  <2>1. Len(q) <= Len(s) /\ \A i \in 1..Len(q) : s[i] = q[i]
    BY <1>1, <1>2, <1>3
  <2> QED
    BY <1>3, <2>1, PrefixMeans
<1>5. /\ b \in Seq(Fragments) /\ Len(b) = Len(s) - k /\ \A i \in 1..Len(b) : b[i] = s[k + i]
  BY <1>3, <1>4, Trimmed
<1>6. /\ t \in Seq(Fragments) /\ Len(t) = Len(s) - Len(p)
      /\ \A i \in 1..Len(t) : t[i] = s[Len(p) + i]
  BY Trimmed
<1>7. Slash \in Seq(Fragments) /\ Len(Slash) = 1 /\ Slash[1] = "/"
  BY Slashes
<1> DEFINE two == <<"/", "/">>
<1>8. two \in Seq(Fragments) /\ Len(two) = 2 /\ two[1] = "/" /\ two[2] = "/"
  BY Slashes
<1> HIDE DEF two, b, t
<1>9. ASSUME HasPrefix(b, Slash), ~HasPrefix(b, two)
      PROVE  InnerPath(s, p) = b
  <2>1. Len(b) >= 1 /\ b[1] = "/"
    <3>1. Len(Slash) <= Len(b) /\ \A i \in 1..Len(Slash) : b[i] = Slash[i]
      BY <1>5, <1>7, <1>9, PrefixMeans
    <3> QED
      BY <1>7, <3>1
  <2>2. ~(Len(b) >= 2 /\ b[2] = "/")
    <3>1. ~(Len(two) <= Len(b) /\ \A i \in 1..Len(two) : b[i] = two[i])
      BY <1>5, <1>8, <1>9, PrefixMeans
    <3> QED
      BY <1>8, <2>1, <3>1
  <2>3. Len(p) = k \/ Len(p) = k + 1
    <3>1. SUFFICES ASSUME Len(p) >= k + 2 PROVE FALSE
      BY <1>1, <1>2
    <3>2. p[k + 2] = "/" /\ s[k + 2] = p[k + 2] /\ Len(b) >= 2 /\ b[2] = s[k + 2]
      BY <1>1, <1>2, <1>5, <3>1
    <3> QED
      BY <2>2, <3>2
  <2>4. CASE p = Slash
    <3>1. k = 0
      <4>1. Len(p) = 1 /\ p[1] = "/"
        BY <1>7, <2>4
      <4>2. k = 0 \/ k = 1
        BY <1>1, <4>1
      <4> QED
        BY <1>1, <4>1, <4>2
    <3>2. q = <<>>
      BY <1>3, <3>1, EmptySeq
    <3>3. b = s
      BY <1>2, <1>5, <3>1, SeqEqual
    <3> QED
      BY <2>4, <3>3 DEF InnerPath
  <2>5. CASE p # Slash /\ Len(p) = k
    <3>1. t = b
      BY <1>2, <1>5, <1>6, <2>5, SeqEqual
    <3>2. InnerPath(s, p) = Rooted(t)
      BY <2>5 DEF InnerPath, t
    <3> QED
      BY <1>9, <3>1, <3>2 DEF Rooted
  <2>6. CASE p # Slash /\ Len(p) = k + 1
    <3>1. Len(t) >= 1 => t[1] # "/"
      BY <1>1, <1>2, <1>5, <1>6, <2>2, <2>6
    <3>2. ~HasPrefix(t, Slash)
      <4>1. ~(Len(Slash) <= Len(t) /\ \A i \in 1..Len(Slash) : t[i] = Slash[i])
        BY <1>7, <3>1
      <4> QED
        BY <1>6, <1>7, <4>1, PrefixMeans
    <3>3. InnerPath(s, p) = Slash \o t
      BY <2>6, <3>2 DEF InnerPath, t, Rooted
    <3>4. /\ Slash \o t \in Seq(Fragments) /\ Len(Slash \o t) = Len(b)
          /\ \A i \in 1..Len(b) : (Slash \o t)[i] = b[i]
      <4>1. /\ Slash \o t \in Seq(Fragments) /\ Len(Slash \o t) = 1 + Len(t)
            /\ \A i \in 1 .. 1 + Len(t) : (Slash \o t)[i] = IF i <= 1 THEN "/" ELSE t[i - 1]
        <5>1. /\ Slash \o t \in Seq(Fragments) /\ Len(Slash \o t) = Len(Slash) + Len(t)
              /\ \A i \in 1 .. Len(Slash) + Len(t) : (Slash \o t)[i] =
                    IF i <= Len(Slash) THEN Slash[i] ELSE t[i - Len(Slash)]
          BY <1>6, <1>7, ConcatProperties
        <5>2. Len(t) \in Nat
          BY <1>6, LenProperties
        <5> QED
          BY <1>7, <5>1, <5>2
      <4>2. Len(b) = 1 + Len(t) /\ \A i \in 2..Len(b) : b[i] = t[i - 1]
        BY <1>1, <1>2, <1>5, <1>6, <2>6
      <4> QED
        BY <1>2, <1>6, <2>1, <4>1, <4>2
    <3> QED
      BY <1>5, <3>3, <3>4, SeqEqual
  <2> QED
    BY <2>3, <2>4, <2>5, <2>6
<1> QED
  BY <1>5, <1>9 DEF b, q, two

(***************************************************************************)
(* Domain and path of a dynamic URL are the parts of the inner path.       *)
(***************************************************************************)
LEMMA PartsOfInner ==
    ASSUME NEW r, NEW path, InnerPath(path, r.path) \in Seq(Fragments),
           HasPrefix(InnerPath(path, r.path), Slash),
           Domain(path, r.path) # <<>>
    PROVE  LET b == InnerPath(path, r.path)
               target == Slash \o Domain(path, r.path) \o DynamicURL(r, path).path
           IN  target \in {b, b \o Slash}
<1> DEFINE b == InnerPath(path, r.path)
           rest == TrimPrefix(b, Slash)
           domain == Domain(path, r.path)
           tail == TrimPrefix(rest, domain)
<1>1. Slash \in Seq(Fragments) /\ Len(Slash) = 1 /\ Slash[1] = "/"
  BY Slashes
<1>2. domain = BeforeSlash(rest)
  BY DEF Domain
<1>3. DynamicURL(r, path).path = Rooted(tail)
  BY DEF DynamicURL
<1> HIDE DEF b
<1>4. rest \in Seq(Fragments) /\ b = Slash \o rest
  BY <1>1, Trimmed DEF b
<1> HIDE DEF rest, domain
<1>5. PICK m \in 0..Len(rest) :
          /\ domain = SubSeq(rest, 1, m)
          /\ m < Len(rest) => rest[m + 1] = "/"
  BY <1>2, <1>4, StopsAtSlash
<1>6. Len(rest) \in Nat
  BY <1>4, LenProperties
<1>7. domain \in Seq(Fragments) /\ Len(domain) = m /\ \A i \in 1..m : domain[i] = rest[i]
  BY <1>4, <1>5, <1>6
<1>8. HasPrefix(rest, domain)
  <2>1. Len(domain) <= Len(rest) /\ \A i \in 1..Len(domain) : rest[i] = domain[i]
    BY <1>6, <1>7
  <2> QED
    BY <1>4, <1>7, <2>1, PrefixMeans
<1>9. /\ tail \in Seq(Fragments) /\ Len(tail) = Len(rest) - m
      /\ \A i \in 1..Len(tail) : tail[i] = rest[m + i]
      /\ rest = domain \o tail
  BY <1>4, <1>7, <1>8, Trimmed
<1> HIDE DEF tail
<1>10. Slash \o domain \in Seq(Fragments)
  BY <1>1, <1>7
<1>11. CASE m < Len(rest)
  <2>1. HasPrefix(tail, Slash)
    <3>1. 1 \in 1..Len(tail) /\ tail[1] = rest[m + 1] /\ rest[m + 1] = "/"
      BY <1>5, <1>6, <1>9, <1>11
    <3>2. Len(Slash) <= Len(tail) /\ \A i \in 1..Len(Slash) : tail[i] = Slash[i]
      BY <1>1, <3>1
    <3> QED
      BY ONLY <1>1, <1>9, <3>2, PrefixMeans
  <2>2. Rooted(tail) = tail
    BY <2>1 DEF Rooted
  <2>3. (Slash \o domain) \o tail = Slash \o rest
    BY <1>1, <1>7, <1>9, ConcatAssociative
  <2> QED
    BY <1>3, <1>4, <2>2, <2>3 DEF b, domain
<1>12. CASE m = Len(rest)
  <2>1. tail = <<>>
    BY <1>9, <1>12, <1>6, EmptySeq
  <2>2. rest = domain
    BY <1>7, <1>9, <2>1, ConcatEmptySeq
  <2>3. Rooted(tail) = Slash
    <3>1. Slash \o <<>> = Slash
      BY <1>1, ConcatEmptySeq
    <3>2. ~HasPrefix(<<>>, Slash)
      <4>1. <<>> \in Seq(Fragments) /\ Len(<<>>) = 0
        BY EmptySeq
      <4>2. ~(Len(Slash) <= Len(<<>>))
        BY <1>1, <4>1
      <4> QED
        BY <1>1, <4>1, <4>2, PrefixMeans
    <3> QED
      BY <2>1, <3>1, <3>2 DEF Rooted
  <2> QED
    BY <1>3, <1>4, <2>2, <2>3 DEF b, domain
<1> QED
  <2>1. m < Len(rest) \/ m = Len(rest)
    BY <1>6
  <2> QED
    BY <1>11, <1>12, <2>1

(***************************************************************************)
(* In the mode domain_in_path nothing of the path that was asked for is    *)
(* lost or moved on the way, for any path and any path of a route: host    *)
(* and path of what is sent spell it (engine.go dynDomainOf and            *)
(* rewriteDynamic, which take the path apart independently of each other). *)
(***************************************************************************)
THEOREM ForwardTargetEmbedded == Spec => []TargetIsEmbedded
<1>1. ForwardInv => TargetIsEmbedded
  <2> DEFINE behind == TrimPrefix(req.path, TrimSlashes(route.path))
  <2> SUFFICES ASSUME ForwardInv, Dynamic(route), NEW k \in 1..Len(asks),
                      HasPrefix(behind, Slash), ~HasPrefix(behind, <<"/", "/">>)
               PROVE  Slash \o asks[k].host \o asks[k].path \in {behind, behind \o Slash}
    BY DEF TargetIsEmbedded
  <2>1. /\ asks[k].host = Domain(req.path, route.path)
        /\ asks[k].path = DynamicURL(route, req.path).path
        /\ Domain(req.path, route.path) # <<>>
        /\ req.path \in Asked /\ HasPrefix(req.path, route.path)
    BY DEF ForwardInv, Named
  <2>2. req.path \in Seq(Fragments) /\ route.path \in Seq(Fragments)
    BY <2>1, ForwardAssumption, AskedAssumption, PathsAreSeqs DEF ForwardInv, Shape
  <2>3. behind \in Seq(Fragments) /\ InnerPath(req.path, route.path) = behind
    BY <2>1, <2>2, InnerIsBehind
  <2> HIDE DEF behind
  <2> QED
    BY <2>1, <2>3, PartsOfInner
<1> QED
  BY <1>1, ForwardSpec, PTL

------------------------------------------------------------------------------
(***************************************************************************)
(* Loops.  FoldLeft is a recursion over sets of indices; what follows says *)
(* that its steps are those of the loop: what the loop holds after k       *)
(* rounds is op of what it held after k - 1 rounds and of element k.       *)
(***************************************************************************)
LEMMA UpTo ==
    ASSUME NEW n \in Nat, NEW G, 0 \in G,
           \A k \in 0..n - 1 : k \in G => k + 1 \in G
    PROVE  \A k \in 0..n : k \in G
<1> DEFINE B == {k \in 0..n : k \notin G}
<1> SUFFICES ASSUME B # {} PROVE FALSE
  OBVIOUS
<1>1. B \subseteq Nat
  OBVIOUS
<1>2. PICK k \in B : \A j \in B : k <= j
  <2> HIDE DEF B
  <2> QED
    BY <1>1, SmallestOf
<1>3. k # 0 /\ k - 1 \in 0..n - 1 /\ k - 1 \notin B
  BY <1>2
<1> QED
  BY <1>2, <1>3

LEMMA LastOf ==
    ASSUME NEW n \in Nat, NEW s \in SUBSET (1..n), s # {}
    PROVE  Max(s) \in s /\ \A j \in s : j <= Max(s)
<1>1. PICK k \in s : \A j \in s : j <= k
  <2>1. s \subseteq 0..n
    OBVIOUS
  <2> QED
    BY <2>1, LargestUpTo
<1>2. k \in s /\ \A j \in s : k >= j
  BY <1>1
<1>3. Max(s) \in s /\ \A j \in s : Max(s) >= j
  BY <1>2 DEF Max
<1> QED
  BY <1>3

LEMMA Rounds ==
    ASSUME NEW n \in Nat, NEW k \in 1..n
    PROVE  /\ 1..k \in SUBSET (1..n) /\ 1..k # {} /\ Max(1..k) = k
           /\ (1..k) \ {Max(1..k)} = 1..k - 1
<1>1. 1..k \in SUBSET (1..n) /\ 1..k # {} /\ k \in 1..k
  OBVIOUS
<1>2. Max(1..k) \in 1..k /\ k <= Max(1..k)
  BY <1>1, LastOf
<1> QED
  BY <1>1, <1>2

IsLoop(it, first, step, n) ==
    it = [s \in SUBSET (1..n) |->
             IF s = {} THEN first ELSE step[<<it[s \ {Max(s)}], Max(s)>>]]

IsLoopIn(X, it, first, step, n) ==
    IsLoop(it, first, step, n) /\ \A s \in SUBSET (1..n) : it[s] \in X

LEMMA LoopExists ==
    ASSUME NEW n \in Nat, NEW X, NEW first \in X, NEW step \in [X \X (1..n) -> X]
    PROVE  \E it : IsLoopIn(X, it, first, step, n)
<1> DEFINE G == {k \in 0..n : \E it : IsLoopIn(X, it, first, step, k)}
<1> USE DEF IsLoopIn
<1>1. 0 \in G
  <2> DEFINE none == [s \in SUBSET (1..0) |-> first]
  <2>1. \A s \in SUBSET (1..0) : s = {}
    OBVIOUS
  <2>2. none = [s \in SUBSET (1..0) |->
                   IF s = {} THEN first ELSE step[<<none[s \ {Max(s)}], Max(s)>>]]
    <3> DEFINE Value(s) == IF s = {} THEN first ELSE step[<<none[s \ {Max(s)}], Max(s)>>]
    <3>1. \A s \in SUBSET (1..0) : first = Value(s)
      BY <2>1
    <3> HIDE DEF Value
    <3>2. [s \in SUBSET (1..0) |-> first] = [s \in SUBSET (1..0) |-> Value(s)]
      BY <3>1
    <3> QED
      BY <3>2 DEF Value
  <2>3. \A s \in SUBSET (1..0) : none[s] \in X
    OBVIOUS
  <2> HIDE DEF none
  <2>4. IsLoopIn(X, none, first, step, 0) /\ 0 \in 0..n
    BY <2>2, <2>3 DEF IsLoop
  <2> HIDE DEF IsLoopIn
  <2> QED
    BY <2>4
<1>2. ASSUME NEW k \in 0..n - 1, k \in G PROVE k + 1 \in G
  <2>1. PICK it : IsLoopIn(X, it, first, step, k)
    BY <1>2
  <2> DEFINE Value(s) == IF k + 1 \in s THEN step[<<it[s \ {k + 1}], k + 1>>] ELSE it[s]
             new == [s \in SUBSET (1..k + 1) |-> Value(s)]
  <2>2. ASSUME NEW s \in SUBSET (1..k + 1) PROVE s \ {k + 1} \in SUBSET (1..k)
    OBVIOUS
  <2>3. ASSUME NEW s \in SUBSET (1..k + 1), k + 1 \in s
        PROVE  /\ Value(s) \in X /\ Max(s) = k + 1
               /\ Value(s) = step[<<new[s \ {Max(s)}], Max(s)>>]
    <3>1. k + 1 \in Nat /\ s # {}
      BY <2>3
    <3>2. Max(s) = k + 1
      <4> HIDE DEF Value, new, G
      <4>1. Max(s) \in s /\ \A j \in s : j <= Max(s)
        BY <3>1, LastOf
      <4>2. Max(s) \in 1..k + 1 /\ k + 1 <= Max(s)
        BY <2>3, <4>1
      <4> QED
        BY <4>2
    <3>3. s \ {k + 1} \in SUBSET (1..k) /\ it[s \ {k + 1}] \in X
      BY <2>1, <2>2
    <3>4. new[s \ {k + 1}] = it[s \ {k + 1}]
      BY <3>3
    <3>5. Value(s) = step[<<it[s \ {k + 1}], k + 1>>]
      BY <2>3
    <3>6. k + 1 \in 1..n
      OBVIOUS
    <3> HIDE DEF Value, new
    <3> QED
      BY <3>2, <3>3, <3>4, <3>5, <3>6
  <2>4. ASSUME NEW s \in SUBSET (1..k + 1), k + 1 \notin s
        PROVE  /\ Value(s) \in X
               /\ Value(s) = IF s = {} THEN first
                             ELSE step[<<new[s \ {Max(s)}], Max(s)>>]
    <3>1. s \in SUBSET (1..k) /\ s \ {Max(s)} \in SUBSET (1..k)
      <4>1. ASSUME NEW j \in s PROVE j \in 1..k
        <5>1. j \in 1..k + 1 /\ j # k + 1
          BY <2>4
        <5> QED
          BY <5>1
      <4> QED
        BY <4>1
    <3>2. new[s \ {Max(s)}] = it[s \ {Max(s)}]
      <4>1. s \ {Max(s)} \in SUBSET (1..k + 1) /\ k + 1 \notin s \ {Max(s)}
        BY <2>4
      <4> DEFINE u == s \ {Max(s)}
      <4> HIDE DEF u
      <4>2. u \in SUBSET (1..k + 1) /\ k + 1 \notin u
        BY <4>1 DEF u
      <4>3. new[u] = it[u]
        BY <4>2
      <4> QED
        BY <4>3 DEF u
    <3>3. it[s] = IF s = {} THEN first ELSE step[<<it[s \ {Max(s)}], Max(s)>>]
      BY <2>1, <3>1 DEF IsLoop
    <3>4. it[s] \in X
      BY <2>1, <3>1
    <3>5. Value(s) = it[s]
      BY <2>4
    <3> HIDE DEF Value, new
    <3> QED
      BY <3>2, <3>3, <3>4, <3>5
  <2>5. \A s \in SUBSET (1..k + 1) :
           /\ Value(s) \in X
           /\ Value(s) = IF s = {} THEN first ELSE step[<<new[s \ {Max(s)}], Max(s)>>]
    <3> HIDE DEF Value, new
    <3> QED
      BY <2>3, <2>4
  <2>6. new = [s \in SUBSET (1..k + 1) |->
                  IF s = {} THEN first ELSE step[<<new[s \ {Max(s)}], Max(s)>>]]
    <3>1. new = [s \in SUBSET (1..k + 1) |-> Value(s)]
      OBVIOUS
    <3> HIDE DEF Value, new
    <3> QED
      BY <2>5, <3>1
  <2>7. \A s \in SUBSET (1..k + 1) : new[s] \in X
    <3>1. new = [s \in SUBSET (1..k + 1) |-> Value(s)]
      OBVIOUS
    <3> HIDE DEF Value, new
    <3> QED
      BY <2>5, <3>1
  <2>8. IsLoopIn(X, new, first, step, k + 1)
    <3> HIDE DEF new, G
    <3> QED
      BY <2>6, <2>7 DEF IsLoop
  <2>9. k + 1 \in 0..n
    OBVIOUS
  <2> HIDE DEF IsLoopIn, new
  <2> QED
    BY <2>8, <2>9
<1>3. n \in G
  <2> HIDE DEF G
  <2> QED
    BY <1>1, <1>2, UpTo
<1> QED
  BY <1>3

------------------------------------------------------------------------------
(* What the table holds: every route filled in, and in an order.           *)
Filling ==
    [host : Patterns, path : Seq(Fragments) \ {<<>>}, match : {"exact", "prefix", "regex"},
     lang : SUBSET Asked, priority : Int, nodes : BOOLEAN]

Rows == [plan : Filling, enabled : BOOLEAN]

(* The order that is left of the comparison, which is none.                *)
InOrder(x, y) ==
    \/ x.plan.priority > y.plan.priority
    \/ /\ x.plan.priority = y.plan.priority
       /\ AnyHost(x.plan) /\ ~AnyHost(y.plan) => Len(x.plan.path) > Len(y.plan.path)

Sorted(s) == \A i, j \in 1..Len(s) : i < j => InOrder(s[i], s[j])

LEMMA CompletedIs ==
    ASSUME NEW p \in [host : Patterns, path : Seq(STRING), match : {"", "exact", "prefix", "regex"},
                      lang : SUBSET Asked, priority : Int, nodes : BOOLEAN] \cup Filling
    PROVE  Completed(p) \in Filling /\ (p \in Filling => Completed(p) = p)
<1> DEFINE match == IF p.match = "" THEN "prefix" ELSE p.match
           path  == IF p.path = <<>> THEN Slash ELSE p.path
<1>1. /\ p.path \in Seq(Fragments) /\ p.host \in Patterns
      /\ p.match \in {"", "exact", "prefix", "regex"} /\ p.lang \in SUBSET Asked
      /\ p.priority \in Int /\ p.nodes \in BOOLEAN
      /\ p = [host |-> p.host, path |-> p.path, match |-> p.match, lang |-> p.lang,
              priority |-> p.priority, nodes |-> p.nodes]
  BY PathsAreSeqs DEF Filling
<1>2. Completed(p) = [host |-> p.host, path |-> path, match |-> match, lang |-> p.lang,
                      priority |-> p.priority, nodes |-> p.nodes]
  BY DEF Completed
<1>3. path \in Seq(Fragments) \ {<<>>}
  <2>1. Slash \in Seq(Fragments) /\ Slash # <<>>
    BY Slashes, EmptySeq
  <2> QED
    BY <1>1, <2>1
<1>4. match \in {"exact", "prefix", "regex"}
  BY <1>1
<1>5. Completed(p) \in Filling
  <2> HIDE DEF match, path
  <2>1. \A h \in Patterns, l \in SUBSET Asked, i \in Int, n \in BOOLEAN :
           [host |-> h, path |-> path, match |-> match, lang |-> l, priority |-> i, nodes |-> n]
              \in Filling
    BY <1>3, <1>4 DEF Filling
  <2> HIDE DEF Filling
  <2>2. /\ p.host \in Patterns /\ p.lang \in SUBSET Asked
        /\ p.priority \in Int /\ p.nodes \in BOOLEAN
    BY <1>1
  <2>3. [host |-> p.host, path |-> path, match |-> match, lang |-> p.lang,
         priority |-> p.priority, nodes |-> p.nodes] \in Filling
    BY <2>1, <2>2
  <2> QED
    BY <1>2, <2>3
<1>6. ASSUME p \in Filling PROVE Completed(p) = p
  <2>1. p.match # "" /\ p.path # <<>>
    BY <1>6 DEF Filling
  <2> QED
    BY <1>1, <1>2, <2>1
<1> QED
  BY <1>5, <1>6

LEMMA FilledIsRow ==
    ASSUME NEW e \in Entries \cup Rows
    PROVE  /\ Filled(e) \in Rows
           /\ e \in Rows => Filled(e) = e
<1>1. /\ e.enabled \in BOOLEAN /\ e = [plan |-> e.plan, enabled |-> e.enabled]
      /\ e.plan \in Plans \/ e.plan \in Filling
      /\ e \in Rows => e.plan \in Filling
  BY DEF Entries, Rows
<1>2. Completed(e.plan) \in Filling /\ (e.plan \in Filling => Completed(e.plan) = e.plan)
  BY <1>1, CompletedIs, RoutingAssumption
<1>3. Filled(e) = [plan |-> Completed(e.plan), enabled |-> e.enabled]
  BY DEF Filled
<1> QED
  BY <1>1, <1>2, <1>3 DEF Rows

LEMMA InsertAtIs ==
    ASSUME NEW S, NEW s \in Seq(S), NEW x \in S, NEW at \in 1..Len(s) + 1
    PROVE  LET t == InsertAt(s, at, x)
           IN  /\ t \in Seq(S) /\ Len(t) = Len(s) + 1 /\ Len(s) \in Nat
               /\ t[at] = x
               /\ \A k \in 1..at - 1 : t[k] = s[k]
               /\ \A k \in at + 1..Len(s) + 1 : t[k] = s[k - 1]
<1> DEFINE a == SubSeq(s, 1, at - 1)
           b == SubSeq(s, at, Len(s))
           n == Len(s)
<1>1. n \in Nat /\ \A k \in 1..n : s[k] \in S
  BY LenProperties, ElementOfSeq
<1>2. a \in Seq(S) /\ Len(a) = at - 1 /\ \A k \in 1..at - 1 : a[k] = s[k]
  <2>1. /\ SubSeq(s, 1, at - 1) \in Seq(S)
        /\ Len(SubSeq(s, 1, at - 1)) = IF 1 <= at - 1 THEN at - 1 - 1 + 1 ELSE 0
        /\ \A k \in 1..at - 1 - 1 + 1 : SubSeq(s, 1, at - 1)[k] = s[1 + k - 1]
    <3>1. \A k \in 1..at - 1 : s[k] \in S
      BY <1>1
    <3> QED
      BY <3>1, SubSeqProperties
  <2> QED
    BY <1>1, <2>1
<1>3. b \in Seq(S) /\ Len(b) = n - at + 1 /\ \A k \in 1..n - at + 1 : b[k] = s[at + k - 1]
  <2>1. /\ SubSeq(s, at, n) \in Seq(S)
        /\ Len(SubSeq(s, at, n)) = IF at <= n THEN n - at + 1 ELSE 0
        /\ \A k \in 1..n - at + 1 : SubSeq(s, at, n)[k] = s[at + k - 1]
    <3>1. \A k \in at..n : s[k] \in S
      BY <1>1
    <3> QED
      BY <1>1, <3>1, SubSeqProperties
  <2> QED
    BY <1>1, <2>1
<1>4. <<x>> \in Seq(S) /\ Len(<<x>>) = 1 /\ <<x>>[1] = x
  OBVIOUS
<1> DEFINE c == a \o <<x>>
<1> HIDE DEF a, b, n
<1>5. c \in Seq(S) /\ Len(c) = at /\ c[at] = x /\ \A k \in 1..at - 1 : c[k] = s[k]
  BY <1>1, <1>2, <1>4, ConcatProperties
<1> HIDE DEF c
<1>6. /\ c \o b \in Seq(S) /\ Len(c \o b) = n + 1
      /\ \A k \in 1..n + 1 : (c \o b)[k] = IF k <= at THEN c[k] ELSE b[k - at]
  <2>1. /\ c \o b \in Seq(S) /\ Len(c \o b) = Len(c) + Len(b)
        /\ \A k \in 1..Len(c) + Len(b) :
              (c \o b)[k] = IF k <= Len(c) THEN c[k] ELSE b[k - Len(c)]
    BY <1>3, <1>5, ConcatProperties
  <2>2. Len(c) + Len(b) = n + 1 /\ Len(c) = at
    BY <1>1, <1>3, <1>5
  <2> QED
    BY <2>1, <2>2
<1>7. InsertAt(s, at, x) = c \o b
  BY DEF InsertAt, a, b, c, n
<1> QED
  BY <1>1, <1>3, <1>5, <1>6, <1>7 DEF n

LEMMA InsertedIs ==
    ASSUME NEW s \in Seq(Rows), NEW x \in Rows
    PROVE  \E at \in 1..Len(s) + 1 :
              /\ Inserted(s, x) = InsertAt(s, at, x)
              /\ \A k \in at..Len(s) : Less(x, s[k])
              /\ at > 1 => ~Less(x, s[at - 1])
<1> DEFINE Stays == {k \in 1..Len(s) : ~Less(x, s[k])}
           last  == CHOOSE k \in Stays : \A j \in Stays : j <= k
           at    == IF Stays = {} THEN 1 ELSE 1 + last
<1>1. Len(s) \in Nat
  BY LenProperties
<1>2. Inserted(s, x) = InsertAt(s, at, x)
  BY DEF Inserted
<1>3. CASE Stays = {}
  BY <1>1, <1>2, <1>3
<1>4. CASE Stays # {}
  <2>1. last \in Stays /\ \A j \in Stays : j <= last
    <3>1. Stays \subseteq 0..Len(s)
      BY <1>1
    <3> HIDE DEF Stays
    <3>2. \E k \in Stays : \A j \in Stays : j <= k
      BY <1>1, <1>4, <3>1, LargestUpTo
    <3> QED
      BY <3>2
  <2>2. at = 1 + last /\ last \in 1..Len(s) /\ ~Less(x, s[last])
    BY <1>4, <2>1
  <2> HIDE DEF last
  <2>3. \A k \in 1..Len(s) : k > last => Less(x, s[k])
    BY <1>1, <2>1, <2>2
  <2> HIDE DEF at
  <2> QED
    BY <1>1, <1>2, <2>2, <2>3
<1> QED
  BY <1>3, <1>4

LEMMA RowFields ==
    ASSUME NEW x \in Rows
    PROVE  /\ x.plan.priority \in Int /\ x.plan.path \in Seq(Fragments)
           /\ Len(x.plan.path) \in Nat \ {0}
           /\ x.plan.match \in {"exact", "prefix", "regex"}
           /\ x.plan.host \in Patterns /\ x.plan.nodes \in BOOLEAN
<1>1. x.plan \in Filling
  BY DEF Rows
<1>2. /\ x.plan.priority \in Int /\ x.plan.path \in Seq(Fragments) /\ x.plan.path # <<>>
      /\ x.plan.match \in {"exact", "prefix", "regex"}
      /\ x.plan.host \in Patterns /\ x.plan.nodes \in BOOLEAN
  BY <1>1 DEF Filling
<1>3. Len(x.plan.path) \in Nat \ {0}
  BY <1>2, EmptySeq
<1> QED
  BY <1>2, <1>3

(* What the comparison says of two routes, and of three.                   *)
LEMMA LessIsInOrder ==
    ASSUME NEW x \in Rows, NEW y \in Rows
    PROVE  IF Less(x, y) THEN InOrder(x, y) ELSE InOrder(y, x)
  BY RowFields DEF Less, InOrder

LEMMA InOrderBefore ==
    ASSUME NEW x \in Rows, NEW y \in Rows, NEW z \in Rows,
           InOrder(z, y), ~Less(x, y)
    PROVE  InOrder(z, x)
  BY RowFields DEF Less, InOrder

(* The sort keeps the order, though its comparison is none.                *)
LEMMA InsertedSorted ==
    ASSUME NEW s \in Seq(Rows), NEW x \in Rows, Sorted(s)
    PROVE  Inserted(s, x) \in Seq(Rows) /\ Sorted(Inserted(s, x))
<1>1. PICK at \in 1..Len(s) + 1 :
         /\ Inserted(s, x) = InsertAt(s, at, x)
         /\ \A k \in at..Len(s) : Less(x, s[k])
         /\ at > 1 => ~Less(x, s[at - 1])
  BY InsertedIs
<1> DEFINE t == InsertAt(s, at, x)
           n == Len(s)
<1>2. /\ t \in Seq(Rows) /\ Len(t) = n + 1 /\ n \in Nat /\ t[at] = x
      /\ \A k \in 1..at - 1 : t[k] = s[k]
      /\ \A k \in at + 1..n + 1 : t[k] = s[k - 1]
  BY InsertAtIs
<1>3. at \in 1..n + 1 /\ \A k \in 1..n : s[k] \in Rows
  BY ElementOfSeq
<1>4. \A i, j \in 1..n : i < j => InOrder(s[i], s[j])
  BY DEF Sorted
<1>5. \A k \in at..n : InOrder(x, s[k])
  BY <1>1, <1>2, <1>3, LessIsInOrder
<1>6. ASSUME NEW k \in 1..at - 1 PROVE InOrder(s[k], x)
  <2>1. at - 1 \in 1..n /\ k \in 1..n /\ ~Less(x, s[at - 1])
    BY <1>1, <1>2, <1>3
  <2>2. CASE k = at - 1
    BY <1>3, <2>1, <2>2, LessIsInOrder
  <2>3. CASE k # at - 1
    <3>1. InOrder(s[k], s[at - 1])
      BY <1>3, <1>4, <2>1, <2>3
    <3> QED
      BY <1>3, <2>1, <3>1, InOrderBefore
  <2> QED
    BY <2>2, <2>3
<1> HIDE DEF t, n
<1>7. ASSUME NEW i \in 1..n + 1, NEW j \in 1..n + 1, i < j
      PROVE  InOrder(t[i], t[j])
  <2>1. CASE i < at /\ j < at
    <3>1. t[i] = s[i] /\ t[j] = s[j] /\ i \in 1..n /\ j \in 1..n
      BY <1>2, <1>3, <2>1
    <3> QED
      BY <1>4, <1>7, <3>1
  <2>2. CASE i < at /\ j = at
    <3>1. t[i] = s[i] /\ t[j] = x /\ i \in 1..at - 1
      BY <1>2, <1>3, <2>2
    <3> QED
      BY <1>6, <3>1
  <2>3. CASE i < at /\ j > at
    <3>1. t[i] = s[i] /\ t[j] = s[j - 1] /\ i \in 1..n /\ j - 1 \in 1..n /\ i < j - 1
      BY <1>2, <1>3, <2>3
    <3> QED
      BY <1>4, <3>1
  <2>4. CASE i = at
    <3>1. t[i] = x /\ t[j] = s[j - 1] /\ j - 1 \in at..n
      BY <1>2, <1>3, <1>7, <2>4
    <3> QED
      BY <1>5, <3>1
  <2>5. CASE i > at
    <3>1. t[i] = s[i - 1] /\ t[j] = s[j - 1] /\ i - 1 \in 1..n /\ j - 1 \in 1..n /\ i - 1 < j - 1
      BY <1>2, <1>3, <1>7, <2>5
    <3> QED
      BY <1>4, <3>1
  <2>6. i \in Int /\ j \in Int /\ at \in Int
    BY <1>2, <1>3
  <2> QED
    BY <2>1, <2>2, <2>3, <2>4, <2>5, <2>6
<1>8. Sorted(t)
  BY <1>2, <1>7 DEF Sorted
<1> QED
  BY <1>1, <1>2, <1>8 DEF t

------------------------------------------------------------------------------
(* The three loops, each as the sequence of what it holds: the sort, the   *)
(* building of the handlers and the scan of them.                          *)
LEMMA LoopStays ==
    ASSUME NEW n \in Nat, NEW X, NEW a, a[0] \in X,
           \A k \in 1..n : a[k - 1] \in X => a[k] \in X
    PROVE  \A k \in 0..n : a[k] \in X
<1> DEFINE G == {k \in 0..n : a[k] \in X}
<1>1. 0 \in G
  OBVIOUS
<1>2. ASSUME NEW k \in 0..n - 1, k \in G PROVE k + 1 \in G
  <2>1. k + 1 \in 1..n /\ (k + 1) - 1 = k
    OBVIOUS
  <2>2. a[k + 1] \in X
    BY <1>2, <2>1
  <2> QED
    BY <2>1, <2>2
<1>3. \A k \in 0..n : k \in G
  <2> HIDE DEF G
  <2> QED
    BY <1>1, <1>2, UpTo
<1> QED
  BY <1>3

IsSorting(it, seq) ==
    it = [s \in SUBSET DOMAIN seq |->
             IF s = {} THEN <<>> ELSE Inserted(it[s \ {Max(s)}], seq[Max(s)])]

LEMMA InsertedIsSeq ==
    ASSUME NEW s \in Seq(Rows), NEW x \in Rows
    PROVE  Inserted(s, x) \in Seq(Rows)
  BY InsertedIs, InsertAtIs

LEMMA SortLoop ==
    ASSUME NEW n \in Nat, NEW routes, DOMAIN routes = 1..n,
           \A i \in 1..n : Filled(routes[i]) \in Rows
    PROVE  \E a \in [0..n -> Seq(Rows)] :
              /\ a[0] = <<>> /\ Normalized(routes) = a[n]
              /\ \A k \in 1..n : a[k] = Inserted(a[k - 1], Filled(routes[k]))
<1> DEFINE seq  == [i \in DOMAIN routes |-> Filled(routes[i])]
           it   == CHOOSE f : IsSorting(f, seq)
           step == [p \in Seq(Rows) \X (1..n) |-> Inserted(p[1], seq[p[2]])]
           a    == [k \in 0..n |-> it[1..k]]
<1>1. Normalized(routes) = it[DOMAIN seq]
  BY DEF Normalized, FoldLeft, MapThenFoldSet, IsSorting
<1>2. /\ DOMAIN seq = 1..n
      /\ \A i \in 1..n : seq[i] = Filled(routes[i]) /\ seq[i] \in Rows
  OBVIOUS
<1>3. <<>> \in Seq(Rows)
  BY EmptySeq
<1> HIDE DEF seq
<1>4. step \in [Seq(Rows) \X (1..n) -> Seq(Rows)]
  BY <1>2, InsertedIsSeq
<1>5. \A s \in Seq(Rows), k \in 1..n : step[<<s, k>>] = Inserted(s, seq[k])
  OBVIOUS
<1>6. PICK f : IsLoopIn(Seq(Rows), f, <<>>, step, n)
  <2> HIDE DEF step
  <2> QED
    BY <1>3, <1>4, LoopExists
<1> HIDE DEF step
<1>7. IsSorting(f, seq)
  <2> DEFINE Value(s) == IF s = {} THEN <<>> ELSE Inserted(f[s \ {Max(s)}], seq[Max(s)])
  <2>1. f = [s \in SUBSET (1..n) |->
                IF s = {} THEN <<>> ELSE step[<<f[s \ {Max(s)}], Max(s)>>]]
    BY <1>6 DEF IsLoopIn, IsLoop
  <2>2. ASSUME NEW s \in SUBSET (1..n)
        PROVE  (IF s = {} THEN <<>> ELSE step[<<f[s \ {Max(s)}], Max(s)>>]) = Value(s)
    <3>1. CASE s = {}
      BY <3>1
    <3>2. CASE s # {}
      <4>1. Max(s) \in 1..n
        BY <3>2, LastOf
      <4>2. f[s \ {Max(s)}] \in Seq(Rows)
        BY <1>6 DEF IsLoopIn
      <4> QED
        BY <1>5, <3>2, <4>1, <4>2
    <3> QED
      BY <3>1, <3>2
  <2> HIDE DEF Value
  <2>3. f = [s \in SUBSET (1..n) |-> Value(s)]
    BY <2>1, <2>2
  <2> QED
    BY <1>2, <2>3 DEF IsSorting, Value
<1>8. IsSorting(it, seq)
  BY <1>7
<1> HIDE DEF it
<1>9. /\ a[0] = <<>>
      /\ \A k \in 1..n : a[k] = Inserted(a[k - 1], seq[k])
  <2>1. it[{}] = <<>>
    <3>1. {} \in SUBSET DOMAIN seq
      OBVIOUS
    <3> QED
      BY <1>8, <3>1 DEF IsSorting
  <2>2. 1..0 = {} /\ 0 \in 0..n
    OBVIOUS
  <2>3. ASSUME NEW k \in 1..n PROVE a[k] = Inserted(a[k - 1], seq[k])
    <3>1. it[1..k] = Inserted(it[(1..k) \ {Max(1..k)}], seq[Max(1..k)])
      BY <1>2, <1>8, Rounds DEF IsSorting
    <3>2. a[k] = it[1..k] /\ a[k - 1] = it[1..k - 1]
      OBVIOUS
    <3> HIDE DEF a
    <3> QED
      BY <3>1, <3>2, Rounds
  <2> QED
    BY <2>1, <2>2, <2>3
<1>10. Normalized(routes) = a[n]
  BY <1>1, <1>2
<1>11. \A k \in 0..n : a[k] \in Seq(Rows)
  <2>1. a[0] \in Seq(Rows)
    BY <1>3, <1>9
  <2>2. \A k \in 1..n : a[k - 1] \in Seq(Rows) => a[k] \in Seq(Rows)
    <3> HIDE DEF a
    <3> QED
      BY <1>2, <1>9, InsertedIsSeq
  <2> HIDE DEF a
  <2> QED
    BY <2>1, <2>2, LoopStays
<1>12. a \in [0..n -> Seq(Rows)]
  BY <1>11
<1> HIDE DEF a
<1> QED
  BY <1>2, <1>9, <1>10, <1>12

(* One step of Engine.Reload: a route with nodes gets a handler.           *)
Built(built, h) == IF h.plan.nodes THEN Append(built, h) ELSE built

IsBuilding(it, seq) ==
    it = [s \in SUBSET DOMAIN seq |->
             IF s = {} THEN <<>> ELSE Built(it[s \ {Max(s)}], seq[Max(s)])]

LEMMA BuiltIsSeq ==
    ASSUME NEW s \in Seq(Rows), NEW x \in Rows
    PROVE  Built(s, x) \in Seq(Rows)
  BY AppendProperties DEF Built

LEMMA BuildLoop ==
    ASSUME NEW n \in Nat, NEW seq, DOMAIN seq = 1..n, \A i \in 1..n : seq[i] \in Rows
    PROVE  \E a \in [0..n -> Seq(Rows)] :
              /\ a[0] = <<>> /\ Handlers(seq) = a[n]
              /\ \A k \in 1..n : a[k] = Built(a[k - 1], seq[k])
<1> DEFINE it   == CHOOSE f : IsBuilding(f, seq)
           step == [p \in Seq(Rows) \X (1..n) |-> Built(p[1], seq[p[2]])]
           a    == [k \in 0..n |-> it[1..k]]
<1>1. Handlers(seq) = it[DOMAIN seq]
  BY DEF Handlers, Built, FoldLeft, MapThenFoldSet, IsBuilding
<1>2. DOMAIN seq = 1..n /\ \A i \in 1..n : seq[i] \in Rows
  OBVIOUS
<1>3. <<>> \in Seq(Rows)
  BY EmptySeq
<1>4. step \in [Seq(Rows) \X (1..n) -> Seq(Rows)]
  BY <1>2, BuiltIsSeq
<1>5. \A s \in Seq(Rows), k \in 1..n : step[<<s, k>>] = Built(s, seq[k])
  OBVIOUS
<1>6. PICK f : IsLoopIn(Seq(Rows), f, <<>>, step, n)
  <2> HIDE DEF step
  <2> QED
    BY <1>3, <1>4, LoopExists
<1> HIDE DEF step
<1>7. IsBuilding(f, seq)
  <2> DEFINE Value(s) == IF s = {} THEN <<>> ELSE Built(f[s \ {Max(s)}], seq[Max(s)])
  <2>1. f = [s \in SUBSET (1..n) |->
                IF s = {} THEN <<>> ELSE step[<<f[s \ {Max(s)}], Max(s)>>]]
    BY <1>6 DEF IsLoopIn, IsLoop
  <2>2. ASSUME NEW s \in SUBSET (1..n)
        PROVE  (IF s = {} THEN <<>> ELSE step[<<f[s \ {Max(s)}], Max(s)>>]) = Value(s)
    <3>1. CASE s = {}
      BY <3>1
    <3>2. CASE s # {}
      <4>1. Max(s) \in 1..n
        BY <3>2, LastOf
      <4>2. f[s \ {Max(s)}] \in Seq(Rows)
        BY <1>6 DEF IsLoopIn
      <4> QED
        BY <1>5, <3>2, <4>1, <4>2
    <3> QED
      BY <3>1, <3>2
  <2> HIDE DEF Value
  <2>3. f = [s \in SUBSET (1..n) |-> Value(s)]
    BY <2>1, <2>2
  <2> QED
    BY <1>2, <2>3 DEF IsBuilding, Value
<1>8. IsBuilding(it, seq)
  BY <1>7
<1> HIDE DEF it
<1>9. /\ a[0] = <<>>
      /\ \A k \in 1..n : a[k] = Built(a[k - 1], seq[k])
  <2>1. it[{}] = <<>>
    <3>1. {} \in SUBSET DOMAIN seq
      OBVIOUS
    <3> QED
      BY <1>8, <3>1 DEF IsBuilding
  <2>2. 1..0 = {} /\ 0 \in 0..n
    OBVIOUS
  <2>3. ASSUME NEW k \in 1..n PROVE a[k] = Built(a[k - 1], seq[k])
    <3>1. it[1..k] = Built(it[(1..k) \ {Max(1..k)}], seq[Max(1..k)])
      BY <1>2, <1>8, Rounds DEF IsBuilding
    <3>2. a[k] = it[1..k] /\ a[k - 1] = it[1..k - 1]
      OBVIOUS
    <3> HIDE DEF a
    <3> QED
      BY <3>1, <3>2, Rounds
  <2> QED
    BY <2>1, <2>2, <2>3
<1>10. Handlers(seq) = a[n]
  BY <1>1, <1>2
<1>11. \A k \in 0..n : a[k] \in Seq(Rows)
  <2>1. a[0] \in Seq(Rows)
    BY <1>3, <1>9
  <2>2. \A k \in 1..n : a[k - 1] \in Seq(Rows) => a[k] \in Seq(Rows)
    <3> HIDE DEF a
    <3> QED
      BY <1>2, <1>9, BuiltIsSeq
  <2> HIDE DEF a
  <2> QED
    BY <2>1, <2>2, LoopStays
<1>12. a \in [0..n -> Seq(Rows)]
  BY <1>11
<1> HIDE DEF a
<1> QED
  BY <1>2, <1>9, <1>10, <1>12

(* One step of Engine.match: the handler replaces the best so far, if it   *)
(* accepts the request and weighs more.                                    *)
Result(h) == [score |-> Score(h.plan), route |-> h]

Results == {Nobody} \cup {Result(h) : h \in Rows}

Kept(best, h, q) == IF Matches(h, q) /\ Score(h.plan) > best.score THEN Result(h) ELSE best

IsScan(it, seq, q) ==
    it = [s \in SUBSET DOMAIN seq |->
             IF s = {} THEN Nobody ELSE Kept(it[s \ {Max(s)}], seq[Max(s)], q)]

LEMMA KeptIsResult ==
    ASSUME NEW q, NEW s \in Results, NEW x \in Rows
    PROVE  Kept(s, x, q) \in Results
  BY DEF Kept, Results

LEMMA ScanLoop ==
    ASSUME NEW routes, NEW q, Handlers(routes) \in Seq(Rows)
    PROVE  LET seq == Handlers(routes)
               n   == Len(seq)
           IN  \E a \in [0..n -> Results] :
                  /\ a[0] = Nobody /\ Choice(routes, q) = a[n]
                  /\ \A k \in 1..n : a[k] = Kept(a[k - 1], seq[k], q)
<1> DEFINE seq  == Handlers(routes)
           n    == Len(seq)
           it   == CHOOSE f : IsScan(f, seq, q)
           step == [p \in Results \X (1..n) |-> Kept(p[1], seq[p[2]], q)]
           a    == [k \in 0..n |-> it[1..k]]
<1>1. Choice(routes, q) = it[DOMAIN seq]
  BY DEF Choice, Kept, Result, FoldLeft, MapThenFoldSet, IsScan
<1>2. n \in Nat /\ DOMAIN seq = 1..n /\ \A i \in 1..n : seq[i] \in Rows
  BY LenProperties, ElementOfSeq
<1> HIDE DEF seq, n
<1>3. Nobody \in Results
  BY DEF Results
<1>4. step \in [Results \X (1..n) -> Results]
  BY <1>2, KeptIsResult
<1>5. \A s \in Results, k \in 1..n : step[<<s, k>>] = Kept(s, seq[k], q)
  OBVIOUS
<1>6. PICK f : IsLoopIn(Results, f, Nobody, step, n)
  <2> HIDE DEF step
  <2> QED
    BY <1>2, <1>3, <1>4, LoopExists
<1> HIDE DEF step
<1>7. IsScan(f, seq, q)
  <2> DEFINE Value(s) == IF s = {} THEN Nobody ELSE Kept(f[s \ {Max(s)}], seq[Max(s)], q)
  <2>1. f = [s \in SUBSET (1..n) |->
                IF s = {} THEN Nobody ELSE step[<<f[s \ {Max(s)}], Max(s)>>]]
    BY <1>6 DEF IsLoopIn, IsLoop
  <2>2. ASSUME NEW s \in SUBSET (1..n)
        PROVE  (IF s = {} THEN Nobody ELSE step[<<f[s \ {Max(s)}], Max(s)>>]) = Value(s)
    <3>1. CASE s = {}
      BY <3>1
    <3>2. CASE s # {}
      <4>1. Max(s) \in 1..n
        BY <1>2, <3>2, LastOf
      <4>2. f[s \ {Max(s)}] \in Results
        BY <1>6 DEF IsLoopIn
      <4> QED
        BY <1>5, <3>2, <4>1, <4>2
    <3> QED
      BY <3>1, <3>2
  <2> HIDE DEF Value
  <2>3. f = [s \in SUBSET (1..n) |-> Value(s)]
    BY <2>1, <2>2
  <2> QED
    BY <1>2, <2>3 DEF IsScan, Value
<1>8. IsScan(it, seq, q)
  BY <1>7
<1> HIDE DEF it
<1>9. /\ a[0] = Nobody
      /\ \A k \in 1..n : a[k] = Kept(a[k - 1], seq[k], q)
  <2>1. it[{}] = Nobody
    <3>1. {} \in SUBSET DOMAIN seq
      OBVIOUS
    <3> QED
      BY <1>8, <3>1 DEF IsScan
  <2>2. 1..0 = {} /\ 0 \in 0..n
    BY <1>2
  <2>3. ASSUME NEW k \in 1..n PROVE a[k] = Kept(a[k - 1], seq[k], q)
    <3>1. it[1..k] = Kept(it[(1..k) \ {Max(1..k)}], seq[Max(1..k)], q)
      BY <1>2, <1>8, Rounds DEF IsScan
    <3>2. a[k] = it[1..k] /\ a[k - 1] = it[1..k - 1]
      BY <1>2
    <3> HIDE DEF a
    <3> QED
      BY <1>2, <3>1, <3>2, Rounds
  <2> QED
    BY <2>1, <2>2, <2>3
<1>10. Choice(routes, q) = a[n]
  BY <1>1, <1>2
<1>11. \A k \in 0..n : a[k] \in Results
  <2>1. a[0] \in Results
    BY <1>3, <1>9
  <2>2. \A k \in 1..n : a[k - 1] \in Results => a[k] \in Results
    <3> HIDE DEF a
    <3> QED
      BY <1>2, <1>9, KeptIsResult
  <2> HIDE DEF a
  <2> QED
    BY <1>2, <2>1, <2>2, LoopStays
<1>12. a \in [0..n -> Results]
  BY <1>11
<1> HIDE DEF a
<1> QED
  BY <1>9, <1>10, <1>12 DEF seq, n

------------------------------------------------------------------------------
(* The table that an Update stores is in order, and so are its handlers.   *)
LEMMA NormalizedSorted ==
    ASSUME NEW n \in Nat, NEW routes, DOMAIN routes = 1..n,
           \A i \in 1..n : Filled(routes[i]) \in Rows
    PROVE  Normalized(routes) \in Seq(Rows) /\ Sorted(Normalized(routes))
<1>1. PICK a \in [0..n -> Seq(Rows)] :
         /\ a[0] = <<>> /\ Normalized(routes) = a[n]
         /\ \A k \in 1..n : a[k] = Inserted(a[k - 1], Filled(routes[k]))
  BY SortLoop
<1> DEFINE X == {s \in Seq(Rows) : Sorted(s)}
<1>2. a[0] \in X
  BY <1>1, EmptySeq DEF Sorted
<1>3. ASSUME NEW k \in 1..n, a[k - 1] \in X PROVE a[k] \in X
  <2>1. a[k - 1] \in Seq(Rows) /\ Sorted(a[k - 1])
    BY <1>3
  <2>2. Filled(routes[k]) \in Rows /\ a[k] = Inserted(a[k - 1], Filled(routes[k]))
    BY <1>1
  <2> QED
    BY <2>1, <2>2, InsertedSorted
<1>4. a[n] \in X
  <2> HIDE DEF X
  <2>1. \A k \in 0..n : a[k] \in X
    BY <1>2, <1>3, LoopStays
  <2> QED
    BY <2>1
<1> QED
  BY <1>1, <1>4

LEMMA HandlersSorted ==
    ASSUME NEW s \in Seq(Rows), Sorted(s)
    PROVE  /\ Handlers(s) \in Seq(Rows) /\ Sorted(Handlers(s))
           /\ \A j \in 1..Len(Handlers(s)) :
                 \E i \in 1..Len(s) : Handlers(s)[j] = s[i] /\ s[i].plan.nodes
<1> DEFINE n == Len(s)
<1>1. n \in Nat /\ DOMAIN s = 1..n /\ \A i \in 1..n : s[i] \in Rows
  BY LenProperties, ElementOfSeq
<1> HIDE DEF n
<1>2. PICK a \in [0..n -> Seq(Rows)] :
         /\ a[0] = <<>> /\ Handlers(s) = a[n]
         /\ \A k \in 1..n : a[k] = Built(a[k - 1], s[k])
  BY <1>1, BuildLoop
<1>3. \A i, j \in 1..n : i < j => InOrder(s[i], s[j])
  BY DEF Sorted, n
<1> DEFINE Sound(t, k) == Sorted(t) /\ \A j \in 1..Len(t) : \E i \in 1..k : t[j] = s[i] /\ s[i].plan.nodes
           G == {k \in 0..n : Sound(a[k], k)}
<1>4. 0 \in G
  <2>1. Len(a[0]) = 0 /\ 0 \in 0..n
    BY <1>1, <1>2, EmptySeq
  <2> QED
    BY <2>1 DEF Sorted
<1>5. ASSUME NEW k \in 0..n - 1, k \in G PROVE k + 1 \in G
  <2> DEFINE t == a[k]
             u == a[k + 1]
             x == s[k + 1]
  <2>1. Sorted(t) /\ \A j \in 1..Len(t) : \E i \in 1..k : t[j] = s[i] /\ s[i].plan.nodes
    BY <1>5
  <2>2. t \in Seq(Rows) /\ x \in Rows /\ u = Built(t, x)
    <3>1. k + 1 \in 1..n /\ (k + 1) - 1 = k /\ k \in 0..n
      BY <1>1
    <3> QED
      BY <1>1, <1>2, <3>1
  <2> HIDE DEF t, u
  <2>3. ASSUME ~x.plan.nodes PROVE Sound(u, k + 1)
    <3>1. u = t
      BY <2>2, <2>3 DEF Built
    <3>2. \A j \in 1..Len(t) : \E i \in 1..k + 1 : t[j] = s[i] /\ s[i].plan.nodes
      BY <2>1
    <3> QED
      BY <2>1, <3>1, <3>2
  <2>4. ASSUME x.plan.nodes PROVE Sound(u, k + 1)
    <3>1. /\ Len(u) = Len(t) + 1 /\ Len(t) \in Nat /\ u[Len(t) + 1] = x
          /\ \A j \in 1..Len(t) : u[j] = t[j]
      BY <2>2, <2>4, AppendProperties, LenProperties DEF Built
    <3>2. ASSUME NEW j \in 1..Len(u) PROVE \E i \in 1..k + 1 : u[j] = s[i] /\ s[i].plan.nodes
      <4>1. CASE j = Len(t) + 1
        BY <2>4, <3>1, <4>1
      <4>2. CASE j # Len(t) + 1
        <5>1. j \in 1..Len(t) /\ u[j] = t[j]
          BY <3>1, <4>2
        <5> QED
          BY <2>1, <5>1
      <4> QED
        BY <4>1, <4>2
    <3>3. ASSUME NEW i \in 1..Len(u), NEW j \in 1..Len(u), i < j
          PROVE  InOrder(u[i], u[j])
      <4>1. i \in 1..Len(t) /\ u[i] = t[i]
        BY <3>1, <3>3
      <4>2. CASE j = Len(t) + 1
        <5>1. PICK m \in 1..k : t[i] = s[m]
          BY <2>1, <4>1
        <5>2. m \in 1..n /\ k + 1 \in 1..n /\ m < k + 1
          BY <1>1
        <5>3. InOrder(s[m], x)
          BY <1>3, <5>2
        <5> QED
          BY <3>1, <4>1, <4>2, <5>1, <5>3
      <4>3. CASE j # Len(t) + 1
        <5>1. j \in 1..Len(t) /\ u[j] = t[j]
          BY <3>1, <4>3
        <5> QED
          BY <2>1, <3>3, <4>1, <5>1 DEF Sorted
      <4> QED
        BY <4>2, <4>3
    <3> QED
      BY <3>2, <3>3 DEF Sorted
  <2>5. Sound(u, k + 1)
    BY <2>3, <2>4
  <2>6. k + 1 \in 0..n
    BY <1>1
  <2> QED
    BY <2>5, <2>6 DEF u
<1>6. n \in G
  <2> HIDE DEF G
  <2>1. n \in Nat
    BY <1>1
  <2>2. \A k \in 0..n : k \in G
    BY <2>1, <1>4, <1>5, UpTo
  <2> QED
    BY <2>1, <2>2
<1> QED
  BY <1>1, <1>2, <1>6 DEF n

(* Who is chosen: the first of those that weigh most.                      *)
Weightiest(s, q, k, i) ==
    /\ i \in 1..k /\ Matches(s[i], q)
    /\ \A j \in 1..k : Matches(s[j], q) =>
          /\ Score(s[j].plan) <= Score(s[i].plan)
          /\ Score(s[j].plan) = Score(s[i].plan) => i <= j

LEMMA ScoreIsNat ==
    ASSUME NEW x \in Rows
    PROVE  Score(x.plan) \in Nat
<1>1. Exact \in Nat
  BY DEF Exact
<1> QED
  BY <1>1, RowFields DEF Score

LEMMA ChosenIs ==
    ASSUME NEW routes, NEW q, Handlers(routes) \in Seq(Rows)
    PROVE  LET s == Handlers(routes)
           IN  IF \E j \in 1..Len(s) : Matches(s[j], q)
               THEN \E i \in 1..Len(s) : /\ Weightiest(s, q, Len(s), i)
                                         /\ Choice(routes, q) = Result(s[i])
               ELSE Choice(routes, q) = Nobody
<1> DEFINE s == Handlers(routes)
           n == Len(s)
<1>1. n \in Nat /\ DOMAIN s = 1..n /\ \A i \in 1..n : s[i] \in Rows
  BY LenProperties, ElementOfSeq
<1> HIDE DEF s, n
<1>2. PICK a \in [0..n -> Results] :
         /\ a[0] = Nobody /\ Choice(routes, q) = a[n]
         /\ \A k \in 1..n : a[k] = Kept(a[k - 1], s[k], q)
  BY ScanLoop DEF s, n
<1> DEFINE Sound(b, k) ==
              \/ b = Nobody /\ \A j \in 1..k : ~Matches(s[j], q)
              \/ \E i \in 1..k : Weightiest(s, q, k, i) /\ b = Result(s[i])
           G == {k \in 0..n : Sound(a[k], k)}
<1>3. 0 \in G
  BY <1>1, <1>2
<1>4. ASSUME NEW k \in 0..n - 1, k \in G PROVE k + 1 \in G
  <2> DEFINE b == a[k]
             c == a[k + 1]
             x == s[k + 1]
  <2>1. Sound(b, k)
    BY <1>4
  <2>2. c = Kept(b, x, q) /\ x \in Rows /\ k + 1 \in 1..n /\ k \in Nat
    <3>1. k + 1 \in 1..n /\ (k + 1) - 1 = k /\ k \in Nat
      BY <1>1
    <3> QED
      BY <1>1, <1>2, <3>1
  <2>3. Score(x.plan) \in Nat /\ \A j \in 1..k + 1 : Score(s[j].plan) \in Nat
    BY <1>1, <2>2, ScoreIsNat
  <2>4. \A j \in 1..k + 1 : j = k + 1 \/ j \in 1..k
    BY <2>2
  <2> HIDE DEF b, c
  <2>5. CASE ~Matches(x, q)
    <3>1. c = b
      BY <2>2, <2>5 DEF Kept
    <3>2. Sound(c, k + 1)
      BY <2>1, <2>2, <2>3, <2>4, <2>5, <3>1 DEF Weightiest
    <3> QED
      BY <3>2, <2>2, <1>1 DEF c
  <2>6. CASE Matches(x, q) /\ b = Nobody /\ \A j \in 1..k : ~Matches(s[j], q)
    <3>1. b.score = -1
      BY <2>6 DEF Nobody
    <3>2. c = Result(x)
      BY <2>2, <2>3, <2>6, <3>1 DEF Kept
    <3>3. Weightiest(s, q, k + 1, k + 1)
      BY <2>2, <2>3, <2>4, <2>6 DEF Weightiest
    <3> QED
      BY <3>2, <3>3, <2>2, <1>1 DEF c
  <2>7. CASE Matches(x, q) /\ \E i \in 1..k : Weightiest(s, q, k, i) /\ b = Result(s[i])
    <3>1. PICK i \in 1..k : Weightiest(s, q, k, i) /\ b = Result(s[i])
      BY <2>7
    <3>2. b.score = Score(s[i].plan)
      BY <3>1 DEF Result
    <3>3. CASE Score(x.plan) > Score(s[i].plan)
      <4>1. c = Result(x)
        BY <2>2, <2>7, <3>2, <3>3 DEF Kept
      <4>2. Weightiest(s, q, k + 1, k + 1)
        BY <2>2, <2>3, <2>4, <2>7, <3>1, <3>3 DEF Weightiest
      <4> QED
        BY <4>1, <4>2, <2>2, <1>1 DEF c
    <3>4. CASE ~(Score(x.plan) > Score(s[i].plan))
      <4>1. c = b
        BY <2>2, <3>2, <3>4 DEF Kept
      <4>2. Weightiest(s, q, k + 1, i)
        BY <2>2, <2>3, <2>4, <2>7, <3>1, <3>4 DEF Weightiest
      <4>3. i \in 1..k + 1
        BY <2>2
      <4> QED
        BY <3>1, <4>1, <4>2, <4>3, <2>2, <1>1 DEF c
    <3> QED
      BY <3>3, <3>4
  <2> QED
    BY <2>1, <2>5, <2>6, <2>7
<1>5. n \in G
  <2> HIDE DEF G
  <2>1. n \in Nat
    BY <1>1
  <2>2. \A k \in 0..n : k \in G
    BY <2>1, <1>3, <1>4, UpTo
  <2> QED
    BY <2>1, <2>2
<1>6. Sound(Choice(routes, q), n)
  BY <1>2, <1>5
<1> QED
  BY <1>6, <1>1 DEF Weightiest, s, n

------------------------------------------------------------------------------
(***************************************************************************)
(* The choice of a route.  What every request gets follows from the order  *)
(* of the table and from the weights: a route that is more specific weighs *)
(* more, and of those that weigh the same the table's first is taken.      *)
(***************************************************************************)
TableInv == table \in Seq(Rows) /\ Sorted(table)

LEMMA RoutingInitInv == RoutingInit => TableInv
  BY EmptySeq DEF RoutingInit, TableInv, Sorted

(* What an edit gives to Store.                                            *)
LEMMA EditIsSeq ==
    ASSUME TableInv, RoutingNext
    PROVE  \E routes \in Seq(Entries \cup Rows) : Store(routes)
<1> DEFINE S == Entries \cup Rows
<1>1. table \in Seq(S) /\ table \in Seq(Rows) /\ \A i \in DOMAIN table : i \in 1..Len(table) /\ table[i] \in Rows
  BY SeqMonotonic, LenProperties, ElementOfSeq DEF TableInv
<1>2. \A e \in Entries : e \in S
  OBVIOUS
<1>3. CASE Resave
  BY <1>1, <1>3 DEF Resave
<1>4. CASE CreateRoute
  <2>1. PICK e \in Entries : Store(Append(table, e))
    BY <1>4 DEF CreateRoute
  <2> QED
    BY <1>1, <2>1, AppendProperties
<1>5. CASE ReplaceRoute
  <2>1. PICK i \in DOMAIN table, e \in Entries : Store([table EXCEPT ![i] = e])
    BY <1>5 DEF ReplaceRoute
  <2>2. i \in 1..Len(table) /\ e \in S
    BY <1>1
  <2> QED
    BY <1>1, <2>1, <2>2, ExceptSeq
<1>6. CASE ToggleRoute
  <2>1. PICK i \in DOMAIN table : Store([table EXCEPT ![i].enabled = ~@])
    BY <1>6 DEF ToggleRoute
  <2> DEFINE x == [table[i] EXCEPT !.enabled = ~@]
  <2>2. x \in S
    BY <1>1 DEF Rows
  <2>3. [table EXCEPT ![i].enabled = ~@] = [table EXCEPT ![i] = x]
    OBVIOUS
  <2> HIDE DEF x
  <2>4. [table EXCEPT ![i] = x] \in Seq(S)
    BY <1>1, <2>2, ExceptSeq
  <2> QED
    BY <2>1, <2>3, <2>4
<1>7. CASE DuplicateRoute
  <2>1. PICK i \in DOMAIN table : Store(Append(table, table[i]))
    BY <1>7 DEF DuplicateRoute
  <2>2. table[i] \in S
    BY <1>1
  <2> QED
    BY <1>1, <2>1, <2>2, AppendProperties
<1>8. CASE DeleteRoute
  <2>1. PICK i \in DOMAIN table : Store(RemoveAt(table, i))
    BY <1>8 DEF DeleteRoute
  <2>2. RemoveAt(table, i) \in Seq(S)
    <3>1. i \in 1..Len(table) /\ Len(table) \in Nat
      BY <1>1, LenProperties
    <3>2. SubSeq(table, 1, i - 1) \in Seq(S) /\ SubSeq(table, i + 1, Len(table)) \in Seq(S)
      <4>1. /\ \A k \in 1..i - 1 : table[k] \in S
            /\ \A k \in i + 1..Len(table) : table[k] \in S
        BY <1>1, <3>1, ElementOfSeq
      <4> QED
        BY <3>1, <4>1, SubSeqProperties
    <3> QED
      BY <3>2, ConcatProperties DEF RemoveAt
  <2> QED
    BY <2>1, <2>2
<1>9. CASE ReplaceTable
  <2>1. PICK routes \in Tables : Store(routes)
    BY <1>9 DEF ReplaceTable
  <2>2. routes \in Seq(Entries) /\ Entries \subseteq S
    BY <2>1, TablesAssumption
  <2> QED
    BY <2>1, <2>2, SeqMonotonic
<1> QED
  BY <1>3, <1>4, <1>5, <1>6, <1>7, <1>8, <1>9 DEF RoutingNext, OneEdit

LEMMA RoutingStep == TableInv /\ [RoutingNext]_table => TableInv'
<1> SUFFICES ASSUME TableInv, [RoutingNext]_table PROVE TableInv'
  OBVIOUS
<1>1. CASE UNCHANGED table
  BY <1>1 DEF TableInv
<1>2. CASE RoutingNext
  <2>1. PICK routes \in Seq(Entries \cup Rows) : Store(routes)
    BY <1>2, EditIsSeq
  <2>2. /\ Len(routes) \in Nat /\ DOMAIN routes = 1..Len(routes)
        /\ \A i \in 1..Len(routes) : Filled(routes[i]) \in Rows
    BY LenProperties, ElementOfSeq, FilledIsRow
  <2>3. table' = Normalized(routes)
    BY <2>1 DEF Store
  <2> QED
    BY <2>2, <2>3, NormalizedSorted DEF TableInv
<1> QED
  BY <1>1, <1>2

LEMMA TableAlways == RoutingSpec => []TableInv
<1>1. RoutingInit => TableInv
  BY RoutingInitInv
<1>2. TableInv /\ [RoutingNext]_table => TableInv'
  BY RoutingStep
<1> QED
  BY <1>1, <1>2, PTL DEF RoutingSpec

(* A request that is matched: what its candidates weigh.                   *)
LEMMA WeightOf ==
    ASSUME NEW q \in Lookups, NEW x \in Rows, Matches(x, q)
    PROVE  LET p == x.plan
           IN  /\ p.match = "exact"  => Score(p) = Exact /\ p.path = q.path
               /\ p.match = "prefix" => /\ Score(p) = Len(p.path)
                                        /\ Score(p) < Exact
               /\ p.match = "regex"  => Score(p) = 0
               /\ Score(p) \in Nat /\ Exact \in Nat /\ Len(p.path) \in Nat \ {0}
               /\ p.match \in {"exact", "prefix", "regex"}
<1> DEFINE p == x.plan
<1>1. /\ p.match \in {"exact", "prefix", "regex"} /\ p.path \in Seq(Fragments)
      /\ Len(p.path) \in Nat \ {0} /\ Score(p) \in Nat
  BY RowFields, ScoreIsNat
<1>2. q.path \in Seq(Fragments) /\ Len(q.path) < Exact
  BY AskedAssumption, LengthAssumption, PathsAreSeqs DEF Lookups
<1>3. Exact \in Nat /\ Exact > 1
  BY DEF Exact
<1>4. CASE p.match = "exact"
  BY <1>1, <1>3, <1>4 DEF Score, Matches
<1>5. CASE p.match = "prefix"
  <2>1. Score(p) = Len(p.path)
    BY <1>5, Slashes DEF Score
  <2>2. p.path = Slash \/ HasPrefix(q.path, p.path)
    BY <1>5 DEF Matches
  <2>3. Len(p.path) < Exact
    <3>1. CASE p.path = Slash
      BY <1>3, <3>1, Slashes
    <3>2. CASE HasPrefix(q.path, p.path)
      <4>1. Len(p.path) <= Len(q.path) /\ Len(q.path) \in Nat
        BY <1>1, <1>2, <3>2, PrefixMeans
      <4> QED
        BY <1>1, <1>2, <1>3, <4>1
    <3> QED
      BY <2>2, <3>1, <3>2
  <2> QED
    BY <1>1, <1>3, <1>5, <2>1, <2>3
<1>6. CASE p.match = "regex"
  BY <1>1, <1>3, <1>6 DEF Score
<1> QED
  BY <1>1, <1>4, <1>5, <1>6

(* A route that is more specific weighs more.                              *)
LEMMA SpecificWeighsMore ==
    ASSUME NEW q \in Lookups, NEW x \in Rows, NEW y \in Rows,
           Matches(x, q), Matches(y, q)
    PROVE  /\ MoreSpecific(x.plan, y.plan) => Score(x.plan) > Score(y.plan)
           /\ ~MoreSpecific(x.plan, y.plan) /\ ~MoreSpecific(y.plan, x.plan) =>
                 /\ Score(x.plan) = Score(y.plan)
                 /\ x.plan.match = y.plan.match
                 /\ x.plan.match # "regex" => Len(x.plan.path) = Len(y.plan.path)
<1> DEFINE u == x.plan
           v == y.plan
<1>1. /\ u.match = "exact"  => Score(u) = Exact /\ u.path = q.path
      /\ u.match = "prefix" => Score(u) = Len(u.path) /\ Score(u) < Exact
      /\ u.match = "regex"  => Score(u) = 0
      /\ Score(u) \in Nat /\ Exact \in Nat /\ Len(u.path) \in Nat \ {0}
      /\ u.match \in {"exact", "prefix", "regex"}
  BY WeightOf
<1>2. /\ v.match = "exact"  => Score(v) = Exact /\ v.path = q.path
      /\ v.match = "prefix" => Score(v) = Len(v.path) /\ Score(v) < Exact
      /\ v.match = "regex"  => Score(v) = 0
      /\ Score(v) \in Nat /\ Len(v.path) \in Nat \ {0}
      /\ v.match \in {"exact", "prefix", "regex"}
  BY WeightOf
<1>3. Exact > 1
  BY DEF Exact
<1> HIDE DEF u, v
<1>4. MoreSpecific(u, v) => Score(u) > Score(v)
  BY <1>1, <1>2, <1>3 DEF MoreSpecific
<1>5. ASSUME ~MoreSpecific(u, v), ~MoreSpecific(v, u)
      PROVE  /\ Score(u) = Score(v) /\ u.match = v.match
             /\ u.match # "regex" => Len(u.path) = Len(v.path)
  <2>1. u.match = v.match
    BY <1>1, <1>2, <1>5 DEF MoreSpecific
  <2>2. CASE u.match = "exact"
    BY <1>1, <1>2, <2>1, <2>2
  <2>3. CASE u.match = "prefix"
    BY <1>1, <1>2, <1>5, <2>1, <2>3 DEF MoreSpecific
  <2>4. CASE u.match = "regex"
    BY <1>1, <1>2, <2>1, <2>4
  <2> QED
    BY <1>1, <2>1, <2>2, <2>3, <2>4
<1> QED
  BY <1>4, <1>5 DEF u, v

(* Both of what is wanted of one request.                                  *)
LEMMA ChosenBest ==
    ASSUME TableInv, NEW q \in Lookups
    PROVE  IF Candidates(q) = {} THEN Choice(table, q) = Nobody
           ELSE LET c == Choice(table, q).route
                IN  /\ c \in Candidates(q) /\ c \in Rows
                    /\ \A h \in Candidates(q) :
                          /\ h \in Rows /\ Matches(h, q) /\ ~MoreSpecific(h.plan, c.plan)
                          /\ Score(h.plan) = Score(c.plan) => h = c \/ InOrder(c, h)
<1> DEFINE s == Handlers(table)
           n == Len(s)
<1>1. s \in Seq(Rows) /\ Sorted(s)
  BY HandlersSorted DEF TableInv
<1>2. n \in Nat /\ DOMAIN s = 1..n /\ \A i \in 1..n : s[i] \in Rows
  BY <1>1, LenProperties, ElementOfSeq
<1>3. Candidates(q) = {h \in {s[j] : j \in 1..n} : Matches(h, q)}
  <2>1. Range(s) = {s[j] : j \in 1..n}
    BY <1>2 DEF Range
  <2> QED
    BY <2>1 DEF Candidates
<1>4. CASE \A j \in 1..n : ~Matches(s[j], q)
  <2>1. Choice(table, q) = Nobody
    BY <1>1, <1>4, ChosenIs
  <2>2. Candidates(q) = {}
    BY <1>3, <1>4
  <2> QED
    BY <2>1, <2>2
<1>5. CASE \E j \in 1..n : Matches(s[j], q)
  <2>1. PICK i \in 1..n : Weightiest(s, q, n, i) /\ Choice(table, q) = Result(s[i])
    BY <1>1, <1>5, ChosenIs
  <2> DEFINE c == Choice(table, q).route
  <2>2. c = s[i] /\ Matches(c, q) /\ c \in Rows /\ c \in Candidates(q)
    BY <1>2, <1>3, <2>1 DEF Result, Weightiest
  <2> HIDE DEF c, s, n
  <2>3. ASSUME NEW h \in Candidates(q)
        PROVE  /\ h \in Rows /\ Matches(h, q) /\ ~MoreSpecific(h.plan, c.plan)
               /\ Score(h.plan) = Score(c.plan) => h = c \/ InOrder(c, h)
    <3>1. PICK j \in 1..n : h = s[j]
      BY <1>3
    <3>2. Matches(h, q) /\ h \in Rows
      BY <1>2, <1>3, <3>1
    <3>3. /\ Score(h.plan) <= Score(c.plan)
          /\ Score(h.plan) = Score(c.plan) => i <= j
      BY <2>1, <2>2, <3>1, <3>2 DEF Weightiest
    <3>4. Score(h.plan) \in Nat /\ Score(c.plan) \in Nat
      BY <2>2, <3>2, ScoreIsNat
    <3>5. ~MoreSpecific(h.plan, c.plan)
      BY <2>2, <3>2, <3>3, <3>4, SpecificWeighsMore
    <3>6. i < j => InOrder(s[i], s[j])
      BY <1>1 DEF Sorted, n
    <3>7. Score(h.plan) = Score(c.plan) => h = c \/ InOrder(c, h)
      BY <1>2, <2>2, <3>1, <3>3, <3>6
    <3> QED
      BY <3>2, <3>5, <3>7
  <2> QED
    BY <2>2, <2>3 DEF c
<1> QED
  BY <1>4, <1>5

(* A request is served by a route than which none is more specific.        *)
THEOREM RoutingMostSpecific == RoutingSpec => []MostSpecific
<1>1. TableInv => MostSpecific
  BY ChosenBest DEF MostSpecific
<1> QED
  BY <1>1, TableAlways, PTL

(* Among routes that are equally specific the priority decides, then the   *)
(* host.                                                                   *)
THEOREM RoutingTies == RoutingSpec => []TiesByPriorityThenHost
<1>1. ASSUME TableInv, NEW q \in Lookups, Candidates(q) # {},
             NEW h \in Candidates(q), ~MoreSpecific(Choice(table, q).route.plan, h.plan)
      PROVE  LET c == Choice(table, q).route.plan
             IN  /\ c.priority >= h.plan.priority
                 /\ (c.priority = h.plan.priority /\ c.match # "regex" /\ ~AnyHost(h.plan))
                       => ~AnyHost(c)
  <2> DEFINE c == Choice(table, q).route
  <2>1. /\ c \in Rows /\ h \in Rows /\ Matches(h, q) /\ Matches(c, q)
        /\ ~MoreSpecific(h.plan, c.plan)
        /\ Score(h.plan) = Score(c.plan) => h = c \/ InOrder(c, h)
    BY <1>1, ChosenBest
  <2>2. ~MoreSpecific(c.plan, h.plan)
    BY <1>1
  <2> HIDE DEF c
  <2>3. /\ Score(c.plan) = Score(h.plan)
        /\ c.plan.match # "regex" => Len(c.plan.path) = Len(h.plan.path)
    BY <2>1, <2>2, SpecificWeighsMore
  <2>4. /\ c.plan.priority \in Int /\ h.plan.priority \in Int
        /\ Len(c.plan.path) \in Nat /\ Len(h.plan.path) \in Nat
    BY <2>1, RowFields
  <2>5. CASE h = c
    BY <2>4, <2>5 DEF c
  <2>6. CASE InOrder(c, h)
    BY <2>3, <2>4, <2>6 DEF InOrder, c
  <2> QED
    BY <2>1, <2>3, <2>5, <2>6
<1>2. TableInv => TiesByPriorityThenHost
  BY <1>1 DEF TiesByPriorityThenHost
<1> QED
  BY <1>2, TableAlways, PTL

------------------------------------------------------------------------------
(***************************************************************************)
(* What an edit leaves alone.  Of the routes in a set P the first in the   *)
(* table leads; if the sort finds those of P in order, it leaves them so,  *)
(* and the same one leads.                                                 *)
(***************************************************************************)
Leads(v, s, P) ==
    v \in P /\ \E i \in 1..Len(s) : s[i] = v /\ \A j \in 1..i - 1 : s[j] \notin P

LEMMA OneLeads ==
    ASSUME NEW P, NEW s \in Seq(Rows), NEW v, NEW w, Leads(v, s, P), Leads(w, s, P)
    PROVE  v = w
<1>1. PICK i \in 1..Len(s) : s[i] = v /\ \A j \in 1..i - 1 : s[j] \notin P
  BY DEF Leads
<1>2. PICK k \in 1..Len(s) : s[k] = w /\ \A j \in 1..k - 1 : s[j] \notin P
  BY DEF Leads
<1>3. v \in P /\ w \in P /\ Len(s) \in Nat
  BY LenProperties DEF Leads
<1>4. ~(i < k) /\ ~(k < i)
  BY <1>1, <1>2, <1>3
<1> QED
  BY <1>1, <1>2, <1>3, <1>4

LEMMA SomeLeads ==
    ASSUME NEW P, NEW s \in Seq(Rows), NEW k \in 1..Len(s), s[k] \in P
    PROVE  \E v : Leads(v, s, P)
<1> DEFINE T == {i \in 1..Len(s) : s[i] \in P}
<1>1. T \subseteq Nat /\ T # {} /\ Len(s) \in Nat
  BY LenProperties
<1>2. PICK i \in T : \A j \in T : i <= j
  <2> HIDE DEF T
  <2> QED
    BY <1>1, SmallestOf
<1>3. i \in 1..Len(s) /\ s[i] \in P /\ \A j \in 1..i - 1 : s[j] \notin P
  BY <1>1, <1>2
<1> QED
  BY <1>3 DEF Leads

LEMMA LeadsInserted ==
    ASSUME NEW P, NEW s \in Seq(Rows), NEW x \in Rows, NEW at \in 1..Len(s) + 1
    PROVE  \A i \in 1..Len(s) :
              /\ s[i] \in P /\ \A j \in 1..i - 1 : s[j] \notin P
              /\ x \notin P \/ at > i
              => Leads(s[i], InsertAt(s, at, x), P)
<1> DEFINE t == InsertAt(s, at, x)
           n == Len(s)
<1>1. /\ t \in Seq(Rows) /\ Len(t) = n + 1 /\ n \in Nat /\ t[at] = x
      /\ \A k \in 1..at - 1 : t[k] = s[k]
      /\ \A k \in at + 1..n + 1 : t[k] = s[k - 1]
  BY InsertAtIs
<1> SUFFICES ASSUME NEW i \in 1..n, s[i] \in P, \A j \in 1..i - 1 : s[j] \notin P,
                    x \notin P \/ at > i
             PROVE  Leads(s[i], t, P)
  OBVIOUS
<1>2. at \in 1..n + 1 /\ i \in 1..n
  OBVIOUS
<1> HIDE DEF t, n
<1>3. CASE at > i
  <2>1. i \in 1..Len(t) /\ t[i] = s[i] /\ \A j \in 1..i - 1 : t[j] = s[j]
    BY <1>1, <1>2, <1>3
  <2> QED
    BY <2>1 DEF Leads, t
<1>4. CASE at <= i /\ x \notin P
  <2>1. i + 1 \in 1..Len(t) /\ t[i + 1] = s[i]
    BY <1>1, <1>2, <1>4
  <2>2. ASSUME NEW j \in 1..(i + 1) - 1 PROVE t[j] \notin P
    <3>1. CASE j < at
      BY <1>1, <1>2, <1>4, <3>1
    <3>2. CASE j = at
      BY <1>1, <1>4, <3>2
    <3>3. CASE j > at
      <4>1. t[j] = s[j - 1] /\ j - 1 \in 1..i - 1
        BY <1>1, <1>2, <1>4, <3>3
      <4> QED
        BY <4>1
    <3> QED
      BY <1>2, <3>1, <3>2, <3>3
  <2> QED
    BY <2>1, <2>2 DEF Leads, t
<1> QED
  BY <1>1, <1>2, <1>3, <1>4

LEMMA NoneInserted ==
    ASSUME NEW P, NEW s \in Seq(Rows), NEW x \in Rows, NEW at \in 1..Len(s) + 1,
           \A j \in 1..Len(s) : s[j] \notin P
    PROVE  LET t == InsertAt(s, at, x)
           IN  /\ x \in P => Leads(x, t, P)
               /\ x \notin P => \A j \in 1..Len(t) : t[j] \notin P
<1> DEFINE t == InsertAt(s, at, x)
           n == Len(s)
<1>1. /\ t \in Seq(Rows) /\ Len(t) = n + 1 /\ n \in Nat /\ t[at] = x
      /\ \A k \in 1..at - 1 : t[k] = s[k]
      /\ \A k \in at + 1..n + 1 : t[k] = s[k - 1]
  <2>1. s \in Seq(Rows) /\ x \in Rows /\ at \in 1..Len(s) + 1
    OBVIOUS
  <2> QED
    BY ONLY <2>1, InsertAtIs
<1>2. at \in 1..n + 1 /\ \A j \in 1..n : s[j] \notin P
  OBVIOUS
<1> HIDE DEF t, n
<1>3. ASSUME NEW j \in 1..n + 1, j # at PROVE t[j] \notin P
  <2>1. CASE j < at
    BY <1>1, <1>2, <2>1
  <2>2. CASE j > at
    <3>1. t[j] = s[j - 1] /\ j - 1 \in 1..n
      BY <1>1, <1>2, <2>2
    <3> QED
      BY <1>2, <3>1
  <2> QED
    BY <1>1, <1>2, <1>3, <2>1, <2>2
<1>4. ASSUME x \in P PROVE Leads(x, t, P)
  <2>1. at \in 1..Len(t) /\ \A j \in 1..at - 1 : t[j] \notin P
    BY <1>1, <1>2, <1>3
  <2> QED
    BY <1>1, <1>4, <2>1 DEF Leads
<1>5. ASSUME x \notin P PROVE \A j \in 1..Len(t) : t[j] \notin P
  BY <1>1, <1>3, <1>5
<1> QED
  BY <1>4, <1>5 DEF t

LEMMA AppendIsInsertAt ==
    ASSUME NEW S, NEW s \in Seq(S), NEW x \in S
    PROVE  Append(s, x) = InsertAt(s, Len(s) + 1, x) /\ Len(s) + 1 \in 1..Len(s) + 1
<1> DEFINE t == InsertAt(s, Len(s) + 1, x)
<1>1. Len(s) \in Nat /\ Len(s) + 1 \in 1..Len(s) + 1
  BY LenProperties
<1>2. /\ t \in Seq(S) /\ Len(t) = Len(s) + 1 /\ t[Len(s) + 1] = x
      /\ \A k \in 1..(Len(s) + 1) - 1 : t[k] = s[k]
  BY <1>1, InsertAtIs
<1>3. /\ Append(s, x) \in Seq(S) /\ Len(Append(s, x)) = Len(s) + 1
      /\ Append(s, x)[Len(s) + 1] = x
      /\ \A k \in 1..Len(s) : Append(s, x)[k] = s[k]
  BY AppendProperties
<1> HIDE DEF t
<1>4. \A k \in 1..Len(s) + 1 : Append(s, x)[k] = t[k]
  BY <1>1, <1>2, <1>3
<1>5. Append(s, x) = t
  BY <1>1, <1>2, <1>3, <1>4, SeqEqual
<1> QED
  BY <1>1, <1>5 DEF t

(* Routes of one length: on them the comparison is an order.               *)
OneLength(P) ==
    P \subseteq Rows /\ \A x, y \in P : Len(x.plan.path) = Len(y.plan.path)

LEMMA InOrderStays ==
    ASSUME NEW P, OneLength(P), NEW x \in P, NEW y \in P, InOrder(x, y)
    PROVE  ~Less(y, x)
<1>1. x \in Rows /\ y \in Rows /\ Len(x.plan.path) = Len(y.plan.path)
  BY DEF OneLength
<1> QED
  BY <1>1, RowFields DEF InOrder, Less

LEMMA SortKeepsLead ==
    ASSUME NEW P, OneLength(P), NEW f \in Seq(Rows), NEW routes, DOMAIN routes = 1..Len(f),
           \A i \in 1..Len(f) : f[i] = Filled(routes[i]),
           \A i, j \in 1..Len(f) : i < j /\ f[i] \in P /\ f[j] \in P => InOrder(f[i], f[j]),
           NEW v, Leads(v, f, P)
    PROVE  Leads(v, Normalized(routes), P)
<1> DEFINE n == Len(f)
<1>1. n \in Nat /\ \A i \in 1..n : f[i] \in Rows
  BY LenProperties, ElementOfSeq
<1>2. /\ DOMAIN routes = 1..n
      /\ \A i \in 1..n : Filled(routes[i]) = f[i]
      /\ \A i, j \in 1..n : i < j /\ f[i] \in P /\ f[j] \in P => InOrder(f[i], f[j])
  OBVIOUS
<1>3. PICK m \in 1..n : f[m] = v /\ v \in P /\ \A j \in 1..m - 1 : f[j] \notin P
  BY DEF Leads
<1> HIDE DEF n
<1>4. PICK a \in [0..n -> Seq(Rows)] :
         /\ a[0] = <<>> /\ Normalized(routes) = a[n]
         /\ \A k \in 1..n : a[k] = Inserted(a[k - 1], Filled(routes[k]))
  <2>1. \A i \in 1..n : Filled(routes[i]) \in Rows
    BY <1>1, <1>2
  <2> QED
    BY <1>1, <1>2, <2>1, SortLoop
<1> DEFINE Sound(s, k) ==
              /\ k < m => \A j \in 1..Len(s) : s[j] \notin P
              /\ k >= m => Leads(v, s, P)
           G == {k \in 0..n : Sound(a[k], k)}
<1>5. 0 \in G
  <2>1. Len(a[0]) = 0 /\ 0 \in 0..n /\ ~(0 >= m)
    BY <1>1, <1>3, <1>4, EmptySeq
  <2> QED
    BY <2>1
<1>6. ASSUME NEW k \in 0..n - 1, k \in G PROVE k + 1 \in G
  <2> DEFINE s == a[k]
             t == a[k + 1]
             x == f[k + 1]
  <2>1. Sound(s, k)
    BY <1>6
  <2>2. s \in Seq(Rows) /\ x \in Rows /\ t = Inserted(s, x)
    <3>1. k + 1 \in 1..n /\ (k + 1) - 1 = k /\ k \in 0..n
      BY <1>1
    <3> QED
      BY <1>1, <1>2, <1>4, <3>1
  <2>3. k + 1 \in 0..n /\ k + 1 \in 1..n /\ m \in 1..n /\ k \in Nat
    BY <1>1
  <2> HIDE DEF s, t
  <2>4. PICK at \in 1..Len(s) + 1 :
           t = InsertAt(s, at, x) /\ \A j \in at..Len(s) : Less(x, s[j])
    BY <2>2, InsertedIs
  <2>5. CASE k + 1 < m
    <3>1. x \notin P /\ \A j \in 1..Len(s) : s[j] \notin P
      BY <1>3, <2>1, <2>3, <2>5
    <3>2. \A j \in 1..Len(t) : t[j] \notin P
      BY <2>2, <2>4, <3>1, NoneInserted
    <3>3. ~(k + 1 >= m)
      BY <2>3, <2>5
    <3>4. Sound(t, k + 1)
      BY <3>2, <3>3
    <3> QED
      BY <2>3, <3>4 DEF t
  <2>6. CASE k + 1 = m
    <3>1. x = v /\ v \in P
      BY <1>3, <2>6
    <3>2. \A j \in 1..Len(s) : s[j] \notin P
      <4>1. k < m
        BY <2>3, <2>6
      <4> QED
        BY <2>1, <4>1
    <3> HIDE DEF x
    <3>4. Leads(x, InsertAt(s, at, x), P)
      BY <2>2, <2>4, <3>1, <3>2, NoneInserted
    <3>5. Leads(v, t, P)
      BY <2>4, <3>1, <3>4
    <3>3. Sound(t, k + 1)
      BY <2>3, <2>6, <3>5
    <3> QED
      BY <2>3, <3>3 DEF t
  <2>7. CASE k + 1 > m
    <3>1. Leads(v, s, P)
      BY <2>1, <2>3, <2>7
    <3>2. PICK i \in 1..Len(s) : s[i] = v /\ v \in P /\ \A j \in 1..i - 1 : s[j] \notin P
      BY <3>1 DEF Leads
    <3>3. x \notin P \/ at > i
      <4>1. SUFFICES ASSUME x \in P PROVE at > i
        OBVIOUS
      <4>2. InOrder(v, x)
        BY <1>2, <1>3, <2>3, <2>7, <4>1
      <4>3. ~Less(x, s[i])
        BY <3>2, <4>1, <4>2, InOrderStays
      <4>4. Len(s) \in Nat
        BY <2>2, LenProperties
      <4> QED
        BY <2>4, <4>3, <4>4
    <3>4. Leads(v, t, P)
      <4> HIDE DEF x
      <4>1. Leads(s[i], InsertAt(s, at, x), P)
        BY <2>2, <3>2, <3>3, LeadsInserted
      <4> QED
        BY <2>4, <3>2, <4>1
    <3>5. Sound(t, k + 1)
      BY <2>3, <2>7, <3>4
    <3> QED
      BY <2>3, <3>5 DEF t
  <2> QED
    BY <2>3, <2>5, <2>6, <2>7
<1>7. n \in G
  <2> HIDE DEF G
  <2>1. n \in Nat
    BY <1>1
  <2>2. \A k \in 0..n : k \in G
    BY <2>1, <1>5, <1>6, UpTo
  <2> QED
    BY <2>1, <2>2
<1>8. n >= m
  BY <1>1
<1> QED
  BY <1>4, <1>7, <1>8

LEMMA HandlersKeepLead ==
    ASSUME NEW f \in Seq(Rows)
    PROVE  \A P, v : (\A h \in P : h.plan.nodes) /\ Leads(v, f, P) => Leads(v, Handlers(f), P)
<1> DEFINE n == Len(f)
<1>1. n \in Nat /\ DOMAIN f = 1..n /\ \A i \in 1..n : f[i] \in Rows
  BY LenProperties, ElementOfSeq
<1> HIDE DEF n
<1>3. PICK a \in [0..n -> Seq(Rows)] :
         /\ a[0] = <<>> /\ Handlers(f) = a[n]
         /\ \A k \in 1..n : a[k] = Built(a[k - 1], f[k])
  BY <1>1, BuildLoop
<1> SUFFICES ASSUME NEW P, NEW v, \A h \in P : h.plan.nodes, Leads(v, f, P)
             PROVE  Leads(v, Handlers(f), P)
  OBVIOUS
<1>2. PICK m \in 1..n : f[m] = v /\ v \in P /\ \A j \in 1..m - 1 : f[j] \notin P
  BY DEF Leads, n
<1> DEFINE Sound(s, k) ==
              /\ k < m => \A j \in 1..Len(s) : s[j] \notin P
              /\ k >= m => Leads(v, s, P)
           G == {k \in 0..n : Sound(a[k], k)}
<1>4. 0 \in G
  <2>1. Len(a[0]) = 0 /\ 0 \in 0..n /\ ~(0 >= m)
    BY <1>1, <1>2, <1>3, EmptySeq
  <2> QED
    BY <2>1
<1>5. ASSUME NEW k \in 0..n - 1, k \in G PROVE k + 1 \in G
  <2> DEFINE s == a[k]
             t == a[k + 1]
             x == f[k + 1]
  <2>1. Sound(s, k)
    BY <1>5
  <2>2. s \in Seq(Rows) /\ x \in Rows /\ t = Built(s, x)
    <3>1. k + 1 \in 1..n /\ (k + 1) - 1 = k /\ k \in 0..n
      BY <1>1
    <3> QED
      BY <1>1, <1>3, <3>1
  <2>3. k + 1 \in 0..n /\ k + 1 \in 1..n /\ m \in 1..n /\ k \in Nat
    BY <1>1
  <2>4. /\ k + 1 < m => x \notin P
        /\ k + 1 = m => x = v /\ v \in P
    BY <1>2, <2>3
  <2> HIDE DEF s, t, x
  <2>5. ASSUME x \notin P, t = s PROVE Sound(t, k + 1)
    <3>1. k + 1 # m
      BY <1>2, <2>4, <2>5
    <3>2. (k + 1 < m => k < m) /\ (k + 1 >= m => k >= m)
      BY <2>3, <3>1
    <3> QED
      BY <2>1, <2>5, <3>2
  <2>6. ASSUME t = InsertAt(s, Len(s) + 1, x), Len(s) + 1 \in 1..Len(s) + 1
        PROVE  Sound(t, k + 1)
    <3>1. CASE k < m
      <4>1. \A j \in 1..Len(s) : s[j] \notin P
        BY <2>1, <3>1
      <4>2. /\ x \in P => Leads(x, t, P)
            /\ x \notin P => \A j \in 1..Len(t) : t[j] \notin P
        <5> DEFINE u == InsertAt(s, Len(s) + 1, x)
        <5>1. /\ x \in P => Leads(x, u, P)
              /\ x \notin P => \A j \in 1..Len(u) : u[j] \notin P
          BY <2>2, <2>6, <4>1, NoneInserted
        <5>2. t = u
          BY <2>6
        <5> HIDE DEF u
        <5> QED
          BY <5>1, <5>2
      <4> QED
        BY <2>3, <2>4, <3>1, <4>2
    <3>2. CASE k >= m
      <4>1. PICK i \in 1..Len(s) : s[i] = v /\ v \in P /\ \A j \in 1..i - 1 : s[j] \notin P
        BY <2>1, <3>2 DEF Leads
      <4>2. Len(s) + 1 > i
        BY <2>2, LenProperties
      <4>3. Leads(s[i], InsertAt(s, Len(s) + 1, x), P)
        BY <2>2, <2>6, <4>1, <4>2, LeadsInserted
      <4>4. Leads(v, t, P)
        BY <2>6, <4>1, <4>3
      <4>5. ~(k + 1 < m)
        BY <2>3, <3>2
      <4> QED
        BY <4>4, <4>5
    <3> QED
      BY <2>3, <3>1, <3>2
  <2>7. Sound(t, k + 1)
    <3>1. CASE x.plan.nodes
      <4>1. t = Append(s, x)
        BY <2>2, <3>1 DEF Built
      <4>2. t = InsertAt(s, Len(s) + 1, x) /\ Len(s) + 1 \in 1..Len(s) + 1
        BY <2>2, <4>1, AppendIsInsertAt
      <4> QED
        BY <2>6, <4>2
    <3>2. CASE ~x.plan.nodes
      <4>1. x \notin P /\ t = s
        BY <2>2, <3>2 DEF Built
      <4> QED
        BY <2>5, <4>1
    <3> QED
      BY <3>1, <3>2
  <2> QED
    BY <2>3, <2>7 DEF t
<1>6. n \in G
  <2> HIDE DEF G
  <2>1. n \in Nat
    BY <1>1
  <2>2. \A k \in 0..n : k \in G
    BY <2>1, <1>4, <1>5, UpTo
  <2> QED
    BY <2>1, <2>2
<1>7. n >= m
  BY <1>1
<1> QED
  BY <1>3, <1>6, <1>7

------------------------------------------------------------------------------
(* How often a route is in a sequence: sorting does not change it.         *)
Places(s, h) == {i \in DOMAIN s : s[i] = h}

Count(s, h) == Cardinality(Places(s, h))

LEMMA PlacesFinite ==
    ASSUME NEW S, NEW s \in Seq(S), NEW h
    PROVE  IsFiniteSet(Places(s, h)) /\ Count(s, h) \in Nat
<1>1. DOMAIN s = 1..Len(s) /\ Len(s) \in Nat
  BY LenProperties
<1>2. IsFiniteSet(1..Len(s)) /\ Places(s, h) \in SUBSET (1..Len(s))
  BY <1>1, FS_Interval DEF Places
<1> QED
  BY <1>2, FS_Subset, FS_CardinalityType DEF Count

LEMMA CountInserted ==
    ASSUME NEW s \in Seq(Rows), NEW x \in Rows, NEW at \in 1..Len(s) + 1, NEW h
    PROVE  Count(InsertAt(s, at, x), h) = IF x = h THEN Count(s, h) + 1 ELSE Count(s, h)
<1> DEFINE t == InsertAt(s, at, x)
           n == Len(s)
           A == Places(s, h)
           B == Places(t, h) \ {at}
           shift == [i \in A |-> IF i < at THEN i ELSE i + 1]
<1>1. /\ t \in Seq(Rows) /\ Len(t) = n + 1 /\ n \in Nat /\ t[at] = x
      /\ \A k \in 1..at - 1 : t[k] = s[k]
      /\ \A k \in at + 1..n + 1 : t[k] = s[k - 1]
  BY InsertAtIs
<1>2. DOMAIN s = 1..n /\ DOMAIN t = 1..n + 1 /\ at \in 1..n + 1
  BY <1>1, LenProperties
<1>3. /\ IsFiniteSet(A) /\ Cardinality(A) = Count(s, h) /\ Count(s, h) \in Nat
      /\ IsFiniteSet(Places(t, h))
  BY <1>1, PlacesFinite DEF Count
<1> HIDE DEF t, n
<1>4. A = {i \in 1..n : s[i] = h} /\ B = {k \in 1..n + 1 : t[k] = h /\ k # at}
  BY <1>2 DEF Places
<1> HIDE DEF A, B
<1>5. shift \in Bijection(A, B)
  <2>1. ASSUME NEW i \in A PROVE shift[i] \in B
    BY <1>1, <1>2, <1>4
  <2>2. ASSUME NEW i \in A, NEW j \in A, shift[i] = shift[j] PROVE i = j
    BY <1>2, <1>4, <2>2
  <2>3. ASSUME NEW k \in B PROVE \E i \in A : shift[i] = k
    <3>1. CASE k < at
      <4>1. k \in A /\ shift[k] = k
        BY <1>1, <1>2, <1>4, <3>1
      <4> QED
        BY <4>1
    <3>2. CASE k > at
      <4>1. k - 1 \in A /\ shift[k - 1] = k
        BY <1>1, <1>2, <1>4, <3>2
      <4> QED
        BY <4>1
    <3> QED
      BY <1>2, <1>4, <3>1, <3>2
  <2>4. shift \in [A -> B]
    BY <2>1
  <2> HIDE DEF shift
  <2> QED
    BY <2>2, <2>3, <2>4 DEF Bijection, Injection, Surjection, IsInjective
<1>6. IsFiniteSet(B) /\ Cardinality(B) = Count(s, h)
  BY <1>3, <1>5, FS_Bijection DEF ExistsBijection
<1>7. Places(t, h) = IF x = h THEN B \cup {at} ELSE B
  BY <1>1, <1>2 DEF Places, B
<1>8. at \notin B
  BY DEF B
<1> QED
  BY <1>6, <1>7, <1>8, FS_AddElement DEF Count, t

LEMMA CountSorted ==
    ASSUME NEW f \in Seq(Rows), NEW routes, DOMAIN routes = 1..Len(f),
           \A i \in 1..Len(f) : f[i] = Filled(routes[i]), NEW h
    PROVE  Count(Normalized(routes), h) = Count(f, h)
<1> DEFINE n == Len(f)
<1>1. n \in Nat /\ DOMAIN f = 1..n /\ \A i \in 1..n : f[i] \in Rows
  BY LenProperties, ElementOfSeq
<1>2. DOMAIN routes = 1..n /\ \A i \in 1..n : Filled(routes[i]) = f[i]
  OBVIOUS
<1> HIDE DEF n
<1>3. PICK a \in [0..n -> Seq(Rows)] :
         /\ a[0] = <<>> /\ Normalized(routes) = a[n]
         /\ \A k \in 1..n : a[k] = Inserted(a[k - 1], Filled(routes[k]))
  <2>1. \A i \in 1..n : Filled(routes[i]) \in Rows
    BY <1>1, <1>2
  <2> QED
    BY <1>1, <1>2, <2>1, SortLoop
<1> DEFINE Early(k) == {i \in 1..k : f[i] = h}
           G == {k \in 0..n : Count(a[k], h) = Cardinality(Early(k))}
<1>4. 0 \in G
  <2>1. Early(0) = {} /\ Places(a[0], h) = {} /\ 0 \in 0..n
    BY <1>1, <1>3 DEF Places
  <2> QED
    BY <2>1 DEF Count
<1>5. ASSUME NEW k \in 0..n - 1, k \in G PROVE k + 1 \in G
  <2> DEFINE s == a[k]
             t == a[k + 1]
             x == f[k + 1]
  <2>1. Count(s, h) = Cardinality(Early(k))
    BY <1>5
  <2>2. s \in Seq(Rows) /\ x \in Rows /\ t = Inserted(s, x)
    <3>1. k + 1 \in 1..n /\ (k + 1) - 1 = k /\ k \in 0..n
      BY <1>1
    <3> QED
      BY <1>1, <1>2, <1>3, <3>1
  <2>3. k + 1 \in 0..n /\ k \in Nat
    BY <1>1
  <2>4. Early(k + 1) = IF x = h THEN Early(k) \cup {k + 1} ELSE Early(k)
    BY <2>3
  <2>5. k + 1 \notin Early(k) /\ IsFiniteSet(Early(k))
    <3>1. Early(k) \in SUBSET (1..k) /\ IsFiniteSet(1..k)
      BY <2>3, FS_Interval
    <3> QED
      BY <2>3, <3>1, FS_Subset
  <2> HIDE DEF s, t, x, Early
  <2>6. PICK at \in 1..Len(s) + 1 : t = InsertAt(s, at, x)
    BY <2>2, InsertedIs
  <2>7. Count(t, h) = IF x = h THEN Count(s, h) + 1 ELSE Count(s, h)
    BY <2>2, <2>6, CountInserted
  <2>8. Cardinality(Early(k + 1)) =
           IF x = h THEN Cardinality(Early(k)) + 1 ELSE Cardinality(Early(k))
    BY <2>4, <2>5, FS_AddElement
  <2>9. Count(t, h) = Cardinality(Early(k + 1))
    BY <2>1, <2>7, <2>8
  <2> QED
    BY <2>3, <2>9 DEF t
<1>6. n \in G
  <2> HIDE DEF G
  <2>1. n \in Nat
    BY <1>1
  <2>2. \A k \in 0..n : k \in G
    BY <2>1, <1>4, <1>5, UpTo
  <2> QED
    BY <2>1, <2>2
<1> QED
  BY <1>1, <1>3, <1>6 DEF Count, Places

------------------------------------------------------------------------------
(* The four ways in which an edit changes the table before the sort.       *)
Edited(t, f) ==
    \/ f = t
    \/ \E x \in Rows : f = Append(t, x)
    \/ \E x \in Rows, i \in 1..Len(t) : f = [t EXCEPT ![i] = x]
    \/ \E i \in 1..Len(t) : f = RemoveAt(t, i)

IsFilled(f, routes) ==
    /\ f \in Seq(Rows) /\ DOMAIN routes = 1..Len(f)
    /\ \A i \in 1..Len(f) : f[i] = Filled(routes[i])

LEMMA RemoveAtIs ==
    ASSUME NEW S, NEW t \in Seq(S), NEW i \in 1..Len(t)
    PROVE  LET f == RemoveAt(t, i)
           IN  /\ f \in Seq(S) /\ Len(t) \in Nat /\ Len(f) = Len(t) - 1
               /\ i \in 1..Len(f) + 1 /\ t = InsertAt(f, i, t[i])
               /\ \A k \in 1..i - 1 : f[k] = t[k]
               /\ \A k \in i..Len(f) : f[k] = t[k + 1]
<1> DEFINE a == SubSeq(t, 1, i - 1)
           b == SubSeq(t, i + 1, Len(t))
           n == Len(t)
           f == RemoveAt(t, i)
<1>1. n \in Nat /\ DOMAIN t = 1..n /\ i \in 1..n /\ \A k \in 1..n : t[k] \in S
  BY LenProperties, ElementOfSeq
<1>2. a \in Seq(S) /\ Len(a) = i - 1 /\ \A k \in 1..i - 1 : a[k] = t[k]
  <2>1. /\ a \in Seq(S)
        /\ Len(a) = IF 1 <= i - 1 THEN i - 1 - 1 + 1 ELSE 0
        /\ \A k \in 1..i - 1 - 1 + 1 : a[k] = t[1 + k - 1]
    <3>1. \A k \in 1..i - 1 : t[k] \in S
      BY <1>1
    <3> QED
      BY <1>1, <3>1, SubSeqProperties
  <2> HIDE DEF a
  <2> QED
    BY <1>1, <2>1
<1>3. b \in Seq(S) /\ Len(b) = n - i /\ \A k \in 1..n - i : b[k] = t[i + k]
  <2>1. /\ b \in Seq(S)
        /\ Len(b) = IF i + 1 <= n THEN n - (i + 1) + 1 ELSE 0
        /\ \A k \in 1..n - (i + 1) + 1 : b[k] = t[i + 1 + k - 1]
    <3>1. \A k \in i + 1..n : t[k] \in S
      BY <1>1
    <3> QED
      BY <1>1, <3>1, SubSeqProperties
  <2> HIDE DEF b, n
  <2> QED
    BY <1>1, <2>1
<1>4. f = a \o b
  BY DEF RemoveAt
<1> HIDE DEF a, b, n, f
<1>5. /\ f \in Seq(S) /\ Len(f) = n - 1
      /\ \A k \in 1..i - 1 : f[k] = t[k]
      /\ \A k \in i..n - 1 : f[k] = t[k + 1]
  <2>1. /\ a \o b \in Seq(S) /\ Len(a \o b) = Len(a) + Len(b)
        /\ \A k \in 1..Len(a) + Len(b) :
              (a \o b)[k] = IF k <= Len(a) THEN a[k] ELSE b[k - Len(a)]
    BY <1>2, <1>3, ConcatProperties
  <2>2. Len(a) + Len(b) = n - 1 /\ Len(a) = i - 1
    BY <1>1, <1>2, <1>3
  <2>3. /\ f \in Seq(S) /\ Len(f) = n - 1
        /\ \A k \in 1..n - 1 : f[k] = IF k <= i - 1 THEN a[k] ELSE b[k - (i - 1)]
    BY <1>4, <2>1, <2>2
  <2>4. ASSUME NEW k \in 1..i - 1 PROVE f[k] = t[k]
    BY <1>1, <1>2, <2>3
  <2>5. ASSUME NEW k \in i..n - 1 PROVE f[k] = t[k + 1]
    <3>1. f[k] = b[k - (i - 1)] /\ k - (i - 1) \in 1..n - i
      BY <1>1, <2>3
    <3>2. b[k - (i - 1)] = t[i + (k - (i - 1))] /\ i + (k - (i - 1)) = k + 1
      BY <1>1, <1>3, <3>1
    <3> QED
      BY <3>1, <3>2
  <2> QED
    BY <2>3, <2>4, <2>5
<1> DEFINE y == t[i]
<1>6. i \in 1..Len(f) + 1 /\ y \in S
  BY <1>1, <1>5
<1> HIDE DEF y
<1> DEFINE u == InsertAt(f, i, y)
<1>7. /\ u \in Seq(S) /\ Len(u) = Len(f) + 1 /\ u[i] = y
      /\ \A k \in 1..i - 1 : u[k] = f[k]
      /\ \A k \in i + 1..Len(f) + 1 : u[k] = f[k - 1]
  <2>1. f \in Seq(S) /\ y \in S /\ i \in 1..Len(f) + 1
    BY <1>5, <1>6
  <2>2. /\ u \in Seq(S) /\ Len(u) = Len(f) + 1 /\ Len(f) \in Nat
        /\ u[i] = y
        /\ \A k \in 1..i - 1 : u[k] = f[k]
        /\ \A k \in i + 1..Len(f) + 1 : u[k] = f[k - 1]
    BY ONLY <2>1, InsertAtIs
  <2> QED
    BY <2>2
<1> HIDE DEF u
<1>8. \A k \in 1..n : u[k] = t[k]
  <2> SUFFICES ASSUME NEW k \in 1..n PROVE u[k] = t[k]
    OBVIOUS
  <2>1. CASE k < i
    <3>1. k \in 1..i - 1
      BY <1>1, <2>1
    <3> QED
      BY <1>5, <1>7, <3>1
  <2>2. CASE k = i
    BY <1>7, <2>2 DEF y
  <2>3. CASE k > i
    <3>1. u[k] = f[k - 1] /\ k - 1 \in i..n - 1
      BY <1>1, <1>5, <1>7, <2>3
    <3>2. f[k - 1] = t[(k - 1) + 1] /\ (k - 1) + 1 = k
      BY <1>1, <1>5, <3>1
    <3> QED
      BY <3>1, <3>2
  <2> QED
    BY <1>1, <2>1, <2>2, <2>3
<1>9. t = u
  <2>1. Len(u) = Len(t) /\ \A k \in 1..Len(t) : u[k] = t[k]
    BY <1>1, <1>5, <1>7, <1>8 DEF n
  <2> QED
    BY <1>7, <2>1, SeqEqual
<1> QED
  BY <1>1, <1>5, <1>6, <1>9 DEF f, n, u, y

LEMMA StepIsEdit ==
    ASSUME TableInv, OneEdit
    PROVE  \E f, routes : Store(routes) /\ IsFilled(f, routes) /\ Edited(table, f)
<1> DEFINE n == Len(table)
<1>1. /\ table \in Seq(Rows) /\ n \in Nat /\ DOMAIN table = 1..n
      /\ \A i \in 1..n : table[i] \in Rows /\ Filled(table[i]) = table[i]
  BY LenProperties, ElementOfSeq, FilledIsRow DEF TableInv
<1>2. \A e \in Entries : Filled(e) \in Rows
  BY FilledIsRow
<1> HIDE DEF n
<1>3. ASSUME NEW e, Filled(e) \in Rows, Store(Append(table, e))
      PROVE  \E f, routes : Store(routes) /\ IsFilled(f, routes) /\ Edited(table, f)
  <2> DEFINE f == Append(table, Filled(e))
             g == Append(table, e)
             S == Rows \cup {e}
  <2>1. /\ f \in Seq(Rows) /\ Len(f) = n + 1 /\ f[n + 1] = Filled(e)
        /\ \A k \in 1..n : f[k] = table[k]
    BY <1>1, <1>3, AppendProperties DEF n
  <2>2. /\ g \in Seq(S) /\ Len(g) = n + 1 /\ g[n + 1] = e
        /\ \A k \in 1..n : g[k] = table[k]
    <3>1. table \in Seq(S) /\ e \in S
      BY <1>1, SeqMonotonic
    <3> HIDE DEF S
    <3> QED
      BY <3>1, AppendProperties DEF n
  <2>3. Edited(table, f)
    BY <1>3 DEF Edited
  <2>4. DOMAIN g = 1..n + 1
    BY <2>2, LenProperties
  <2> HIDE DEF f, g
  <2>5. IsFilled(f, g)
    <3>1. ASSUME NEW k \in 1..n + 1 PROVE f[k] = Filled(g[k])
      <4>1. k = n + 1 \/ k \in 1..n
        BY <1>1
      <4> QED
        BY <1>1, <2>1, <2>2, <4>1
    <3> QED
      BY <2>1, <2>4, <3>1 DEF IsFilled
  <2> QED
    BY <1>3, <2>3, <2>5 DEF g
<1>4. ASSUME NEW i \in 1..n, NEW e, Filled(e) \in Rows, Store([table EXCEPT ![i] = e])
      PROVE  \E f, routes : Store(routes) /\ IsFilled(f, routes) /\ Edited(table, f)
  <2> DEFINE f == [table EXCEPT ![i] = Filled(e)]
             g == [table EXCEPT ![i] = e]
  <2>1. f \in Seq(Rows) /\ Len(f) = n
    BY <1>1, <1>4, ExceptSeq DEF n
  <2>2. DOMAIN g = 1..n /\ \A k \in 1..n : f[k] = Filled(g[k])
    BY <1>1
  <2>3. Edited(table, f)
    BY <1>4 DEF Edited, n
  <2>4. IsFilled(f, g)
    <3> HIDE DEF f, g
    <3> QED
      BY <2>1, <2>2 DEF IsFilled
  <2> QED
    BY <1>4, <2>3, <2>4
<1>5. CASE Resave
  <2>1. Store(table) /\ IsFilled(table, table) /\ Edited(table, table)
    BY <1>1, <1>5 DEF Resave, IsFilled, Edited, n
  <2> QED
    BY <2>1
<1>6. CASE CreateRoute
  BY <1>2, <1>3, <1>6 DEF CreateRoute
<1>7. CASE ReplaceRoute
  BY <1>1, <1>2, <1>4, <1>7 DEF ReplaceRoute
<1>8. CASE ToggleRoute
  <2>1. PICK i \in DOMAIN table : Store([table EXCEPT ![i].enabled = ~@])
    BY <1>8 DEF ToggleRoute
  <2> DEFINE x == [table[i] EXCEPT !.enabled = ~@]
  <2>2. x \in Rows /\ i \in 1..n
    BY <1>1, <2>1 DEF Rows
  <2>3. [table EXCEPT ![i].enabled = ~@] = [table EXCEPT ![i] = x]
    OBVIOUS
  <2> HIDE DEF x
  <2>4. Filled(x) \in Rows
    BY <2>2, FilledIsRow
  <2> QED
    BY <1>4, <2>1, <2>2, <2>3, <2>4
<1>9. CASE DuplicateRoute
  <2>1. PICK i \in DOMAIN table : Store(Append(table, table[i]))
    BY <1>9 DEF DuplicateRoute
  <2>2. Filled(table[i]) \in Rows
    BY <1>1, <2>1
  <2> QED
    BY <1>3, <2>1, <2>2
<1>10. CASE DeleteRoute
  <2>1. PICK i \in DOMAIN table : Store(RemoveAt(table, i))
    BY <1>10 DEF DeleteRoute
  <2> DEFINE f == RemoveAt(table, i)
  <2>2. i \in 1..Len(table)
    BY <1>1, <2>1 DEF n
  <2>3. f \in Seq(Rows)
    BY <1>1, <2>2, RemoveAtIs
  <2>4. Edited(table, f)
    BY <2>2 DEF Edited
  <2> HIDE DEF f
  <2>5. IsFilled(f, f)
    <3>1. DOMAIN f = 1..Len(f) /\ \A k \in 1..Len(f) : f[k] \in Rows
      BY <2>3, LenProperties, ElementOfSeq
    <3> QED
      BY <2>3, <3>1, FilledIsRow DEF IsFilled
  <2> QED
    BY <2>1, <2>4, <2>5 DEF f
<1> QED
  BY <1>5, <1>6, <1>7, <1>8, <1>9, <1>10 DEF OneEdit

InOrderIn(P, f) ==
    \A j, k \in 1..Len(f) : j < k /\ f[j] \in P /\ f[k] \in P => InOrder(f[j], f[k])

(* An edit that leaves the routes of P as many as they were changes other  *)
(* routes only.                                                            *)
LEMMA AppendKeepsLead ==
    ASSUME NEW P, NEW t \in Seq(Rows), Sorted(t), NEW x \in Rows,
           \A h \in P : Count(Append(t, x), h) = Count(t, h), NEW v, Leads(v, t, P)
    PROVE  Leads(v, Append(t, x), P) /\ InOrderIn(P, Append(t, x))
<1> DEFINE f == Append(t, x)
           n == Len(t)
<1>1. /\ Len(f) = n + 1 /\ n \in Nat /\ f[n + 1] = x
      /\ \A k \in 1..n : f[k] = t[k]
  BY AppendProperties, LenProperties
<1>2. f = InsertAt(t, n + 1, x) /\ n + 1 \in 1..n + 1
  BY AppendIsInsertAt
<1>3. x \notin P
  <2>1. Count(f, x) = Count(t, x) + 1 /\ Count(t, x) \in Nat
    BY <1>2, CountInserted, PlacesFinite
  <2>2. x \in P => Count(f, x) = Count(t, x)
    OBVIOUS
  <2> HIDE DEF f
  <2> QED
    BY <2>1, <2>2
<1>4. v \in P /\ \E i \in 1..n : t[i] = v /\ \A j \in 1..i - 1 : t[j] \notin P
  BY DEF Leads
<1>5. \A j, k \in 1..n : j < k => InOrder(t[j], t[k])
  BY DEF Sorted
<1> HIDE DEF f, n
<1>6. Leads(v, f, P)
  <2>1. PICK i \in 1..n : t[i] = v /\ \A j \in 1..i - 1 : t[j] \notin P
    BY <1>4
  <2>2. i \in 1..Len(f) /\ f[i] = v /\ \A j \in 1..i - 1 : f[j] = t[j]
    BY <1>1, <2>1
  <2> QED
    BY <1>4, <2>1, <2>2 DEF Leads
<1>7. InOrderIn(P, f)
  <2> SUFFICES ASSUME NEW j \in 1..Len(f), NEW k \in 1..Len(f), j < k, f[j] \in P, f[k] \in P
               PROVE  InOrder(f[j], f[k])
    BY DEF InOrderIn
  <2>1. k # n + 1
    BY <1>1, <1>3
  <2>2. j \in 1..n /\ k \in 1..n
    BY <1>1, <2>1
  <2> QED
    BY <1>1, <1>5, <2>2
<1> QED
  BY <1>6, <1>7 DEF f

LEMMA RemoveKeepsLead ==
    ASSUME NEW P, P \subseteq Rows, NEW t \in Seq(Rows), Sorted(t), NEW i \in 1..Len(t),
           \A h \in P : Count(RemoveAt(t, i), h) = Count(t, h), NEW v, Leads(v, t, P)
    PROVE  Leads(v, RemoveAt(t, i), P) /\ InOrderIn(P, RemoveAt(t, i))
<1> DEFINE f == RemoveAt(t, i)
           n == Len(t)
<1>1. /\ f \in Seq(Rows) /\ n \in Nat /\ Len(f) = n - 1
      /\ i \in 1..Len(f) + 1 /\ t = InsertAt(f, i, t[i])
      /\ \A k \in 1..i - 1 : f[k] = t[k]
      /\ \A k \in i..Len(f) : f[k] = t[k + 1]
  BY RemoveAtIs
<1>2. t[i] \in Rows /\ i \in 1..n
  BY ElementOfSeq
<1>3. t[i] \notin P
  <2> DEFINE y == t[i]
  <2> HIDE DEF y, f
  <2>1. y \in Rows /\ t = InsertAt(f, i, y)
    BY <1>1, <1>2 DEF y
  <2>2. Count(InsertAt(f, i, y), y) = Count(f, y) + 1
    BY <1>1, <2>1, CountInserted
  <2>3. Count(t, y) = Count(f, y) + 1 /\ Count(f, y) \in Nat
    BY <1>1, <2>1, <2>2, PlacesFinite
  <2>4. y \in P => Count(f, y) = Count(t, y)
    BY DEF f
  <2> QED
    BY <2>3, <2>4 DEF y
<1>4. v \in P /\ \E m \in 1..n : t[m] = v /\ \A j \in 1..m - 1 : t[j] \notin P
  BY DEF Leads
<1>5. \A j, k \in 1..n : j < k => InOrder(t[j], t[k])
  BY DEF Sorted
<1> HIDE DEF f, n
<1>6. Leads(v, f, P)
  <2>1. PICK m \in 1..n : t[m] = v /\ \A j \in 1..m - 1 : t[j] \notin P
    BY <1>4
  <2>2. m # i
    BY <1>3, <1>4, <2>1
  <2>3. CASE m < i
    <3>1. m \in 1..Len(f) /\ m \in 1..i - 1
      BY <1>1, <2>3
    <3>2. f[m] = v
      BY <1>1, <2>1, <3>1
    <3>3. ASSUME NEW j \in 1..m - 1 PROVE f[j] = t[j]
      <4>1. j \in 1..i - 1
        BY <1>1, <2>3
      <4> QED
        BY <1>1, <4>1
    <3> QED
      BY <1>4, <2>1, <3>1, <3>2, <3>3 DEF Leads
  <2>4. CASE m > i
    <3>1. m - 1 \in i..Len(f) /\ (m - 1) + 1 = m
      BY <1>1, <1>2, <2>4
    <3>2. f[m - 1] = v
      BY <1>1, <2>1, <3>1
    <3>3. ASSUME NEW j \in 1..(m - 1) - 1 PROVE f[j] \notin P
      <4>1. CASE j < i
        <5>1. f[j] = t[j] /\ j \in 1..m - 1
          BY <1>1, <1>2, <2>4, <4>1
        <5> QED
          BY <2>1, <5>1
      <4>2. CASE j >= i
        <5>1. f[j] = t[j + 1] /\ j + 1 \in 1..m - 1
          BY <1>1, <1>2, <2>4, <3>1, <4>2
        <5> QED
          BY <2>1, <5>1
      <4> QED
        BY <1>2, <4>1, <4>2
    <3>4. m - 1 \in 1..Len(f)
      BY <1>1, <1>2, <3>1
    <3> QED
      BY <1>4, <3>2, <3>3, <3>4 DEF Leads
  <2> QED
    BY <1>2, <2>2, <2>3, <2>4
<1>7. InOrderIn(P, f)
  <2> SUFFICES ASSUME NEW j \in 1..Len(f), NEW k \in 1..Len(f), j < k
               PROVE  InOrder(f[j], f[k])
    BY DEF InOrderIn
  <2>1. CASE k < i
    <3>1. f[j] = t[j] /\ f[k] = t[k] /\ j \in 1..n /\ k \in 1..n
      BY <1>1, <1>2, <2>1
    <3> QED
      BY <1>5, <3>1
  <2>2. CASE j < i /\ k >= i
    <3>1. f[j] = t[j] /\ f[k] = t[k + 1] /\ j \in 1..n /\ k + 1 \in 1..n /\ j < k + 1
      BY <1>1, <1>2, <2>2
    <3> QED
      BY <1>5, <3>1
  <2>3. CASE j >= i
    <3>1. /\ f[j] = t[j + 1] /\ f[k] = t[k + 1]
          /\ j + 1 \in 1..n /\ k + 1 \in 1..n /\ j + 1 < k + 1
      BY <1>1, <1>2, <2>3
    <3> QED
      BY <1>5, <3>1
  <2> QED
    BY <1>1, <1>2, <2>1, <2>2, <2>3
<1> QED
  BY <1>6, <1>7 DEF f

LEMMA ReplaceKeepsLead ==
    ASSUME NEW P, NEW t \in Seq(Rows), Sorted(t), NEW i \in 1..Len(t), NEW x \in Rows,
           x # t[i],
           \A h \in P : Count([t EXCEPT ![i] = x], h) = Count(t, h), NEW v, Leads(v, t, P)
    PROVE  Leads(v, [t EXCEPT ![i] = x], P) /\ InOrderIn(P, [t EXCEPT ![i] = x])
<1> DEFINE f == [t EXCEPT ![i] = x]
           n == Len(t)
           y == t[i]
<1>1. /\ f \in Seq(Rows) /\ n \in Nat /\ Len(f) = n /\ i \in 1..n
      /\ f[i] = x /\ \A k \in 1..n : k # i => f[k] = t[k]
      /\ DOMAIN t = 1..n /\ DOMAIN f = 1..n
  BY ExceptSeq, LenProperties
<1>2. /\ x \in P => Count(f, x) = Count(t, x)
      /\ y \in P => Count(f, y) = Count(t, y)
  OBVIOUS
<1>3. v \in P /\ \E m \in 1..n : t[m] = v /\ \A j \in 1..m - 1 : t[j] \notin P
  BY DEF Leads
<1>4. \A j, k \in 1..n : j < k => InOrder(t[j], t[k])
  BY DEF Sorted
<1>5. x # y /\ t[i] = y
  OBVIOUS
<1> HIDE DEF f, n, y
<1>6. x \notin P
  <2>1. Places(f, x) = Places(t, x) \cup {i} /\ i \notin Places(t, x)
    BY <1>1, <1>5 DEF Places
  <2>2. IsFiniteSet(Places(t, x)) /\ Count(t, x) \in Nat
    BY PlacesFinite
  <2>3. Count(f, x) = Count(t, x) + 1
    BY <2>1, <2>2, FS_AddElement DEF Count
  <2> QED
    BY <1>2, <2>2, <2>3
<1>7. y \notin P
  <2>1. Places(t, y) = Places(f, y) \cup {i} /\ i \notin Places(f, y)
    BY <1>1, <1>5 DEF Places
  <2>2. IsFiniteSet(Places(f, y)) /\ Count(f, y) \in Nat
    BY <1>1, PlacesFinite
  <2>3. Count(t, y) = Count(f, y) + 1
    BY <2>1, <2>2, FS_AddElement DEF Count
  <2> QED
    BY <1>2, <2>2, <2>3
<1>8. \A k \in 1..n : (f[k] \in P <=> t[k] \in P) /\ (f[k] \in P => f[k] = t[k])
  BY <1>1, <1>5, <1>6, <1>7
<1>9. Leads(v, f, P)
  <2>1. PICK m \in 1..n : t[m] = v /\ \A j \in 1..m - 1 : t[j] \notin P
    BY <1>3
  <2>2. m \in 1..Len(f) /\ f[m] = v
    BY <1>1, <1>3, <1>8, <2>1
  <2>3. \A j \in 1..m - 1 : f[j] \notin P
    BY <1>1, <1>8, <2>1
  <2> QED
    BY <1>3, <2>2, <2>3 DEF Leads
<1>10. InOrderIn(P, f)
  BY <1>1, <1>4, <1>8 DEF InOrderIn
<1> QED
  BY <1>9, <1>10 DEF f

LEMMA EditKeepsLead ==
    ASSUME NEW P, P \subseteq Rows, NEW t \in Seq(Rows), Sorted(t), NEW f, Edited(t, f),
           \A h \in P : Count(f, h) = Count(t, h), NEW v, Leads(v, t, P)
    PROVE  Leads(v, f, P) /\ InOrderIn(P, f)
<1>1. CASE f = t
  BY <1>1 DEF Sorted, InOrderIn
<1>2. CASE \E x \in Rows : f = Append(t, x)
  <2>1. PICK x \in Rows : f = Append(t, x)
    BY <1>2
  <2> QED
    BY <2>1, AppendKeepsLead
<1>3. CASE \E x \in Rows, i \in 1..Len(t) : f = [t EXCEPT ![i] = x]
  <2>1. PICK x \in Rows, i \in 1..Len(t) : f = [t EXCEPT ![i] = x]
    BY <1>3
  <2>2. CASE x = t[i]
    <3>1. f = t
      BY <2>1, <2>2, LenProperties
    <3> QED
      BY <1>1, <3>1
  <2>3. CASE x # t[i]
    BY <2>1, <2>3, ReplaceKeepsLead
  <2> QED
    BY <2>2, <2>3
<1>4. CASE \E i \in 1..Len(t) : f = RemoveAt(t, i)
  <2>1. PICK i \in 1..Len(t) : f = RemoveAt(t, i)
    BY <1>4
  <2> QED
    BY <2>1, RemoveKeepsLead
<1> QED
  BY <1>1, <1>2, <1>3, <1>4 DEF Edited

------------------------------------------------------------------------------
(* The routes that accept a request, and of these the weightiest: the      *)
(* first of them is chosen.                                                *)
Accepting(t, q) == {h \in Range(Handlers(t)) : Matches(h, q)}

Rivals(t, q, c) == {h \in Accepting(t, q) : Score(h.plan) = Score(c.plan)}

LEMMA ChosenLeads ==
    ASSUME NEW t \in Seq(Rows), Sorted(t), NEW q, Accepting(t, q) # {}
    PROVE  /\ \A h \in Accepting(t, q) : h \in Rows /\ Matches(h, q) /\ h.plan.nodes
           /\ \A h \in Accepting(t, q) : \E i \in 1..Len(t) : t[i] = h
           /\ \E c \in Accepting(t, q) :
                 /\ Choice(t, q) = Result(c) /\ Leads(c, Handlers(t), Rivals(t, q, c))
                 /\ \A h \in Accepting(t, q) : Score(h.plan) <= Score(c.plan)
<1> DEFINE s == Handlers(t)
           n == Len(s)
<1>1. /\ s \in Seq(Rows)
      /\ \A j \in 1..n : \E i \in 1..Len(t) : s[j] = t[i] /\ t[i].plan.nodes
  BY HandlersSorted
<1>2. n \in Nat /\ DOMAIN s = 1..n /\ \A i \in 1..n : s[i] \in Rows
  BY <1>1, LenProperties, ElementOfSeq
<1>3. Accepting(t, q) = {h \in {s[j] : j \in 1..n} : Matches(h, q)}
  <2>1. Range(s) = {s[j] : j \in 1..n}
    BY <1>2 DEF Range
  <2> QED
    BY <2>1 DEF Accepting
<1>4. PICK i \in 1..n : Weightiest(s, q, n, i) /\ Choice(t, q) = Result(s[i])
  <2>1. \E j \in 1..n : Matches(s[j], q)
    BY <1>3
  <2> QED
    BY <1>1, <2>1, ChosenIs
<1> DEFINE c == s[i]
<1>5. c \in Accepting(t, q)
  BY <1>3, <1>4 DEF Weightiest
<1>6. \A h \in Accepting(t, q) : Score(h.plan) <= Score(c.plan)
  BY <1>3, <1>4 DEF Weightiest
<1>7. Leads(c, s, Rivals(t, q, c))
  <2>1. c \in Rivals(t, q, c)
    BY <1>5 DEF Rivals
  <2>2. ASSUME NEW j \in 1..i - 1 PROVE s[j] \notin Rivals(t, q, c)
    <3>1. j \in 1..n /\ ~(i <= j)
      BY <1>2
    <3>2. Matches(s[j], q) => Score(s[j].plan) # Score(c.plan)
      BY <1>4, <3>1 DEF Weightiest
    <3> QED
      BY <3>2 DEF Rivals, Accepting
  <2> QED
    BY <2>1, <2>2 DEF Leads
<1>8. \A h \in Accepting(t, q) :
         h \in Rows /\ Matches(h, q) /\ h.plan.nodes /\ \E m \in 1..Len(t) : t[m] = h
  <2> HIDE DEF s, n
  <2> QED
    BY <1>1, <1>2, <1>3
<1> QED
  BY <1>4, <1>5, <1>6, <1>7, <1>8

(* Unless they are regular expressions, the weightiest are of one length.  *)
LEMMA RivalsOneLength ==
    ASSUME NEW t, NEW q \in Lookups, NEW c \in Rows, Matches(c, q), c.plan.match # "regex",
           \A h \in Accepting(t, q) : h \in Rows /\ Matches(h, q)
    PROVE  OneLength(Rivals(t, q, c))
<1>1. ASSUME NEW h \in Rivals(t, q, c)
      PROVE  h \in Rows /\ Len(h.plan.path) = Len(c.plan.path)
  <2>1. h \in Rows /\ Matches(h, q) /\ Score(h.plan) = Score(c.plan)
    BY DEF Rivals
  <2>2. /\ h.plan.match = "exact"  => Score(h.plan) = Exact /\ h.plan.path = q.path
        /\ h.plan.match = "prefix" => /\ Score(h.plan) = Len(h.plan.path)
                                      /\ Score(h.plan) < Exact
        /\ h.plan.match = "regex"  => Score(h.plan) = 0
        /\ h.plan.match \in {"exact", "prefix", "regex"} /\ Len(h.plan.path) \in Nat \ {0}
    BY <2>1, WeightOf
  <2>3. /\ c.plan.match = "exact"  => Score(c.plan) = Exact /\ c.plan.path = q.path
        /\ c.plan.match = "prefix" => /\ Score(c.plan) = Len(c.plan.path)
                                      /\ Score(c.plan) < Exact
        /\ c.plan.match \in {"exact", "prefix"} /\ Len(c.plan.path) \in Nat \ {0}
    BY WeightOf
  <2>4. Exact \in Nat \ {0}
    BY DEF Exact
  <2>5. Len(h.plan.path) = Len(c.plan.path)
    BY <2>1, <2>2, <2>3, <2>4
  <2> QED
    BY <2>1, <2>5
<1> QED
  BY <1>1 DEF OneLength

(* An edit that leaves the routes accepting q as they were, and as many,   *)
(* leaves the choice as it was.                                            *)
LEMMA SameChoice ==
    ASSUME NEW t \in Seq(Rows), Sorted(t), NEW f, NEW routes,
           IsFilled(f, routes), Edited(t, f),
           NEW u \in Seq(Rows), Sorted(u), u = Normalized(routes),
           NEW q \in Lookups, Accepting(t, q) # {}, Accepting(u, q) = Accepting(t, q),
           \A h \in Accepting(t, q) : Count(u, h) = Count(t, h),
           Choice(t, q).route.plan.match # "regex"
    PROVE  Choice(u, q) = Choice(t, q)
<1> DEFINE A == Accepting(t, q)
<1>1. \A h \in A : h \in Rows /\ Matches(h, q) /\ h.plan.nodes /\ \E i \in 1..Len(t) : t[i] = h
  BY ChosenLeads
<1>2. PICK c \in A : /\ Choice(t, q) = Result(c) /\ Leads(c, Handlers(t), Rivals(t, q, c))
                     /\ \A h \in A : Score(h.plan) <= Score(c.plan)
  BY ChosenLeads
<1>3. PICK d \in A : /\ Choice(u, q) = Result(d) /\ Leads(d, Handlers(u), Rivals(u, q, d))
                     /\ \A h \in A : Score(h.plan) <= Score(d.plan)
  BY ChosenLeads
<1> DEFINE P == Rivals(t, q, c)
<1>4. Rivals(u, q, d) = P
  <2>1. Score(c.plan) = Score(d.plan)
    <3>1. Score(c.plan) \in Nat /\ Score(d.plan) \in Nat
      BY <1>1, ScoreIsNat
    <3> QED
      BY <1>2, <1>3, <3>1
  <2> QED
    BY <2>1 DEF Rivals
<1>5. OneLength(P) /\ \A h \in P : h.plan.nodes
  <2>1. c.plan.match # "regex"
    BY <1>2 DEF Result
  <2>2. \A h \in P : h.plan.nodes
    BY <1>1 DEF Rivals
  <2> QED
    BY <1>1, <2>1, <2>2, RivalsOneLength
<1>6. f \in Seq(Rows) /\ \A h \in P : Count(f, h) = Count(t, h)
  <2>1. f \in Seq(Rows) /\ DOMAIN routes = 1..Len(f) /\ \A i \in 1..Len(f) : f[i] = Filled(routes[i])
    BY DEF IsFilled
  <2>2. \A h : Count(u, h) = Count(f, h)
    BY <2>1, CountSorted
  <2>3. P \subseteq A
    BY DEF Rivals
  <2> QED
    BY <2>1, <2>2, <2>3
<1>7. Handlers(t) \in Seq(Rows) /\ Handlers(u) \in Seq(Rows)
  BY HandlersSorted
<1>8. P \subseteq Rows
  BY <1>5 DEF OneLength
<1>9. c \in P
  BY DEF Rivals
<1> HIDE DEF P, A
<1>10. Leads(c, t, P)
  <2>1. PICK v : Leads(v, t, P)
    BY <1>1, <1>2, <1>9, SomeLeads
  <2>2. Leads(v, Handlers(t), P)
    BY <1>5, <2>1, HandlersKeepLead
  <2>3. Leads(c, Handlers(t), P)
    BY <1>2 DEF P
  <2> QED
    BY <1>7, <2>1, <2>2, <2>3, OneLeads
<1>11. Leads(c, f, P) /\ InOrderIn(P, f)
  BY <1>6, <1>8, <1>10, EditKeepsLead
<1>12. Leads(c, u, P)
  <2>1. /\ DOMAIN routes = 1..Len(f) /\ \A i \in 1..Len(f) : f[i] = Filled(routes[i])
        /\ \A i, j \in 1..Len(f) : i < j /\ f[i] \in P /\ f[j] \in P => InOrder(f[i], f[j])
    BY <1>11 DEF IsFilled, InOrderIn
  <2>2. Leads(c, Normalized(routes), P)
    BY <1>5, <1>6, <1>11, <2>1, SortKeepsLead
  <2> QED
    BY <2>2
<1>13. Leads(c, Handlers(u), P)
  BY <1>5, <1>12, HandlersKeepLead
<1>14. c = d
  <2>1. Leads(d, Handlers(u), P)
    BY <1>3, <1>4
  <2> QED
    BY <1>7, <1>13, <2>1, OneLeads
<1> QED
  BY <1>2, <1>3, <1>14

(* Adding, changing or deleting another route moves no request.            *)
THEOREM RoutingOthersDoNotMatter == RoutingSpec => OthersDoNotMatter
<1>1. ASSUME TableInv, OneEdit, NEW q \in Lookups,
             CandidateBag(q)' = CandidateBag(q), Candidates(q) # {},
             Choice(table, q).route.plan.match # "regex"
      PROVE  Choice(table, q)' = Choice(table, q)
  <2> DEFINE t == table
             u == table'
  <2>1. t \in Seq(Rows) /\ Sorted(t) /\ u \in Seq(Rows) /\ Sorted(u)
    BY <1>1, RoutingStep DEF TableInv, RoutingNext
  <2>2. PICK f, routes : Store(routes) /\ IsFilled(f, routes) /\ Edited(t, f)
    BY <1>1, StepIsEdit
  <2>3. u = Normalized(routes)
    BY <2>2 DEF Store
  <2>4. /\ CandidateBag(q) = [h \in Accepting(t, q) |-> Count(t, h)]
        /\ CandidateBag(q)' = [h \in Accepting(u, q) |-> Count(u, h)]
        /\ Candidates(q) = Accepting(t, q)
    BY DEF CandidateBag, Candidates, Accepting, Count, Places
  <2> DEFINE b == CandidateBag(q)
             bb == CandidateBag(q)'
  <2>5. /\ DOMAIN b = Accepting(t, q) /\ DOMAIN bb = Accepting(u, q)
        /\ \A h \in Accepting(t, q) : b[h] = Count(t, h)
        /\ \A h \in Accepting(u, q) : bb[h] = Count(u, h)
    BY <2>4
  <2>6. b = bb
    BY <1>1
  <2> HIDE DEF b, bb
  <2>7. /\ Accepting(u, q) = Accepting(t, q)
        /\ \A h \in Accepting(t, q) : Count(u, h) = Count(t, h)
    BY <2>5, <2>6
  <2>8. Accepting(t, q) # {} /\ Choice(t, q).route.plan.match # "regex"
    BY <1>1, <2>4
  <2> HIDE DEF t, u
  <2>9. Choice(u, q) = Choice(t, q)
    BY ONLY q \in Lookups, <2>1, <2>2, <2>3, <2>7, <2>8, SameChoice
  <2> QED
    BY <2>9 DEF t, u
<1>2. TableInv /\ [RoutingNext]_table
      => [\A q \in Lookups :
            /\ CandidateBag(q)' = CandidateBag(q)
            /\ Candidates(q) # {}
            /\ Choice(table, q).route.plan.match # "regex"
            => \/ Choice(table, q)' = Choice(table, q)
               \/ ~OneEdit]_table
  BY <1>1
<1> QED
  BY <1>2, TableAlways, PTL DEF RoutingSpec, OthersDoNotMatter
==============================================================================
