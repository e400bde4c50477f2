------------------------------- MODULE Forward -------------------------------
(***************************************************************************)
(* One request on its way through a route: Engine.ServeHTTP checks who may *)
(* pass, the reverse proxy rewrites the request, routeRT.RoundTrip sends   *)
(* it and, after a network error, sends it to another node                 *)
(* (internal/proxy/engine.go, middleware.go).  In the mode domain_in_path  *)
(* the path names the host to ask, and rules of the route choose scheme    *)
(* and outgoing proxy for it.                                              *)
(*                                                                         *)
(* The configuration may be replaced while the request runs: the handler   *)
(* keeps its route, currentCfg() does not stay.  Which node Pool.Next      *)
(* picks, and whether the limiter has a token, is left open here; Upstream *)
(* and RateLimiter are about that.  Nodes with the scheme internal are     *)
(* Upstream's, too.                                                        *)
(***************************************************************************)
EXTENDS Paths, FiniteSets

CONSTANTS
    Routes,         \* the routes that may have been chosen
    Clients,        \* the addresses of clients
    Nodes,          \* the nodes of the pool
    Base,           \* Base[n]: the path in the URL of node n
    Names,          \* Names[f]: the host that a path fragment names
    Invalid,        \* fragments with a dot first, or a blank: no domain begins so
    Configs,        \* configurations: default proxy, proxies, blank ones of them
    MaxReloads      \* bound of the model: reloads during one request

ASSUME ForwardAssumption ==
    /\ IsFiniteSet(Nodes) /\ Nodes # {}
    /\ Base \in [Nodes -> Seq(STRING)]
    /\ \A r \in Routes : r.path \in Seq(STRING)
    /\ MaxReloads \in Nat

VARIABLES
    cfg,            \* e.cfg: its default proxy, its proxies, those without address
    reloads,        \* how often cfg was replaced since the request arrived
    route,          \* h.cfg of the handler that was chosen
    req,            \* the request: path, client, login, body
    pc,             \* "arrived", "checking", "sending" or "done"
    url,            \* req.URL of the outgoing request: scheme, host, path
    node,           \* the node in the request's context
    tried,          \* RoundTrip's exclude
    spent,          \* tokens this request took from the limiter
    logged,         \* what the access log will say: host, scheme, proxy, node
    asks,           \* what was sent, in order
    status          \* of the answer; 200 stands for what a node answered

vars == <<cfg, reloads, route, req, pc, url, node, tried, spent, logged, asks, status>>

Nowhere == [scheme |-> "", host |-> <<>>, path |-> <<>>]
NoNode  == "-"
NoLog   == [host |-> <<>>, scheme |-> "", exit |-> "", node |-> NoNode]

Dynamic(r) == r.mode = "domain_in_path"

------------------------------------------------------------------------------
(* Access control *)

(* IPMatcher: items that are neither an address nor a network are dropped  *)
(* when the list is read; a list without items matches nobody.             *)
Valid(list) == {item \in list : item.valid}

Listed(list, client) == \E item \in Valid(list) : client \in item.ips

AddressRefused(r, client) ==
    \/ Listed(r.deny, client)
    \/ Valid(r.allow) # {} /\ ~Listed(r.allow, client)

------------------------------------------------------------------------------
(* The domain in the path *)

InnerPath_prefix_bug(path, prefix) == path      \* the route's prefix stays

(* routePathInner *)
InnerPath(path, prefix) == IF prefix = Slash THEN path ELSE Rooted(TrimPrefix(path, prefix))

BeforeSlash(s) ==
    LET Stops == {k \in 1..Len(s) : s[k] = "/"}
    IN  SubSeq(s, 1, IF Stops = {} THEN Len(s)
                     ELSE (CHOOSE k \in Stops : \A j \in Stops : k <= j) - 1)

(* dynDomainOf: the fragments of the domain, none if there is no valid one *)
Domain(path, prefix) ==
    LET domain == BeforeSlash(TrimPrefix(InnerPath(path, prefix), Slash))
    IN  IF domain # <<>> /\ Head(domain) \in Invalid THEN <<>> ELSE domain

HostOf(domain) ==
    IF Len(domain) = 1 /\ domain[1] \in DOMAIN Names
    THEN Names[domain[1]]
    ELSE [labels |-> domain, port |-> FALSE]

(* resolveProxyFn *)
Exit(c, id) ==
    LET pid == IF id = "" THEN c.default ELSE id
    IN  CASE pid \in {"", "__direct__"} -> "direct"
          [] pid \in c.blank            -> "direct"
          [] pid \in c.proxies \ c.blank -> pid
          [] OTHER                      -> "direct, no such proxy"

(* The first place in ks, or 0 if there is none: a loop with a return. *)
First(ks) == IF ks = {} THEN 0 ELSE CHOOSE k \in ks : \A j \in ks : k <= j

(* resolveDynProxy: the first rule for the host decides, else the route *)
ExitFor(c, r, host) ==
    LET k == First({i \in DOMAIN r.rules : HostMatch(r.rules[i].match, host)})
    IN  Exit(c, IF k = 0 THEN r.proxy ELSE r.rules[k].proxy)

RouteScheme(r) == IF r.scheme = "https" THEN "https" ELSE "http"

(* dynSchemeOf: the first rule for the host that has a scheme *)
SchemeFor(r, host) ==
    LET k == First({i \in DOMAIN r.rules :
                      r.rules[i].scheme # "" /\ HostMatch(r.rules[i].match, host)})
    IN  IF k = 0 THEN RouteScheme(r) ELSE r.rules[k].scheme

------------------------------------------------------------------------------
(* The outgoing URL *)

OutURL_base_bug(r, u, n) ==    \* the slash that ends the node's path stays
    LET rest == Rooted(TrimPrefix(u.path, r.path))
        path == IF r.rewrite # <<>> THEN TrimSlashes(r.rewrite) \o rest
                ELSE IF r.strip     THEN rest
                                    ELSE u.path
    IN  [scheme |-> "http", host |-> <<n>>, path |-> Base[n] \o path]

(* applyOutURL: the path of u is rewritten and the node's put before it *)
OutURL(r, u, n) ==
    LET rest == Rooted(TrimPrefix(u.path, r.path))
        path == IF r.rewrite # <<>> THEN TrimSlashes(r.rewrite) \o rest
                ELSE IF r.strip     THEN rest
                                    ELSE u.path
    IN  [scheme |-> "http", host |-> <<n>>, path |-> TrimSlashes(Base[n]) \o path]

(* rewriteDynamic *)
DynamicURL(r, path) ==
    LET domain == Domain(path, r.path)
        rest   == TrimPrefix(TrimPrefix(InnerPath(path, r.path), Slash), domain)
    IN  [scheme |-> SchemeFor(r, HostOf(domain)), host |-> domain, path |-> Rooted(rest)]

------------------------------------------------------------------------------
(* Engine.ServeHTTP *)

Finish(code) == /\ pc' = "done"
                /\ status' = code

(* A request has been matched to a route, by the prefix that is its path:  *)
(* an exact match is the case of p = r.path.                               *)
Arrive ==
    /\ pc = "done"
    /\ \E r \in Routes, p \in Asked, c \in Clients, login, body \in BOOLEAN :
          /\ HasPrefix(p, r.path)
          /\ route' = r
          /\ req' = [path |-> p, client |-> c, login |-> login, body |-> body]
    /\ pc' = "arrived" /\ status' = 0
    /\ url' = Nowhere /\ node' = NoNode /\ tried' = {}
    /\ spent' = 0 /\ logged' = NoLog /\ asks' = <<>>
    /\ reloads' = 0
    /\ UNCHANGED cfg

request == <<route, req>>

(* The mode domain_in_path needs a domain; the log entry gets the proxy    *)
(* for it, and the scheme of the route.                                    *)
Name ==
    /\ pc = "arrived"
    /\ LET domain == Domain(req.path, route.path)
       IN  IF ~Dynamic(route)
           THEN pc' = "checking" /\ UNCHANGED <<status, logged>>
           ELSE IF domain = <<>>
           THEN Finish(400) /\ UNCHANGED logged
           ELSE /\ pc' = "checking"
                /\ logged' = [logged EXCEPT !.host = domain, !.scheme = RouteScheme(route),
                                            !.exit = ExitFor(cfg, route, HostOf(domain))]
                /\ UNCHANGED status
    /\ UNCHANGED <<cfg, reloads, request, url, node, tried, spent, asks>>

LoginRefused == route.auth /\ ~req.login

(* The checks in their order: addresses, login, rate. *)
Refuse ==
    /\ pc = "checking"
    /\ \/ AddressRefused(route, req.client) /\ Finish(403)
       \/ ~AddressRefused(route, req.client) /\ LoginRefused /\ Finish(401)
       \/ ~AddressRefused(route, req.client) /\ ~LoginRefused /\ route.limited /\ Finish(429)
    /\ UNCHANGED <<cfg, reloads, request, url, node, tried, spent, logged, asks>>

Admitted_limitfirst_bug ==     \* the limiter is asked before the login
    /\ pc = "checking"
    /\ ~AddressRefused(route, req.client)
    /\ spent' = IF route.limited THEN spent + 1 ELSE spent

(* All checks are passed; a limited route takes a token for it. *)
Admitted ==
    /\ pc = "checking"
    /\ ~AddressRefused(route, req.client) /\ ~LoginRefused
    /\ spent' = IF route.limited THEN spent + 1 ELSE spent

(* Pool.Next finds no node.  In the mode domain_in_path nothing marks the  *)
(* nodes, there always is one.                                             *)
NoUpstream ==
    /\ Admitted
    /\ ~Dynamic(route)
    /\ Finish(502)
    /\ UNCHANGED <<cfg, reloads, request, url, node, tried, logged, asks>>

(* A node is picked and the outgoing request made from the incoming one. *)
Pick ==
    /\ Admitted
    /\ \E n \in Nodes :
          /\ node' = n
          /\ url' = IF Dynamic(route) THEN DynamicURL(route, req.path)
                                      ELSE OutURL(route, [path |-> req.path], n)
          /\ logged' = IF Dynamic(route) THEN logged ELSE [logged EXCEPT !.node = n]
    /\ pc' = "sending"
    /\ UNCHANGED <<cfg, reloads, request, tried, asks, status>>

------------------------------------------------------------------------------
(* routeRT.RoundTrip *)

(* The request as the transport gets it.  roundTripDynamic looks the proxy *)
(* up again, for the host of the URL.                                      *)
UsedHost_again_bug(u) == Domain(u.path, route.path)   \* parses what is left of the path

UsedHost(u) == u.host

Ask == [node |-> node, scheme |-> url.scheme, host |-> url.host, path |-> url.path,
        exit |-> IF Dynamic(route) THEN ExitFor(cfg, route, HostOf(UsedHost(url))) ELSE ""]

Attempts_body_bug == 1 + route.retry        \* whatever the request carries

(* A request with a body is not repeated, nor one that names its host. *)
Attempts == IF req.body \/ Dynamic(route) THEN 1 ELSE 1 + route.retry

Answered ==
    /\ pc = "sending"
    /\ asks' = Append(asks, Ask)
    /\ Finish(200)
    /\ UNCHANGED <<cfg, reloads, request, url, node, tried, spent, logged>>

TriedNow == tried \cup {node}

(* A network error.  Another node is tried if attempts and nodes are left; *)
(* the URL it is sent to is computed from the URL of the last attempt.     *)
Failed ==
    /\ pc = "sending"
    /\ asks' = Append(asks, Ask)
    /\ tried' = TriedNow
    /\ \/ /\ Len(asks') < Attempts
          /\ \E n \in Nodes \ tried' :
                /\ node' = n
                /\ url' = OutURL(route, url, n)
          /\ UNCHANGED <<pc, status>>
       \/ /\ \E code \in {502, 504} : Finish(code)
          /\ UNCHANGED <<url, node>>
    /\ UNCHANGED <<cfg, reloads, request, spent, logged>>

(* Engine.Reload installs another configuration. *)
Reconfigure ==
    /\ reloads < MaxReloads
    /\ reloads' = reloads + 1
    /\ cfg' \in Configs
    /\ UNCHANGED <<request, pc, url, node, tried, spent, logged, asks, status>>

Init ==
    /\ cfg \in Configs /\ reloads = 0
    /\ route \in Routes
    /\ req = [path |-> route.path, client |-> CHOOSE c \in Clients : TRUE,
              login |-> FALSE, body |-> FALSE]
    /\ pc = "done" /\ status = 0
    /\ url = Nowhere /\ node = NoNode /\ tried = {}
    /\ spent = 0 /\ logged = NoLog /\ asks = <<>>

Next == \/ Arrive \/ Name \/ Refuse \/ NoUpstream \/ Pick
        \/ Answered \/ Failed
        \/ Reconfigure

Spec == Init /\ [][Next]_vars

------------------------------------------------------------------------------
(* Properties *)

(* The nodes that are excluded from the next pick are those that were sent *)
(* the request and did not answer; the node it is being sent to is another.*)
ExcludedAreFailed ==
    /\ tried = {asks[k].node : k \in 1..Len(asks)} \ (IF status = 200 THEN {node} ELSE {})
    /\ pc = "sending" => node \notin tried

TypeOK ==
    /\ cfg \in Configs /\ reloads \in 0..MaxReloads
    /\ route \in Routes /\ req.path \in Asked \cup {route.path} /\ req.client \in Clients
    /\ pc \in {"arrived", "checking", "sending", "done"}
    /\ status \in {0, 200, 400, 401, 403, 429, 502, 504}
    /\ node \in Nodes \cup {NoNode} /\ tried \subseteq Nodes
    /\ spent \in 0..1
    /\ \A k \in 1..Len(asks) : asks[k].node \in Nodes
    /\ ExcludedAreFailed

(* Only a request that its route lets in reaches a node or costs a token:  *)
(* no client that the deny list names, none outside an allow list that has *)
(* an item, none without the login where one is asked for.                 *)
OnlyAdmittedCount ==
    spent > 0 \/ asks # <<>> =>
        /\ \A item \in route.deny : item.valid => req.client \notin item.ips
        /\ (\E item \in route.allow : item.valid)
              => \E item \in route.allow : item.valid /\ req.client \in item.ips
        /\ route.auth => req.login

(* A request with a body is sent at most once, however many retries its    *)
(* route grants, and no request to one node twice (README.md:35).          *)
SentOnce ==
    /\ req.body => Len(asks) <= 1
    /\ \A j, k \in 1..Len(asks) : j # k => asks[j].node # asks[k].node

(* In the mode domain_in_path, host and path of the request that is sent,  *)
(* put behind the path of the route, are the path that was asked for, if   *)
(* that went on behind the route's with a slash, and with one only.        *)
TargetIsEmbedded ==
    Dynamic(route) =>
        \A k \in 1..Len(asks) :
           LET behind == TrimPrefix(req.path, TrimSlashes(route.path))
               target == Slash \o asks[k].host \o asks[k].path
           IN  HasPrefix(behind, Slash) /\ ~HasPrefix(behind, <<"/", "/">>)
                  => target \in {behind, behind \o Slash}

(* The proxy that the access log names is the one the request was sent     *)
(* through, unless the configuration was replaced while it ran: the rules  *)
(* are looked up twice, once for the path and once for the rewritten URL.  *)
LoggedExitUsed ==
    Dynamic(route) /\ reloads = 0 =>
        \A k \in 1..Len(asks) : asks[k].exit = logged.exit

(* What node n was asked for, without the path of its own URL. *)
Question(ask) == TrimPrefix(ask.path, TrimSlashes(Base[ask.node]))

(* Every node that a request is sent to is asked for the same, by a route  *)
(* that leaves the path alone and has nodes without a path of their own.   *)
SameQuestionPlain ==
    /\ route.rewrite = <<>> /\ ~route.strip
    /\ \A n \in Nodes : TrimSlashes(Base[n]) = <<>>
    =>
        \A j, k \in 1..Len(asks) : Question(asks[j]) = Question(asks[k])

(* The same for every route.  It does not hold: a retry rewrites the path  *)
(* that the attempt before it has rewritten.                               *)
SameQuestion == \A j, k \in 1..Len(asks) : Question(asks[j]) = Question(asks[k])

(* The scheme in the access log is the one that was used.  It does not     *)
(* hold: the log leaves the rules' schemes out.                            *)
LoggedSchemeUsed ==
    Dynamic(route) => \A k \in 1..Len(asks) : asks[k].scheme = logged.scheme

(* The node in the access log is the one that answered.  It does not hold: *)
(* the log names the first that was tried.                                 *)
LoggedNodeAnswered ==
    ~Dynamic(route) /\ status = 200 => asks[Len(asks)].node = logged.node

(* An allow list lets only the clients pass that it names.  It does not    *)
(* hold: a list of which no item can be read is taken for no list.         *)
AllowListHolds ==
    asks # <<>> /\ route.allow # {} => \E item \in route.allow : req.client \in item.ips
=============================================================================
