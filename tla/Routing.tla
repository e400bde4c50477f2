------------------------------- MODULE Routing -------------------------------
(***************************************************************************)
(* The route table and the choice of a route: every Store.Update sorts the *)
(* table (Config.normalize, internal/config/config.go), Engine.Reload      *)
(* builds a handler for each route that has nodes, and Engine.match        *)
(* (internal/proxy/engine.go) scans the handlers for the best one.         *)
(*                                                                         *)
(* One action per handler of the admin API that edits one route, and one   *)
(* for all that put another table in the place of the old: PUT config, an  *)
(* import, the reading of a file that was edited by hand.  A request names *)
(* a route by its id; here an action picks its place.  The engine.Reload   *)
(* that follows an Update is taken to be immediate: what may come between  *)
(* the two is the subject of HotReload.                                    *)
(***************************************************************************)
EXTENDS Paths

CONSTANTS
    Plans,          \* the routes an administrator may write
    Hosts,          \* the hosts that are requested
    MaxRoutes,      \* bound of the model: routes in the table
    Tables          \* the tables that an import or a file may bring

Patterns == [labels : Seq(STRING), wild : BOOLEAN, port : BOOLEAN]

(* A route: host is a pattern, path a path or the text of a regular        *)
(* expression, lang the paths that this expression accepts (none if it     *)
(* does not compile), nodes whether Reload finds a usable backend for it.  *)
ASSUME RoutingAssumption ==
    /\ \A p \in Plans :
          p \in [host : Patterns, path : Seq(STRING),
                match : {"", "exact", "prefix", "regex"}, lang : SUBSET Asked,
                priority : Int, nodes : BOOLEAN]
    /\ MaxRoutes \in 1..20      \* up to 20 elements sort.SliceStable only inserts

Exact == 2^30   \* the score of an exact match

(* The server limits the header of a request, and the path with it, to     *)
(* maxHeaderKB, 64 KB by default (main.go:156).  That it is left below     *)
(* 1 GB is taken for granted: a prefix as long would weigh as much as an   *)
(* exact match.                                                            *)
ASSUME LengthAssumption == \A path \in Asked : Len(path) < Exact

VARIABLE table      \* cfg.Routes: a sequence of [plan, enabled]

Entries == [plan : Plans, enabled : BOOLEAN]

ASSUME TablesAssumption ==
    \A routes \in Tables : routes \in Seq(Entries) /\ Len(routes) <= MaxRoutes

Lookups == [host : Hosts, path : Asked]

AnyHost(p) == p.host.labels = <<>>

------------------------------------------------------------------------------
(* Config.normalize: what was left blank is filled in, the table is sorted *)

Completed(p) ==
    [host |-> p.host, path |-> IF p.path = <<>> THEN Slash ELSE p.path,
     match |-> IF p.match = "" THEN "prefix" ELSE p.match,
     lang |-> p.lang, priority |-> p.priority, nodes |-> p.nodes]

Filled(e) == [plan |-> Completed(e.plan), enabled |-> e.enabled]

Less_nohost_bug(x, y) ==       \* a host does not count
    IF x.plan.priority # y.plan.priority THEN x.plan.priority > y.plan.priority
                                         ELSE Len(x.plan.path) > Len(y.plan.path)

(* The comparison that the sort is given.  It is not an order: a short     *)
(* path with a host and a longer path without one are each less than the   *)
(* other.                                                                  *)
Less(x, y) ==
    IF x.plan.priority # y.plan.priority THEN x.plan.priority > y.plan.priority
    ELSE \/ ~AnyHost(x.plan) /\ AnyHost(y.plan)
         \/ Len(x.plan.path) > Len(y.plan.path)

Inserted_unstable_bug(sorted, x) ==        \* past the routes that equal it
    LET Stays == {k \in 1..Len(sorted) : Less(sorted[k], x)}
        at    == IF Stays = {} THEN 1 ELSE 1 + CHOOSE k \in Stays : \A j \in Stays : j <= k
    IN  InsertAt(sorted, at, x)

(* One round of the insertion sort: x moves towards the front as long as   *)
(* it is less than the element it would pass.                              *)
Inserted(sorted, x) ==
    LET Stays == {k \in 1..Len(sorted) : ~Less(x, sorted[k])}
        at    == IF Stays = {} THEN 1 ELSE 1 + CHOOSE k \in Stays : \A j \in Stays : j <= k
    IN  InsertAt(sorted, at, x)

Normalized(routes) == FoldLeft(Inserted, <<>>, [i \in DOMAIN routes |-> Filled(routes[i])])

------------------------------------------------------------------------------
(* Engine.Reload and Engine.match *)

(* The routes that get a handler, in the order of the table. *)
Handlers(routes) ==
    FoldLeft(LAMBDA built, h : IF h.plan.nodes THEN Append(built, h) ELSE built,
             <<>>, routes)

(* RouteHandler.match *)
Matches(h, q) ==
    /\ h.enabled
    /\ HostMatch(h.plan.host, q.host)
    /\ CASE h.plan.match = "exact"  -> q.path = h.plan.path
         [] h.plan.match = "regex"  -> q.path \in h.plan.lang
         [] h.plan.match = "prefix" -> h.plan.path = Slash \/ HasPrefix(q.path, h.plan.path)

Score_exact_bug(p) ==          \* an exact match counts as its prefix would
    IF p.match = "regex" THEN 0 ELSE Len(p.path)

(* The weight that match gives to a route that accepts the request. *)
Score(p) ==
    CASE p.match = "exact"  -> Exact
      [] p.match = "regex"  -> 0
      [] p.match = "prefix" -> IF p.path = Slash THEN 1 ELSE Len(p.path)

Nobody == [score |-> -1]

(* Engine.match: one pass over the handlers; a later one replaces the best *)
(* so far only with a higher score.                                        *)
Choice(routes, q) ==
    LET Better(best, h) ==
            IF Matches(h, q) /\ Score(h.plan) > best.score
            THEN [score |-> Score(h.plan), route |-> h]
            ELSE best
    IN  FoldLeft(Better, Nobody, Handlers(routes))

------------------------------------------------------------------------------
(* The edits of the table: each is an Update, which sorts what it produced *)

Store(routes) == table' = Normalized(routes)

(* An Update that leaves the routes alone: settings, proxies, an id that   *)
(* names no route.                                                         *)
Resave == Store(table)

CreateRoute == /\ Len(table) < MaxRoutes
               /\ \E e \in Entries : Store(Append(table, e))

ReplaceRoute == \E i \in DOMAIN table, e \in Entries : Store([table EXCEPT ![i] = e])

ToggleRoute == \E i \in DOMAIN table : Store([table EXCEPT ![i].enabled = ~@])

DuplicateRoute == /\ Len(table) < MaxRoutes
                  /\ \E i \in DOMAIN table : Store(Append(table, table[i]))

DeleteRoute == \E i \in DOMAIN table : Store(RemoveAt(table, i))

(* PUT config and import store the table of their body, Store.Reload that  *)
(* of the file.  Nothing in them is checked against the table they replace.*)
ReplaceTable == \E routes \in Tables : Store(routes)

RoutingInit == table = <<>>

(* What the console does to one route at a time. *)
OneEdit ==
    \/ Resave
    \/ CreateRoute
    \/ ReplaceRoute
    \/ ToggleRoute
    \/ DuplicateRoute
    \/ DeleteRoute

RoutingNext == OneEdit \/ ReplaceTable

RoutingSpec == RoutingInit /\ [][RoutingNext]_table

------------------------------------------------------------------------------
(* Properties *)

Candidates(q) == {h \in Range(Handlers(table)) : Matches(h, q)}

(* How often each route that accepts q is in the table. *)
CandidateBag(q) ==
    [h \in Candidates(q) |-> Cardinality({i \in DOMAIN table : table[i] = h})]

(* "Exact match > longer prefix > regular expression": the comment in      *)
(* Engine.match, as a relation between two routes that accept a request.   *)
MoreSpecific(x, y) ==
    \/ x.match = "exact" /\ y.match # "exact"
    \/ x.match = "prefix" /\ y.match = "regex"
    \/ x.match = "prefix" /\ y.match = "prefix" /\ Len(x.path) > Len(y.path)

(* A request that an enabled route with nodes accepts is served by such a  *)
(* route, by one than which none is more specific; another finds no route. *)
MostSpecific ==
    \A q \in Lookups :
       IF Candidates(q) = {} THEN Choice(table, q) = Nobody
       ELSE LET c == Choice(table, q).route
            IN  /\ c \in Candidates(q)
                /\ \A h \in Candidates(q) : ~MoreSpecific(h.plan, c.plan)

(* Among routes that are equally specific the priority decides, and at     *)
(* equal priorities a route for this host wins over one for every host,    *)
(* whatever edits made the table: the comparison of the sort is no order,  *)
(* but never so between routes of one path.                                *)
TiesByPriorityThenHost ==
    \A q \in Lookups :
       Candidates(q) # {} =>
          LET c == Choice(table, q).route.plan
          IN  \A h \in Candidates(q) :
                 ~MoreSpecific(c, h.plan) =>
                    /\ c.priority >= h.plan.priority
                    /\ (c.priority = h.plan.priority /\ c.match # "regex" /\ ~AnyHost(h.plan))
                          => ~AnyHost(c)

(* An edit of one route that leaves the routes accepting a request as they *)
(* were leaves its route as it was, unless a regular expression won:       *)
(* adding, changing or deleting another route, or saving the settings,     *)
(* moves no request, though each sorts the whole table again and the       *)
(* comparison it sorts by is no order.                                     *)
OthersDoNotMatter ==
    [][\A q \in Lookups :
          /\ CandidateBag(q)' = CandidateBag(q)
          /\ Candidates(q) # {}
          /\ Choice(table, q).route.plan.match # "regex"
          => \/ Choice(table, q)' = Choice(table, q)
             \/ ~OneEdit]_table

(* The same for every step.  It does not hold: a table that lists the same *)
(* routes in another order (an export imported again after its routes were *)
(* moved, a file edited by hand) changes the choice between two routes of  *)
(* one path and priority, say for a.com and for *.com.                     *)
OrderDoesNotMatter ==
    [][\A q \in Lookups :
          /\ CandidateBag(q)' = CandidateBag(q)
          /\ Candidates(q) # {}
          /\ Choice(table, q).route.plan.match # "regex"
          => Choice(table, q)' = Choice(table, q)]_table

(* One edit, and a regular expression too.  It does not hold: two of them, *)
(* one short with a host and one longer without, change places with every  *)
(* save.                                                                   *)
SaveKeepsEveryChoice ==
    [][\A q \in Lookups :
          CandidateBag(q)' = CandidateBag(q)
          => Choice(table, q)' = Choice(table, q) \/ ~OneEdit]_table

(* The order README.md:411 gives: higher priority, then a host, then the   *)
(* longer path.  It does not hold: the score comes before all three.       *)
DocumentedOrder ==
    \A q \in Lookups :
       Candidates(q) # {} =>
          LET c == Choice(table, q).route.plan
          IN  \A h \in Candidates(q) : c.priority >= h.plan.priority
=============================================================================
