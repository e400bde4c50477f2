------------------------------ MODULE Outgoing -------------------------------
(***************************************************************************)
(* How an attempt gets its connection: TransportManager                    *)
(* (internal/proxy/upstream.go), which keeps one http.Transport per exit,  *)
(* and the dialer the transport is built with (internal/socks/socks5.go),  *)
(* which connects directly or asks a SOCKS5 or HTTP proxy for a tunnel.    *)
(* An exit is one setting of an outgoing proxy; reloads exchange it while  *)
(* attempts of the routes before are still on their way, connections are   *)
(* being dialled and others wait in the transports to be used again.       *)
(* http.Transport itself is modelled from how the code uses it.            *)
(***************************************************************************)
EXTENDS Integers, FiniteSets, Sequences

CONSTANTS
    Attempts,       \* concurrent attempts
    Conns,          \* bound of the model: connections at a time
    Nodes,          \* upstream nodes, the addresses that are dialled
    Exits,          \* settings of the outgoing proxy, see ExitsAssumption
    Names,          \* lengths of the names a SOCKS5 proxy may answer with
    None

Bar == "|"

(* socks.Config.  Address, user name and password are sequences of pieces: *)
(* a bar, or text without one.                                             *)
ASSUME ExitsAssumption ==
    \A x \in Exits :
       x \in [type : {"", "direct", "socks5", "http"}, addr : Seq(STRING),
              user : Seq(STRING), pass : Seq(STRING), timeout : Nat]

ASSUME NamesAssumption == Names \subseteq 0..255

ASSUME NoneAssumption == None \notin Attempts

(* Config.Empty: no proxy, a direct connection. *)
Empty(x) == x.type \in {"", "direct"} \/ x.addr = <<>>

Key_addr_bug(x) ==             \* two protocols at one address share a transport
    IF Empty(x) THEN <<"direct">>
    ELSE <<Bar>> \o x.addr \o <<Bar>> \o x.user \o <<Bar>> \o x.pass

(* Config.Key: everything but the timeout, joined by bars. *)
Key(x) ==
    IF Empty(x) THEN <<"direct">>
    ELSE <<x.type, Bar>> \o (x.addr \o (<<Bar>> \o (x.user \o (<<Bar>> \o x.pass))))

Keys == {Key(x) : x \in Exits}

VARIABLES
    exit,           \* the setting in force (Engine.cfg)
    cache,          \* cache[k]: the setting transport k was built with, or None
    lame,           \* transports that close what becomes idle (http.Transport.closeIdle)
    at,             \* at[a]: "out", "ready" (route and node chosen), "dialing", "using"
    px,             \* px[a]: the setting of the attempt's route (Backend.Proxy), or None
    node,           \* node[a]: the node it was given, or None
    conn            \* conn[i]: a connection

vars == <<exit, cache, lame, at, px, node, conn>>

(* user:     the attempt it is for, or None                                *)
(* stage:    what is awaited: "connect" the TCP connection, "method",      *)
(*           "auth" and "reply" the answers of a SOCKS5 proxy, "status"    *)
(*           that of an HTTP proxy; or "open", in use, and "idle"          *)
(* via, to:  the setting it is dialled with, and the node                  *)
(* deadline: whether reads and writes are limited in time                  *)
(* unread:   bytes of the proxy's answer that were not taken from the      *)
(*           stream; negative if bytes of the node were taken              *)
(* granted:  whether the proxy has agreed to the tunnel                    *)
Free == [stage |-> "free"]

Handshake == {"method", "auth", "reply", "status"}
Dialing == Handshake \cup {"connect"}

Init ==
    /\ exit \in Exits
    /\ cache = [k \in Keys |-> None]
    /\ lame = {}
    /\ at = [a \in Attempts |-> "out"]
    /\ px = [a \in Attempts |-> None]
    /\ node = [a \in Attempts |-> None]
    /\ conn = [i \in Conns |-> Free]
------------------------------------------------------------------------------
(* A route and its node are chosen; the route brings its setting with it.  *)
Choose(a) ==
    /\ at[a] = "out"
    /\ px' = [px EXCEPT ![a] = exit]
    /\ \E n \in Nodes : node' = [node EXCEPT ![a] = n]
    /\ at' = [at EXCEPT ![a] = "ready"]
    /\ UNCHANGED <<exit, cache, lame, conn>>

Idle(k, n) ==
    {i \in Conns : conn[i].stage = "idle" /\ Key(conn[i].via) = k /\ conn[i].to = n}

(* TransportManager.Get finds or builds the transport; its dialer keeps    *)
(* the setting it was built with.                                          *)
Transport(x) == IF cache[Key(x)] = None THEN x ELSE cache[Key(x)]

(* RoundTrip: the transport gives an idle connection or dials a new one,   *)
(* and from now on keeps connections again.                                *)
Get(a) ==
    LET k == Key(px[a])
    IN  /\ at[a] = "ready"
        /\ cache' = [cache EXCEPT ![k] = Transport(px[a])]
        /\ lame' = lame \ {k}
        /\ \/ \E i \in Idle(k, node[a]) :
                 /\ conn' = [conn EXCEPT ![i].stage = "open", ![i].user = a]
                 /\ at' = [at EXCEPT ![a] = "using"]
           \/ /\ Idle(k, node[a]) = {}
              /\ \E i \in Conns :
                    /\ conn[i] = Free
                    /\ conn' = [conn EXCEPT ![i] =
                          [stage |-> "connect", user |-> a, via |-> Transport(px[a]),
                           to |-> node[a], deadline |-> FALSE, unread |-> 0,
                           granted |-> FALSE]]
              /\ at' = [at EXCEPT ![a] = "dialing"]
        /\ UNCHANGED <<exit, px, node>>
------------------------------------------------------------------------------
Leave(a) ==
    /\ at' = [at EXCEPT ![a] = "out"]
    /\ px' = [px EXCEPT ![a] = None]
    /\ node' = [node EXCEPT ![a] = None]

(* The dialer closes the connection and the attempt gets the error.        *)
Fail(i) ==
    /\ conn' = [conn EXCEPT ![i] = Free]
    /\ IF conn[i].user = None THEN UNCHANGED <<at, px, node>> ELSE Leave(conn[i].user)

(* The dialer returns the connection, which is `c` by now.  If the attempt *)
(* is gone, the transport puts it with the idle ones, or closes it.        *)
HandOver(i, c) ==
    /\ IF c.user # None
       THEN /\ conn' = [conn EXCEPT ![i] = [c EXCEPT !.stage = "open"]]
            /\ at' = [at EXCEPT ![c.user] = "using"]
       ELSE /\ conn' = [conn EXCEPT ![i] =
                   IF Key(c.via) \in lame THEN Free ELSE [c EXCEPT !.stage = "idle"]]
            /\ UNCHANGED at
    /\ UNCHANGED <<px, node>>

(* DialContext without a proxy: there is nothing to negotiate.  With one,  *)
(* the deadline is set before the first word.                              *)
Connected(i) ==
    /\ conn[i].stage = "connect"
    /\ IF Empty(conn[i].via)
       THEN HandOver(i, [conn[i] EXCEPT !.granted = TRUE])
       ELSE /\ conn' = [conn EXCEPT
                   ![i].stage = IF conn[i].via.type = "socks5" THEN "method" ELSE "status",
                   ![i].deadline = TRUE]
            /\ UNCHANGED <<at, px, node>>
    /\ UNCHANGED <<exit, cache, lame>>

(* The connection is refused, or the dialer's time is up.                  *)
ConnectFails(i) ==
    /\ conn[i].stage = "connect"
    /\ Fail(i)
    /\ UNCHANGED <<exit, cache, lame>>

(* The proxy closes, says something the dialer does not understand, or     *)
(* refuses: no method in common, a wrong password, an error code.          *)
Refused(i) ==
    /\ conn[i].stage \in Handshake
    /\ Fail(i)
    /\ UNCHANGED <<exit, cache, lame>>

Expire_bug(i) == FALSE         \* no deadline was set

(* The proxy says nothing, and the deadline passes.                        *)
Expire(i) ==
    /\ conn[i].stage \in Handshake /\ conn[i].deadline
    /\ Fail(i)
    /\ UNCHANGED <<exit, cache, lame>>

(* dialSOCKS5, the method: with or without a password, whatever was        *)
(* offered.                                                                *)
Method(i) ==
    /\ conn[i].stage = "method"
    /\ \E next \in {"auth", "reply"} : conn' = [conn EXCEPT ![i].stage = next]
    /\ UNCHANGED <<exit, cache, lame, at, px, node>>

(* socks5Auth.                                                             *)
Authenticated(i) ==
    /\ conn[i].stage = "auth"
    /\ conn' = [conn EXCEPT ![i].stage = "reply"]
    /\ UNCHANGED <<exit, cache, lame, at, px, node>>

(* The address in a reply: IPv4, IPv6, or a name with its length.  The     *)
(* first four bytes of the reply are read before it.                       *)
Bound == {[atyp |-> 1, len |-> 4], [atyp |-> 4, len |-> 16]}
            \cup {[atyp |-> 3, len |-> n] : n \in Names}

BoundBytes(b) == (IF b.atyp = 3 THEN 1 ELSE 0) + b.len + 2

Skipped_bug(b) == b.len + 2    \* the byte with the name's length is not counted

(* What dialSOCKS5 takes: the length of a name, the address, the port.     *)
Skipped(b) ==
    CASE b.atyp = 1 -> 4 + 2
      [] b.atyp = 4 -> 16 + 2
      [] b.atyp = 3 -> 1 + b.len + 2

(* The SOCKS5 proxy agrees.  The deadline is cleared on the way out.       *)
Granted(i) ==
    /\ conn[i].stage = "reply"
    /\ \E b \in Bound :
          HandOver(i, [conn[i] EXCEPT !.granted = TRUE, !.deadline = FALSE,
                                      !.unread = BoundBytes(b) - Skipped(b)])
    /\ UNCHANGED <<exit, cache, lame>>

Tunnelled_buffer_bug(i) ==     \* br.Buffered is not looked at
    /\ conn[i].stage = "status"
    /\ \E early \in {0, 1} :
          HandOver(i, [conn[i] EXCEPT !.granted = TRUE, !.deadline = FALSE,
                                      !.unread = 0 - early])
    /\ UNCHANGED <<exit, cache, lame>>

(* dialHTTPConnect reads the answer through a buffer, which may take the   *)
(* first bytes of the node with it; then the tunnel is given up.           *)
Tunnelled(i) ==
    /\ conn[i].stage = "status"
    /\ \E early \in {0, 1} :
          IF early > 0
          THEN Fail(i)
          ELSE HandOver(i, [conn[i] EXCEPT !.granted = TRUE, !.deadline = FALSE])
    /\ UNCHANGED <<exit, cache, lame>>
------------------------------------------------------------------------------
(* The client is gone.  RoundTrip returns, the dialing goes on.            *)
Abandon(a) ==
    /\ at[a] = "dialing"
    /\ Leave(a)
    /\ conn' = [i \in Conns |->
                  IF conn[i] # Free /\ conn[i].user = a
                  THEN [conn[i] EXCEPT !.user = None] ELSE conn[i]]
    /\ UNCHANGED <<exit, cache, lame>>

(* The response is over; the connection is kept, or closed: after an       *)
(* error, for a probe or a test (req.Close), or because the transport is   *)
(* lame.                                                                   *)
Finish(a) ==
    /\ at[a] = "using"
    /\ Leave(a)
    /\ \E keep \in BOOLEAN :
          conn' = [i \in Conns |->
              IF conn[i] = Free \/ conn[i].user # a THEN conn[i]
              ELSE IF keep /\ Key(conn[i].via) \notin lame
                   THEN [conn[i] EXCEPT !.stage = "idle", !.user = None] ELSE Free]
    /\ UNCHANGED <<exit, cache, lame>>

IdleEnds_bug(i) == FALSE       \* IdleConnTimeout is not set

(* IdleConnTimeout, or the other side closes.                              *)
IdleEnds(i) ==
    /\ conn[i].stage = "idle"
    /\ conn' = [conn EXCEPT ![i] = Free]
    /\ UNCHANGED <<exit, cache, lame, at, px, node>>

(* Engine.Reload installs the setting of its configuration, the same as    *)
(* before or another, and goes on to HealthChecker.Reset.                  *)
Install ==
    /\ exit' \in Exits
    /\ UNCHANGED <<cache, lame, at, px, node, conn>>

(* Then CloseIdle on every transport.  Any number of goroutines reload, and*)
(* each may be late, or stay in Reset for ever: CloseIdle comes at any time*)
(* after an Install, whatever has been installed since, or not at all.     *)
CloseIdle ==
    /\ lame' = {k \in Keys : cache[k] # None}
    /\ conn' = [i \in Conns |-> IF conn[i].stage = "idle" THEN Free ELSE conn[i]]
    /\ UNCHANGED <<exit, cache, at, px, node>>

Answer(i) ==
    \/ Connected(i) \/ ConnectFails(i) \/ Refused(i)
    \/ Method(i) \/ Authenticated(i) \/ Granted(i) \/ Tunnelled(i)

Next ==
    \/ \E a \in Attempts : Choose(a) \/ Get(a) \/ Abandon(a) \/ Finish(a)
    \/ \E i \in Conns : Answer(i) \/ Expire(i) \/ IdleEnds(i)
    \/ Install \/ CloseIdle

Spec == Init /\ [][Next]_vars

(* Attempts run on and timers fire.  Proxies need not answer, and a        *)
(* response may last for ever.                                             *)
Fairness ==
    /\ \A a \in Attempts : WF_vars(Get(a))
    /\ \A i \in Conns : WF_vars(ConnectFails(i)) /\ WF_vars(Expire(i)) /\ WF_vars(IdleEnds(i))

FairSpec == Spec /\ Fairness
------------------------------------------------------------------------------
(***************************************************************************)
(* What RoundTrip gets is a clean tunnel, fresh from the dialer or used    *)
(* before: the proxy has agreed to it, its answer has been read to the     *)
(* last byte and no byte of the node has been lost with it, and no         *)
(* deadline of the handshake is left to cut a long response.               *)
(***************************************************************************)
CleanTunnel ==
    \A i \in Conns : conn[i].stage \in {"open", "idle"} =>
        conn[i].granted /\ conn[i].unread = 0 /\ ~conn[i].deadline

(* The way a connection leaves by: <<>>, or the proxy and who asks it. *)
Way(x) == IF Empty(x) THEN <<>> ELSE <<x.type, x.addr, x.user, x.pass>>

Pieces(q) == {q[k] : k \in DOMAIN q}

(* A setting whose key can be taken apart again. *)
Plain(x) == Bar \notin Pieces(x.addr) \cup Pieces(x.user) \cup Pieces(x.pass)

(***************************************************************************)
(* Whatever is cached or waits to be used again, an attempt reaches the    *)
(* node it was given, and it leaves by the exit of its route, with its     *)
(* user name and password, reloads in between or not.  The exit needs that *)
(* no field of the route's setting has a bar; those of the settings before *)
(* and after may have some.                                                *)
(***************************************************************************)
RightExit ==
    \A i \in Conns : conn[i].stage = "open" =>
        LET a == conn[i].user
        IN  /\ conn[i].to = node[a]
            /\ Plain(px[a]) => Way(conn[i].via) = Way(px[a])

(***************************************************************************)
(* upstream.go:31, transports are reused "per proxy + TLS + timeout": so   *)
(* an attempt leaves by its route's exit whatever the setting.  It does    *)
(* not hold: user `a|b` with password `c` has the key of user `a` with     *)
(* password `b|c`, and who comes second gets the transport of the first.   *)
(***************************************************************************)
ExitOfRoute ==
    \A i \in Conns : conn[i].stage = "open" =>
        Way(conn[i].via) = Way(px[conn[i].user])

(***************************************************************************)
(* upstream.go:100, "releases idle connections no longer used after a      *)
(* change": when the setting stays as it is, the connections by other      *)
(* exits come to an end, those that were being dialled or in use at the    *)
(* time of the change included, though the proxy they wait for may never   *)
(* answer.  Only responses that go on may keep theirs.                     *)
(***************************************************************************)
OldExitsDrain ==
    \A x \in Exits :
        <>[](exit = x) =>
            <>[](\A i \in Conns : conn[i].stage \in Dialing \cup {"idle"}
                                    => Key(conn[i].via) = Key(x))

(***************************************************************************)
(* socks5.go:31, the timeout of a setting.  It is not part of the key, so  *)
(* a changed timeout has no effect on a transport that exists.             *)
(***************************************************************************)
TimeoutInForce ==
    \A i \in Conns : conn[i].stage \in Dialing /\ conn[i].user # None =>
        conn[i].via.timeout = px[conn[i].user].timeout

(***************************************************************************)
(* The cache keeps what is needed: in the end it holds no transport of an  *)
(* exit that is gone.  Nothing is ever deleted from it.                    *)
(***************************************************************************)
CacheForgets ==
    \A x \in Exits :
        <>[](exit = x) => <>[](\A k \in Keys : cache[k] # None => k = Key(x))
==============================================================================
