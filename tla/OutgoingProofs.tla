--------------------------- MODULE OutgoingProofs ----------------------------
(***************************************************************************)
(* Theorems about Outgoing, for any number of attempts, connections and    *)
(* nodes, and any settings of the outgoing proxy.                          *)
(***************************************************************************)
EXTENDS Outgoing, SequenceTheorems, TLAPS

Connection ==
    [stage : Dialing \cup {"open", "idle"}, user : Attempts \cup {None},
     via : Exits, to : Nodes, deadline : BOOLEAN, unread : Int,
     granted : BOOLEAN]

OutgoingTypeOK ==
    /\ exit \in Exits
    /\ cache \in [Keys -> Exits \cup {None}]
    /\ at \in [Attempts -> {"out", "ready", "dialing", "using"}]
    /\ px \in [Attempts -> Exits \cup {None}]
    /\ node \in [Attempts -> Nodes \cup {None}]
    /\ conn \in [Conns -> Connection \cup {Free}]

(* An attempt that is under way has a setting and a node.                  *)
Chosen ==
    \A a \in Attempts : at[a] # "out" => px[a] \in Exits /\ node[a] \in Nodes

(* Every transport was built with a setting of its own key.                *)
CacheByKey ==
    \A k \in Keys : cache[k] # None => cache[k] \in Exits /\ Key(cache[k]) = k

(* What is known of the stream of a connection, at each stage.             *)
Stream(c) ==
    /\ c.stage \in Dialing => c.unread = 0
    /\ c.stage = "connect" => ~c.deadline
    /\ c.stage \in {"open", "idle"} => c.granted /\ c.unread = 0 /\ ~c.deadline

Streams == \A i \in Conns : conn[i].stage # "free" => Stream(conn[i])

(* A connection is somebody's from the first packet to the last, unless    *)
(* the client leaves; it waits for nobody when it is idle.                 *)
Held ==
    \A i \in Conns :
        /\ conn[i].stage = "idle" => conn[i].user = None
        /\ conn[i].stage = "open" => conn[i].user # None
        /\ conn[i].stage # "free" /\ conn[i].user # None =>
              /\ at[conn[i].user] = IF conn[i].stage = "open" THEN "using" ELSE "dialing"
              /\ conn[i].to = node[conn[i].user]
              /\ Key(conn[i].via) = Key(px[conn[i].user])

(* An attempt has one connection.                                          *)
OneEach ==
    \A i, j \in Conns :
        /\ conn[i].stage # "free" /\ conn[j].stage # "free"
        /\ conn[i].user # None /\ conn[i].user = conn[j].user
        => i = j

OutgoingInv ==
    /\ OutgoingTypeOK /\ Chosen /\ CacheByKey
    /\ Streams /\ Held /\ OneEach

------------------------------------------------------------------------------
(* A connection that is not free has all the fields of one.                *)
LEMMA InUse ==
    ASSUME OutgoingTypeOK, NEW i \in Conns
    PROVE  /\ conn[i] = Free => conn[i].stage = "free"
           /\ conn[i].stage # "free" => conn[i] \in Connection /\ conn[i] # Free
           /\ conn[i] # Free => conn[i] \in Connection /\ conn[i].stage # "free"
<1>1. conn[i] \in Connection \cup {Free}
  BY DEF OutgoingTypeOK
<1>2. conn[i] \in Connection => conn[i].stage # "free"
  BY DEF Connection, Dialing, Handshake
<1>3. Free.stage = "free"
  BY DEF Free
<1> QED
  BY <1>1, <1>2, <1>3

LEMMA Staged ==
    ASSUME NEW c \in Connection, NEW s \in Dialing \cup {"open", "idle"}
    PROVE  /\ [c EXCEPT !.stage = s] \in Connection
           /\ [c EXCEPT !.stage = s].stage = s
           /\ [c EXCEPT !.stage = s].user = c.user
           /\ [c EXCEPT !.stage = s].via = c.via
           /\ [c EXCEPT !.stage = s].to = c.to
           /\ [c EXCEPT !.stage = s].deadline = c.deadline
           /\ [c EXCEPT !.stage = s].unread = c.unread
           /\ [c EXCEPT !.stage = s].granted = c.granted
  BY DEF Connection

(***************************************************************************)
(* A step of the dialing changes one connection and nobody else's.         *)
(***************************************************************************)
LEMMA StageInv ==
    ASSUME OutgoingInv, NEW i \in Conns, NEW c \in Connection,
           conn[i].stage \in Dialing, c.stage \in Dialing,
           c.user = conn[i].user, c.via = conn[i].via, c.to = conn[i].to,
           Stream(c), conn' = [conn EXCEPT ![i] = c],
           UNCHANGED <<exit, cache, at, px, node>>
    PROVE  OutgoingInv'
<1> USE DEF OutgoingInv
<1>1. OutgoingTypeOK'
  BY DEF OutgoingTypeOK
<1>2. Chosen' /\ CacheByKey'
  BY DEF Chosen, CacheByKey
<1>3. \A j \in Conns : conn'[j] = IF j = i THEN c ELSE conn[j]
  BY DEF OutgoingTypeOK
<1>4. conn[i].stage \notin {"free", "open", "idle"} /\ c.stage \notin {"free", "open", "idle"}
  BY DEF Dialing, Handshake
<1>5. Streams'
  BY <1>3 DEF Streams, Stream
<1>6. Held'
  BY <1>3, <1>4 DEF Held
<1>7. OneEach'
  BY <1>3, <1>4 DEF OneEach
<1> QED
  BY <1>1, <1>2, <1>5, <1>6, <1>7

(***************************************************************************)
(* A connection that is given up takes its attempt with it; the others are *)
(* not the attempt's.                                                      *)
(***************************************************************************)
LEMMA FailInv ==
    ASSUME OutgoingInv, NEW i \in Conns, conn[i].stage \in Dialing, Fail(i),
           UNCHANGED <<exit, cache>>
    PROVE  OutgoingInv'
<1> USE DEF OutgoingInv
<1> DEFINE u == conn[i].user
<1>1. conn[i].stage # "free" /\ conn[i] \in Connection /\ u \in Attempts \cup {None}
  BY InUse DEF Dialing, Handshake, Connection
<1>2. \A j \in Conns : conn'[j] = IF j = i THEN Free ELSE conn[j]
  BY DEF Fail, OutgoingTypeOK
<1>3. Free.stage = "free"
  BY DEF Free
<1>4. OutgoingTypeOK'
  BY <1>1 DEF OutgoingTypeOK, Fail, Leave
<1>5. CacheByKey'
  BY DEF CacheByKey
<1>6. Chosen'
  BY <1>1 DEF Chosen, OutgoingTypeOK, Fail, Leave
<1>7. Streams'
  BY <1>2, <1>3 DEF Streams, Stream
<1>8. OneEach'
  BY <1>2, <1>3 DEF OneEach
<1>9. ASSUME NEW j \in Conns, j # i, conn[j].stage # "free", conn[j].user # None
      PROVE  /\ at'[conn[j].user] = at[conn[j].user]
             /\ px'[conn[j].user] = px[conn[j].user]
             /\ node'[conn[j].user] = node[conn[j].user]
  <2>1. conn[j].user \in Attempts
    BY <1>9, InUse DEF Connection
  <2>2. conn[j].user # u
    BY <1>1, <1>9 DEF OneEach
  <2> QED
    BY <1>1, <2>1, <2>2 DEF OutgoingTypeOK, Fail, Leave
<1>10. Held'
  BY <1>2, <1>3, <1>9 DEF Held
<1> QED
  BY <1>4, <1>5, <1>6, <1>7, <1>8, <1>10

(***************************************************************************)
(* What the dialer returns is clean, and goes to the attempt it was dialled*)
(* for or to the idle ones.                                                *)
(***************************************************************************)
LEMMA HandOverInv ==
    ASSUME OutgoingInv, NEW i \in Conns, NEW c \in Connection,
           conn[i].stage \in Dialing,
           c.user = conn[i].user, c.via = conn[i].via, c.to = conn[i].to,
           c.granted, c.unread = 0, ~c.deadline,
           HandOver(i, c), UNCHANGED <<exit, cache>>
    PROVE  OutgoingInv'
<1> USE DEF OutgoingInv
<1> DEFINE open == [c EXCEPT !.stage = "open"]
           idle == [c EXCEPT !.stage = "idle"]
<1>1. conn[i].stage \notin {"free", "open", "idle"}
  BY DEF Dialing, Handshake
<1>2. Free.stage = "free" /\ Free \notin Connection
  BY DEF Free, Connection, Dialing, Handshake
<1>3. open \in Connection /\ idle \in Connection
  BY Staged
<1>4. /\ open.stage = "open" /\ open.user = c.user /\ open.via = c.via /\ open.to = c.to
      /\ Stream(open)
  BY Staged DEF Stream, Dialing, Handshake
<1>5. /\ idle.stage = "idle" /\ idle.user = c.user /\ idle.via = c.via /\ idle.to = c.to
      /\ Stream(idle)
  BY Staged DEF Stream, Dialing, Handshake
<1>6. px' = px /\ node' = node
  BY DEF HandOver
<1> HIDE DEF open, idle
<1>7. CASE c.user # None
  <2>1. c.user \in Attempts
    BY <1>7 DEF Connection
  <2>2. conn' = [conn EXCEPT ![i] = open] /\ at' = [at EXCEPT ![c.user] = "using"]
    BY <1>7 DEF HandOver, open
  <2>3. \A j \in Conns : conn'[j] = IF j = i THEN open ELSE conn[j]
    BY <2>2 DEF OutgoingTypeOK
  <2>4. OutgoingTypeOK'
    BY <1>3, <1>6, <2>1, <2>2 DEF OutgoingTypeOK
  <2>5. at[c.user] = "dialing"
    BY <1>1, <1>7 DEF Held
  <2>6. Chosen' /\ CacheByKey'
    BY <1>6, <2>1, <2>2, <2>5 DEF Chosen, CacheByKey, OutgoingTypeOK
  <2>7. Streams'
    BY <1>4, <2>3 DEF Streams, Stream
  <2>8. OneEach'
    BY <1>1, <1>4, <2>3 DEF OneEach
  <2>9. ASSUME NEW j \in Conns, j # i, conn[j].stage # "free", conn[j].user # None
        PROVE  at'[conn[j].user] = at[conn[j].user]
    <3>1. conn[j].user # c.user
      BY <1>1, <1>7, <2>9 DEF OneEach
    <3>2. conn[j].user \in Attempts
      BY <2>9, InUse DEF Connection
    <3> QED
      BY <2>1, <2>2, <3>1, <3>2 DEF OutgoingTypeOK
  <2>10. at'[c.user] = "using"
    BY <2>1, <2>2 DEF OutgoingTypeOK
  <2>11. Held'
    BY <1>1, <1>4, <1>6, <1>7, <2>3, <2>9, <2>10 DEF Held
  <2> QED
    BY <2>4, <2>6, <2>7, <2>8, <2>11
<1>8. CASE c.user = None
  <2>1. PICK d \in {Free, idle} : conn' = [conn EXCEPT ![i] = d]
    BY <1>8 DEF HandOver, idle
  <2>2. at' = at
    BY <1>8 DEF HandOver
  <2>3. \A j \in Conns : conn'[j] = IF j = i THEN d ELSE conn[j]
    BY <2>1 DEF OutgoingTypeOK
  <2>4. OutgoingTypeOK'
    BY <1>3, <1>6, <2>1, <2>2 DEF OutgoingTypeOK
  <2>5. Chosen' /\ CacheByKey'
    BY <1>6, <2>2 DEF Chosen, CacheByKey
  <2>6. Streams'
    BY <1>2, <1>5, <2>1, <2>3 DEF Streams, Stream
  <2>7. OneEach'
    BY <1>1, <1>2, <1>5, <1>8, <2>1, <2>3 DEF OneEach
  <2>8. Held'
    BY <1>1, <1>2, <1>5, <1>6, <1>8, <2>1, <2>2, <2>3 DEF Held
  <2> QED
    BY <2>4, <2>5, <2>6, <2>7, <2>8
<1> QED
  BY <1>7, <1>8

(***************************************************************************)
(* One lemma per action.                                                   *)
(***************************************************************************)
LEMMA ChooseInv ==
    ASSUME OutgoingInv, NEW a \in Attempts, Choose(a)
    PROVE  OutgoingInv'
<1> USE DEF OutgoingInv
<1>1. OutgoingTypeOK'
  BY DEF OutgoingTypeOK, Choose
<1>2. Chosen' /\ CacheByKey' /\ Streams' /\ OneEach'
  BY DEF Chosen, CacheByKey, Streams, Stream, OneEach, OutgoingTypeOK, Choose
<1>3. ASSUME NEW j \in Conns, conn[j].stage # "free", conn[j].user # None
      PROVE  conn[j].user \in Attempts \ {a}
  BY <1>3, InUse DEF Connection, Held, Choose
<1>4. Held'
  BY <1>3 DEF Held, OutgoingTypeOK, Choose
<1> QED
  BY <1>1, <1>2, <1>4

(* The transport of an attempt: its setting has the key of the route's.    *)
LEMMA TransportKey ==
    ASSUME CacheByKey, NEW x \in Exits
    PROVE  Key(x) \in Keys /\ Transport(x) \in Exits /\ Key(Transport(x)) = Key(x)
  BY DEF CacheByKey, Keys, Transport

LEMMA GetInv ==
    ASSUME OutgoingInv, NEW a \in Attempts, Get(a)
    PROVE  OutgoingInv'
<1> USE DEF OutgoingInv
<1> DEFINE t == Transport(px[a])
           k == Key(px[a])
<1>1. px[a] \in Exits /\ node[a] \in Nodes
  BY DEF Get, Chosen
<1>2. k \in Keys /\ t \in Exits /\ Key(t) = k
  BY <1>1, TransportKey
<1>3. cache' = [cache EXCEPT ![k] = t] /\ UNCHANGED <<exit, px, node>>
  BY DEF Get
<1>4. CacheByKey' /\ cache' \in [Keys -> Exits \cup {None}]
  <2> HIDE DEF t, k
  <2> QED
    BY <1>2, <1>3 DEF CacheByKey, OutgoingTypeOK
<1>5. ASSUME NEW j \in Conns, conn[j].stage # "free", conn[j].user # None
      PROVE  conn[j].user \in Attempts \ {a}
  BY <1>5, InUse DEF Connection, Held, Get
<1>6. a # None
  BY NoneAssumption
<1>7. ASSUME NEW i \in Idle(k, node[a]),
             conn' = [conn EXCEPT ![i].stage = "open", ![i].user = a],
             at' = [at EXCEPT ![a] = "using"]
      PROVE  OutgoingInv'
  <2> DEFINE c == [conn[i] EXCEPT !.stage = "open", !.user = a]
  <2>1. i \in Conns /\ conn[i].stage = "idle" /\ Key(conn[i].via) = k /\ conn[i].to = node[a]
    BY <1>7 DEF Idle
  <2>2. conn[i] \in Connection
    BY <2>1, InUse
  <2>3. c \in Connection /\ c.stage = "open" /\ c.user = a /\ c.via = conn[i].via
        /\ c.to = conn[i].to /\ c.granted = conn[i].granted
        /\ c.unread = conn[i].unread /\ c.deadline = conn[i].deadline
    BY <2>2 DEF Connection
  <2>4. conn' = [conn EXCEPT ![i] = c]
    BY <1>7
  <2>5. Stream(c)
    BY <2>1, <2>3 DEF Streams, Stream, Dialing, Handshake
  <2> HIDE DEF c, k, t
  <2>6. \A j \in Conns : conn'[j] = IF j = i THEN c ELSE conn[j]
    BY <2>1, <2>4 DEF OutgoingTypeOK
  <2>7. OutgoingTypeOK'
    BY <1>3, <1>4, <1>7, <2>3, <2>4 DEF OutgoingTypeOK
  <2>8. Chosen'
    BY <1>1, <1>3, <1>7 DEF Chosen, OutgoingTypeOK
  <2>9. Streams'
    BY <2>5, <2>6 DEF Streams, Stream
  <2>10. OneEach'
    BY <1>5, <2>3, <2>6 DEF OneEach
  <2>11. at'[a] = "using" /\ \A b \in Attempts : b # a => at'[b] = at[b]
    BY <1>7 DEF OutgoingTypeOK
  <2>12. Held'
    BY <1>3, <1>5, <1>6, <2>1, <2>3, <2>6, <2>11 DEF Held, k
  <2> QED
    BY <1>4, <2>7, <2>8, <2>9, <2>10, <2>12
<1>8. ASSUME NEW i \in Conns, conn[i] = Free,
             conn' = [conn EXCEPT ![i] =
                          [stage |-> "connect", user |-> a, via |-> t,
                           to |-> node[a], deadline |-> FALSE, unread |-> 0,
                           granted |-> FALSE]],
             at' = [at EXCEPT ![a] = "dialing"]
      PROVE  OutgoingInv'
  <2> DEFINE c == [stage |-> "connect", user |-> a, via |-> t,
                   to |-> node[a], deadline |-> FALSE, unread |-> 0,
                   granted |-> FALSE]
  <2>1. c \in Connection
    BY <1>1, <1>2 DEF Connection, Dialing, Handshake
  <2>2. c.stage = "connect" /\ c.user = a /\ c.via = t /\ c.to = node[a]
    OBVIOUS
  <2>3. Stream(c)
    BY DEF Stream, Dialing, Handshake
  <2>4. conn' = [conn EXCEPT ![i] = c]
    BY <1>8
  <2> HIDE DEF c, k, t
  <2>5. \A j \in Conns : conn'[j] = IF j = i THEN c ELSE conn[j]
    BY <2>4 DEF OutgoingTypeOK
  <2>6. OutgoingTypeOK'
    BY <1>3, <1>4, <1>8, <2>1, <2>4 DEF OutgoingTypeOK
  <2>7. Chosen'
    BY <1>1, <1>3, <1>8 DEF Chosen, OutgoingTypeOK
  <2>8. Streams'
    BY <2>3, <2>5 DEF Streams, Stream
  <2>9. OneEach'
    BY <1>5, <2>2, <2>5 DEF OneEach
  <2>10. at'[a] = "dialing" /\ \A b \in Attempts : b # a => at'[b] = at[b]
    BY <1>8 DEF OutgoingTypeOK
  <2>11. Held'
    BY <1>2, <1>3, <1>5, <1>6, <2>2, <2>5, <2>10 DEF Held, k
  <2> QED
    BY <1>4, <2>6, <2>7, <2>8, <2>9, <2>11
<1> QED
  BY <1>7, <1>8 DEF Get

LEMMA ConnectedInv ==
    ASSUME OutgoingInv, NEW i \in Conns, Connected(i)
    PROVE  OutgoingInv'
<1> USE DEF OutgoingInv
<1>1. conn[i].stage = "connect" /\ conn[i].stage \in Dialing
  BY DEF Connected, Dialing
<1>2. conn[i] \in Connection /\ conn[i].unread = 0 /\ ~conn[i].deadline
  BY <1>1, InUse DEF Streams, Stream
<1>3. UNCHANGED <<exit, cache>>
  BY DEF Connected
<1>4. CASE Empty(conn[i].via)
  <2> DEFINE c == [conn[i] EXCEPT !.granted = TRUE]
  <2>1. /\ c \in Connection /\ c.user = conn[i].user /\ c.via = conn[i].via
        /\ c.to = conn[i].to /\ c.granted /\ c.unread = 0 /\ ~c.deadline
    BY <1>2 DEF Connection
  <2>2. HandOver(i, c)
    BY <1>4 DEF Connected
  <2> HIDE DEF c
  <2> QED
    BY <1>1, <1>3, <2>1, <2>2, HandOverInv
<1>5. CASE ~Empty(conn[i].via)
  <2> DEFINE s == IF conn[i].via.type = "socks5" THEN "method" ELSE "status"
             c == [conn[i] EXCEPT !.stage = s, !.deadline = TRUE]
  <2>1. s \in Dialing /\ s # "connect"
    BY DEF Dialing, Handshake
  <2>2. /\ c \in Connection /\ c.stage = s /\ c.user = conn[i].user
        /\ c.via = conn[i].via /\ c.to = conn[i].to /\ c.unread = 0
    BY <1>2, <2>1 DEF Connection
  <2>3. Stream(c)
    BY <2>1, <2>2 DEF Stream, Dialing, Handshake
  <2>4. conn' = [conn EXCEPT ![i] = c] /\ UNCHANGED <<at, px, node>>
    BY <1>5 DEF Connected
  <2> HIDE DEF c, s
  <2> QED
    BY <1>1, <1>3, <2>1, <2>2, <2>3, <2>4, StageInv
<1> QED
  BY <1>4, <1>5

LEMMA GiveUpInv ==
    ASSUME OutgoingInv, NEW i \in Conns,
           ConnectFails(i) \/ Refused(i) \/ Expire(i)
    PROVE  OutgoingInv'
  BY FailInv DEF ConnectFails, Refused, Expire, Dialing

LEMMA NegotiateInv ==
    ASSUME OutgoingInv, NEW i \in Conns, Method(i) \/ Authenticated(i)
    PROVE  OutgoingInv'
<1> USE DEF OutgoingInv
<1>1. /\ conn[i].stage \in Handshake
      /\ UNCHANGED <<exit, cache, at, px, node>>
  BY DEF Method, Authenticated, Handshake
<1>2. PICK s \in {"auth", "reply"} : conn' = [conn EXCEPT ![i] = [conn[i] EXCEPT !.stage = s]]
  BY DEF Method, Authenticated
<1>3. conn[i] \in Connection /\ conn[i].stage \in Dialing /\ conn[i].unread = 0
  BY <1>1, InUse DEF Streams, Stream, Dialing, Handshake
<1> DEFINE c == [conn[i] EXCEPT !.stage = s]
<1>4. /\ c \in Connection /\ c.stage = s /\ c.user = conn[i].user
      /\ c.via = conn[i].via /\ c.to = conn[i].to /\ c.unread = 0
  BY <1>3, Staged DEF Dialing, Handshake
<1>5. s \in Dialing /\ s \notin {"connect", "open", "idle"}
  BY DEF Dialing, Handshake
<1>6. Stream(c)
  BY <1>4, <1>5 DEF Stream
<1>7. conn' = [conn EXCEPT ![i] = c]
  BY <1>2
<1> HIDE DEF c
<1> QED
  BY <1>1, <1>3, <1>4, <1>5, <1>6, <1>7, StageInv

(***************************************************************************)
(* The dialer takes the answer of a SOCKS5 proxy to the last byte, and no  *)
(* byte more, whatever address the proxy says it is bound to.              *)
(***************************************************************************)
LEMMA ReplyTaken == ASSUME NEW b \in Bound PROVE BoundBytes(b) - Skipped(b) = 0
<1>1. CASE b = [atyp |-> 1, len |-> 4]
  BY <1>1 DEF BoundBytes, Skipped
<1>2. CASE b = [atyp |-> 4, len |-> 16]
  BY <1>2 DEF BoundBytes, Skipped
<1>3. ASSUME NEW n \in Names, b = [atyp |-> 3, len |-> n]
      PROVE  BoundBytes(b) - Skipped(b) = 0
  BY <1>3, NamesAssumption DEF BoundBytes, Skipped
<1> QED
  BY <1>1, <1>2, <1>3 DEF Bound

LEMMA GrantedInv ==
    ASSUME OutgoingInv, NEW i \in Conns, Granted(i)
    PROVE  OutgoingInv'
<1>1. conn[i].stage \in Dialing /\ UNCHANGED <<exit, cache>>
  BY DEF Granted, Dialing, Handshake
<1>2. conn[i] \in Connection
  BY <1>1, InUse DEF OutgoingInv, Dialing, Handshake
<1>3. PICK b \in Bound :
          HandOver(i, [conn[i] EXCEPT !.granted = TRUE, !.deadline = FALSE,
                                      !.unread = BoundBytes(b) - Skipped(b)])
  BY DEF Granted
<1> DEFINE c == [conn[i] EXCEPT !.granted = TRUE, !.deadline = FALSE, !.unread = 0]
<1>4. HandOver(i, c)
  BY <1>3, ReplyTaken
<1>5. c \in Connection
  <2> DEFINE d == [conn[i] EXCEPT !.granted = TRUE, !.deadline = FALSE]
  <2>1. d \in Connection
    BY <1>2 DEF Connection
  <2>2. c = [d EXCEPT !.unread = 0]
    BY <1>2 DEF Connection
  <2> HIDE DEF d, c
  <2>3. [d EXCEPT !.unread = 0] \in Connection
    BY <2>1 DEF Connection
  <2> QED
    BY <2>2, <2>3
<1>6. c.user = conn[i].user /\ c.via = conn[i].via /\ c.to = conn[i].to
  BY <1>2 DEF Connection
<1>7. c.granted /\ c.unread = 0 /\ ~c.deadline
  BY <1>2 DEF Connection
<1> HIDE DEF c
<1> QED
  BY <1>1, <1>4, <1>5, <1>6, <1>7, HandOverInv

LEMMA TunnelledInv ==
    ASSUME OutgoingInv, NEW i \in Conns, Tunnelled(i)
    PROVE  OutgoingInv'
<1>1. conn[i].stage \in Dialing /\ UNCHANGED <<exit, cache>>
  BY DEF Tunnelled, Dialing, Handshake
<1>2. conn[i] \in Connection /\ conn[i].unread = 0
  BY <1>1, InUse DEF OutgoingInv, Dialing, Handshake, Streams, Stream
<1> DEFINE c == [conn[i] EXCEPT !.granted = TRUE, !.deadline = FALSE]
<1>3. Fail(i) \/ HandOver(i, c)
  BY DEF Tunnelled
<1>4. /\ c \in Connection /\ c.user = conn[i].user /\ c.via = conn[i].via
      /\ c.to = conn[i].to /\ c.granted /\ c.unread = 0 /\ ~c.deadline
  BY <1>2 DEF Connection
<1> HIDE DEF c
<1> QED
  BY <1>1, <1>3, <1>4, FailInv, HandOverInv

LEMMA AbandonInv ==
    ASSUME OutgoingInv, NEW a \in Attempts, Abandon(a)
    PROVE  OutgoingInv'
<1> USE DEF OutgoingInv
<1>1. at[a] = "dialing" /\ Leave(a) /\ UNCHANGED <<exit, cache>>
  BY DEF Abandon
<1>2. a # None
  BY NoneAssumption
<1>4. ASSUME NEW j \in Conns, conn[j].stage = "free" PROVE conn'[j] = conn[j]
  BY <1>4, InUse DEF Abandon
<1>5. ASSUME NEW j \in Conns, conn[j].stage # "free", conn[j].user # a
      PROVE  conn'[j] = conn[j]
  BY <1>5, InUse DEF Abandon
<1>6. ASSUME NEW j \in Conns, conn[j].stage # "free", conn[j].user = a
      PROVE  /\ conn'[j] \in Connection /\ conn'[j].stage = conn[j].stage
             /\ conn'[j].user = None /\ Stream(conn'[j]) /\ conn[j].stage \in Dialing
  <2> DEFINE c == [conn[j] EXCEPT !.user = None]
  <2>1. conn[j] \in Connection /\ conn[j] # Free
    BY <1>6, InUse
  <2>2. conn'[j] = c
    BY <1>6, <2>1 DEF Abandon
  <2>3. /\ c \in Connection /\ c.stage = conn[j].stage /\ c.user = None
        /\ c.unread = conn[j].unread /\ c.deadline = conn[j].deadline
        /\ c.granted = conn[j].granted
    BY <2>1 DEF Connection
  <2>4. Stream(conn[j])
    BY <1>6 DEF Streams
  <2>5. conn[j].stage \in Dialing
    <3>1. conn[j].stage \in Dialing \cup {"open", "idle"}
      BY <2>1 DEF Connection
    <3>2. conn[j].stage \notin {"open", "idle"}
      BY <1>1, <1>2, <1>6 DEF Held
    <3> QED
      BY <3>1, <3>2
  <2> HIDE DEF c
  <2>6. Stream(c)
    BY <2>3, <2>4 DEF Stream
  <2> QED
    BY <2>2, <2>3, <2>5, <2>6
<1>7. OutgoingTypeOK'
  <2>1. conn' \in [Conns -> Connection \cup {Free}]
    <3>1. \A j \in Conns : conn'[j] \in Connection \cup {Free}
      BY <1>4, <1>5, <1>6 DEF OutgoingTypeOK
    <3> QED
      BY <3>1 DEF Abandon
  <2> QED
    BY <1>1, <2>1 DEF OutgoingTypeOK, Leave
<1>8. Chosen' /\ CacheByKey'
  BY <1>1 DEF Chosen, CacheByKey, OutgoingTypeOK, Leave
<1>9. Streams'
  BY <1>4, <1>5, <1>6 DEF Streams, Stream
<1>10. OneEach'
  BY <1>4, <1>5, <1>6 DEF OneEach
<1>11. \A b \in Attempts \ {a} : at'[b] = at[b] /\ px'[b] = px[b] /\ node'[b] = node[b]
  BY <1>1 DEF OutgoingTypeOK, Leave
<1>12. ASSUME NEW j \in Conns, conn[j].stage # "free", conn[j].user # None
       PROVE  conn[j].user \in Attempts
  BY <1>12, InUse DEF Connection
<1>13. Held'
  BY <1>4, <1>5, <1>6, <1>11, <1>12 DEF Held, Dialing, Handshake
<1> QED
  BY <1>7, <1>8, <1>9, <1>10, <1>13

LEMMA FinishInv ==
    ASSUME OutgoingInv, NEW a \in Attempts, Finish(a)
    PROVE  OutgoingInv'
<1> USE DEF OutgoingInv
<1>1. at[a] = "using" /\ Leave(a) /\ UNCHANGED <<exit, cache>>
  BY DEF Finish
<1>2. a # None
  BY NoneAssumption
<1>3. PICK keep \in BOOLEAN :
          conn' = [i \in Conns |->
              IF conn[i] = Free \/ conn[i].user # a THEN conn[i]
              ELSE IF keep /\ Key(conn[i].via) \notin lame
                   THEN [conn[i] EXCEPT !.stage = "idle", !.user = None] ELSE Free]
  BY Zenon DEF Finish
<1>4. ASSUME NEW j \in Conns, conn[j].stage # "free", conn[j].user = a
      PROVE  LET c == [conn[j] EXCEPT !.stage = "idle", !.user = None]
             IN  /\ conn'[j] \in {Free, c}
                 /\ c \in Connection /\ c.stage = "idle" /\ c.user = None /\ Stream(c)
  <2> DEFINE c == [conn[j] EXCEPT !.stage = "idle", !.user = None]
  <2>1. conn[j] \in Connection /\ conn[j] # Free
    BY <1>4, InUse
  <2>2. conn'[j] \in {Free, c}
    BY <1>3, <1>4, <2>1
  <2>3. /\ c \in Connection /\ c.stage = "idle" /\ c.user = None
        /\ c.unread = conn[j].unread /\ c.deadline = conn[j].deadline
        /\ c.granted = conn[j].granted
    BY <2>1 DEF Connection
  <2>4. Stream(conn[j]) /\ conn[j].stage = "open"
    BY <1>1, <1>2, <1>4 DEF Streams, Held
  <2> HIDE DEF c
  <2>5. Stream(c)
    BY <2>3, <2>4 DEF Stream, Dialing, Handshake
  <2> QED
    BY <2>2, <2>3, <2>5 DEF c
<1>5. ASSUME NEW j \in Conns, conn[j].stage = "free" \/ conn[j].user # a
      PROVE  conn'[j] = conn[j]
  BY <1>3, <1>5, InUse
<1>6. Free.stage = "free"
  BY DEF Free
<1>7. ASSUME NEW j \in Conns, conn[j].stage # "free", conn[j].user = a
      PROVE  \/ conn'[j] = Free
             \/ /\ conn'[j] \in Connection /\ conn'[j].stage = "idle"
                /\ conn'[j].user = None /\ Stream(conn'[j])
  BY <1>4, <1>7
<1>8. OutgoingTypeOK'
  <2>1. conn' \in [Conns -> Connection \cup {Free}]
    <3>1. \A j \in Conns : conn'[j] \in Connection \cup {Free}
      BY <1>5, <1>7 DEF OutgoingTypeOK
    <3> QED
      BY <1>3, <3>1
  <2> QED
    BY <1>1, <2>1 DEF OutgoingTypeOK, Leave
<1>9. Chosen' /\ CacheByKey'
  BY <1>1 DEF Chosen, CacheByKey, OutgoingTypeOK, Leave
<1>10. Streams'
  BY <1>5, <1>6, <1>7 DEF Streams, Stream
<1>11. OneEach'
  BY <1>5, <1>6, <1>7 DEF OneEach
<1>12. \A b \in Attempts \ {a} : at'[b] = at[b] /\ px'[b] = px[b] /\ node'[b] = node[b]
  BY <1>1 DEF OutgoingTypeOK, Leave
<1>13. ASSUME NEW j \in Conns, conn[j].stage # "free", conn[j].user # None
       PROVE  conn[j].user \in Attempts
  BY <1>13, InUse DEF Connection
<1>14. Held'
  BY <1>5, <1>6, <1>7, <1>12, <1>13 DEF Held
<1> QED
  BY <1>8, <1>9, <1>10, <1>11, <1>14

(* Closing idle connections takes nothing from an attempt.                 *)
LEMMA ClosedInv ==
    ASSUME OutgoingInv,
           conn' \in [Conns -> Connection \cup {Free}],
           \A j \in Conns : conn'[j] = conn[j] \/ (conn'[j] = Free /\ conn[j].stage = "idle"),
           exit' \in Exits, UNCHANGED <<cache, at, px, node>>
    PROVE  OutgoingInv'
<1> USE DEF OutgoingInv
<1>1. Free.stage = "free"
  BY DEF Free
<1>2. OutgoingTypeOK' /\ Chosen' /\ CacheByKey'
  BY DEF OutgoingTypeOK, Chosen, CacheByKey
<1>3. Streams'
  BY <1>1 DEF Streams, Stream
<1>4. Held'
  BY <1>1 DEF Held
<1>5. OneEach'
  BY <1>1 DEF OneEach
<1> QED
  BY <1>2, <1>3, <1>4, <1>5

LEMMA ReloadInv ==
    ASSUME OutgoingInv, Install \/ CloseIdle
    PROVE  OutgoingInv'
<1>1. conn \in [Conns -> Connection \cup {Free}] /\ exit \in Exits
  BY DEF OutgoingInv, OutgoingTypeOK
<1>2. exit' \in Exits /\ UNCHANGED <<cache, at, px, node>>
  BY <1>1 DEF Install, CloseIdle
<1>3. CASE Install
  <2>1. conn' = conn
    BY <1>3 DEF Install
  <2> QED
    BY <1>1, <1>2, <2>1, ClosedInv
<1>4. CASE CloseIdle
  <2>1. conn' = [j \in Conns |-> IF conn[j].stage = "idle" THEN Free ELSE conn[j]]
    BY <1>4 DEF CloseIdle
  <2>2. conn' \in [Conns -> Connection \cup {Free}]
    BY <1>1, <2>1
  <2>3. \A j \in Conns : conn'[j] = conn[j] \/ (conn'[j] = Free /\ conn[j].stage = "idle")
    BY <2>1
  <2> QED
    BY <1>2, <2>2, <2>3, ClosedInv
<1> QED
  BY <1>3, <1>4

LEMMA IdleEndsInv ==
    ASSUME OutgoingInv, NEW i \in Conns, IdleEnds(i)
    PROVE  OutgoingInv'
<1>1. conn \in [Conns -> Connection \cup {Free}] /\ exit \in Exits
  BY DEF OutgoingInv, OutgoingTypeOK
<1>2. exit' \in Exits /\ UNCHANGED <<cache, at, px, node>>
  BY <1>1 DEF IdleEnds
<1>3. conn[i].stage = "idle" /\ conn' = [conn EXCEPT ![i] = Free]
  BY DEF IdleEnds
<1>4. conn' \in [Conns -> Connection \cup {Free}]
  BY <1>1, <1>3
<1>5. \A j \in Conns : conn'[j] = conn[j] \/ (conn'[j] = Free /\ conn[j].stage = "idle")
  BY <1>1, <1>3
<1> QED
  BY <1>2, <1>4, <1>5, ClosedInv

LEMMA OutgoingStep ==
    ASSUME OutgoingInv, [Next]_vars
    PROVE  OutgoingInv'
<1>1. CASE UNCHANGED vars
  BY <1>1
  DEF vars, OutgoingInv, OutgoingTypeOK, Chosen, CacheByKey, Streams, Stream,
      Held, OneEach
<1>2. CASE Next
  BY <1>2, ChooseInv, GetInv, AbandonInv, FinishInv, ConnectedInv, GiveUpInv,
     NegotiateInv, GrantedInv, TunnelledInv, ReloadInv, IdleEndsInv
  DEF Next, Answer
<1> QED
  BY <1>1, <1>2

LEMMA OutgoingSpec == Spec => []OutgoingInv
<1>1. ASSUME Init PROVE OutgoingInv
  <2>1. OutgoingTypeOK
    BY <1>1 DEF Init, OutgoingTypeOK
  <2>2. Free.stage = "free" /\ \A i \in Conns : conn[i] = Free
    BY <1>1 DEF Init, Free
  <2>3. Chosen /\ CacheByKey /\ Streams /\ Held /\ OneEach
    BY <1>1, <2>2 DEF Init, Chosen, CacheByKey, Streams, Held, OneEach
  <2> QED
    BY <2>1, <2>3 DEF OutgoingInv
<1> QED
  BY <1>1, OutgoingStep, PTL DEF Spec

(***************************************************************************)
(* What RoundTrip gets is a clean tunnel, for any number of attempts and   *)
(* connections and any answers of the proxies: granted, read to the last   *)
(* byte and not beyond, with no deadline left on it (socks5.go DialContext,*)
(* dialSOCKS5, dialHTTPConnect).                                           *)
(***************************************************************************)
THEOREM OutgoingCleanTunnel == Spec => []CleanTunnel
<1>1. OutgoingInv => CleanTunnel
  BY DEF OutgoingInv, Streams, Stream, CleanTunnel
<1> QED
  BY <1>1, OutgoingSpec, PTL

(***************************************************************************)
(* A key is taken apart at its bars.  The first bar follows the type; where*)
(* the fields have none there are two more, and they show where the fields *)
(* end.  The key of any other setting has at least those three, so if it is*)
(* the same key they are in the same places.                               *)
(***************************************************************************)

(* What keys are made of.  (Provers do not know that "a" is in STRING.)    *)
Texts == STRING \cup {"", "direct", "socks5", "http", Bar}

SecondBar(x) == Len(x.addr) + 3

ThirdBar(x) == Len(x.addr) + Len(x.user) + 4

LEMMA TextFields ==
    ASSUME NEW x \in Exits
    PROVE  /\ x.addr \in Seq(Texts) /\ x.user \in Seq(Texts) /\ x.pass \in Seq(Texts)
           /\ x.type \in Texts /\ Bar \in Texts
<1>1. /\ x.addr \in Seq(STRING) /\ x.user \in Seq(STRING) /\ x.pass \in Seq(STRING)
      /\ x.type \in {"", "direct", "socks5", "http"}
  <2>1. x \in [type : {"", "direct", "socks5", "http"}, addr : Seq(STRING),
               user : Seq(STRING), pass : Seq(STRING), timeout : Nat]
    BY ExitsAssumption
  <2> QED
    BY <2>1
<1>2. ASSUME NEW s \in Seq(STRING) PROVE s \in Seq(Texts)
  BY SeqMonotonic DEF Texts
<1> QED
  BY <1>1, <1>2 DEF Texts

LEMMA Joins ==
    ASSUME NEW s \in Seq(Texts), NEW t \in Seq(Texts)
    PROVE  /\ s \o t \in Seq(Texts) /\ Len(s \o t) = Len(s) + Len(t)
           /\ \A k \in 1..Len(s) : (s \o t)[k] = s[k]
           /\ \A k \in 1..Len(t) : (s \o t)[Len(s) + k] = t[k]
<1>1. Len(s) \in Nat /\ Len(t) \in Nat
  OBVIOUS
<1> DEFINE c == s \o t
<1>2. /\ c \in Seq(Texts) /\ Len(c) = Len(s) + Len(t)
      /\ \A i \in 1..Len(s) + Len(t) :
            c[i] = IF i <= Len(s) THEN s[i] ELSE t[i - Len(s)]
  BY ConcatProperties
<1> HIDE DEF c
<1>3. ASSUME NEW k \in 1..Len(t) PROVE c[Len(s) + k] = t[k]
  <2>1. /\ Len(s) + k \in 1..Len(s) + Len(t)
        /\ ~(Len(s) + k <= Len(s)) /\ (Len(s) + k) - Len(s) = k
    BY <1>1
  <2> QED
    BY <1>2, <2>1
<1>4. ASSUME NEW k \in 1..Len(s) PROVE c[k] = s[k]
  BY <1>1, <1>2
<1> QED
  BY <1>2, <1>3, <1>4 DEF c

LEMMA Joined ==
    ASSUME NEW x \in Exits, ~Empty(x)
    PROVE  /\ x.addr \in Seq(Texts) /\ x.user \in Seq(Texts) /\ x.pass \in Seq(Texts)
           /\ Len(Key(x)) = Len(x.addr) + Len(x.user) + Len(x.pass) + 4
           /\ Key(x)[1] = x.type /\ Key(x)[2] = Bar
           /\ \A k \in 1..Len(x.addr) : Key(x)[2 + k] = x.addr[k]
           /\ Key(x)[SecondBar(x)] = Bar
           /\ \A k \in 1..Len(x.user) : Key(x)[SecondBar(x) + k] = x.user[k]
           /\ Key(x)[ThirdBar(x)] = Bar
           /\ \A k \in 1..Len(x.pass) : Key(x)[ThirdBar(x) + k] = x.pass[k]
<1>1. /\ x.addr \in Seq(Texts) /\ x.user \in Seq(Texts) /\ x.pass \in Seq(Texts)
      /\ x.type \in Texts /\ Bar \in Texts
  BY TextFields
<1> DEFINE a == x.addr
           u == x.user
           p == x.pass
           p1 == <<Bar>> \o p
           u1 == u \o p1
           u2 == <<Bar>> \o u1
           a1 == a \o u2
           h == <<x.type, Bar>>
<1>2. Key(x) = h \o a1
  BY DEF Key
<1>3. /\ Len(a) \in Nat /\ Len(u) \in Nat /\ Len(p) \in Nat
      /\ a \in Seq(Texts) /\ u \in Seq(Texts) /\ p \in Seq(Texts)
      /\ Bar \in Texts
  BY <1>1
<1>4. h \in Seq(Texts) /\ Len(h) = 2 /\ h[1] = x.type /\ h[2] = Bar
  BY <1>1
<1>5. <<Bar>> \in Seq(Texts) /\ Len(<<Bar>>) = 1 /\ <<Bar>>[1] = Bar
  BY <1>1
<1> HIDE DEF a, u, p
<1>6. /\ p1 \in Seq(Texts) /\ Len(p1) = 1 + Len(p) /\ p1[1] = Bar
      /\ \A k \in 1..Len(p) : p1[1 + k] = p[k]
  <2>1. /\ p1 \in Seq(Texts) /\ Len(p1) = Len(<<Bar>>) + Len(p)
        /\ \A k \in 1..Len(<<Bar>>) : p1[k] = <<Bar>>[k]
        /\ \A k \in 1..Len(p) : p1[Len(<<Bar>>) + k] = p[k]
    BY <1>3, <1>5, Joins
  <2> HIDE DEF p1
  <2> QED
    BY <1>3, <1>5, <2>1
<1> HIDE DEF p1
<1>7. /\ u1 \in Seq(Texts) /\ Len(u1) = Len(u) + Len(p1)
      /\ \A k \in 1..Len(u) : u1[k] = u[k]
      /\ \A k \in 1..Len(p1) : u1[Len(u) + k] = p1[k]
  BY <1>3, <1>6, Joins
<1> HIDE DEF u1
<1>8. /\ u2 \in Seq(Texts) /\ Len(u2) = 1 + Len(u1) /\ u2[1] = Bar
      /\ \A k \in 1..Len(u1) : u2[1 + k] = u1[k]
  <2>1. /\ u2 \in Seq(Texts) /\ Len(u2) = Len(<<Bar>>) + Len(u1)
        /\ \A k \in 1..Len(<<Bar>>) : u2[k] = <<Bar>>[k]
        /\ \A k \in 1..Len(u1) : u2[Len(<<Bar>>) + k] = u1[k]
    BY <1>5, <1>7, Joins
  <2> HIDE DEF u2
  <2> QED
    BY <1>5, <1>7, <2>1
<1> HIDE DEF u2
<1>9. /\ a1 \in Seq(Texts) /\ Len(a1) = Len(a) + Len(u2)
      /\ \A k \in 1..Len(a) : a1[k] = a[k]
      /\ \A k \in 1..Len(u2) : a1[Len(a) + k] = u2[k]
  BY <1>3, <1>8, Joins
<1> HIDE DEF a1, h
<1>10. /\ Len(Key(x)) = 2 + Len(a1) /\ Key(x)[1] = x.type /\ Key(x)[2] = Bar
       /\ \A k \in 1..Len(a1) : Key(x)[2 + k] = a1[k]
  <2>1. /\ Len(h \o a1) = Len(h) + Len(a1)
        /\ \A k \in 1..Len(h) : (h \o a1)[k] = h[k]
        /\ \A k \in 1..Len(a1) : (h \o a1)[Len(h) + k] = a1[k]
    BY <1>4, <1>9, Joins
  <2> QED
    BY <1>2, <1>4, <2>1
<1>11. Len(Key(x)) = Len(a) + Len(u) + Len(p) + 4
  BY <1>3, <1>6, <1>7, <1>8, <1>9, <1>10
<1>12. \A k \in 1..Len(a) : Key(x)[2 + k] = a[k]
  BY <1>3, <1>6, <1>7, <1>8, <1>9, <1>10
<1>13. \A k \in 1..Len(u2) : Key(x)[2 + Len(a) + k] = u2[k]
  <2> TAKE k \in 1..Len(u2)
  <2>1. Len(a) + k \in 1..Len(a1) /\ 2 + (Len(a) + k) = 2 + Len(a) + k
    BY <1>3, <1>6, <1>7, <1>8, <1>9
  <2> QED
    BY <1>9, <1>10, <2>1
<1>14. Key(x)[3 + Len(a)] = Bar
  <2>1. 1 \in 1..Len(u2) /\ 2 + Len(a) + 1 = 3 + Len(a)
    BY <1>3, <1>6, <1>7, <1>8
  <2> QED
    BY <1>8, <1>13, <2>1
<1>15. \A k \in 1..Len(u1) : Key(x)[3 + Len(a) + k] = u1[k]
  <2> TAKE k \in 1..Len(u1)
  <2>1. 1 + k \in 1..Len(u2) /\ 2 + Len(a) + (1 + k) = 3 + Len(a) + k
    BY <1>3, <1>6, <1>7, <1>8
  <2> QED
    BY <1>8, <1>13, <2>1
<1>16. \A k \in 1..Len(u) : Key(x)[3 + Len(a) + k] = u[k]
  BY <1>3, <1>6, <1>7, <1>15
<1>17. \A k \in 1..Len(p1) : Key(x)[3 + Len(a) + Len(u) + k] = p1[k]
  <2> TAKE k \in 1..Len(p1)
  <2>1. Len(u) + k \in 1..Len(u1) /\ 3 + Len(a) + (Len(u) + k) = 3 + Len(a) + Len(u) + k
    BY <1>3, <1>6, <1>7
  <2> QED
    BY <1>7, <1>15, <2>1
<1>18. Key(x)[4 + Len(a) + Len(u)] = Bar
  <2>1. 1 \in 1..Len(p1) /\ 3 + Len(a) + Len(u) + 1 = 4 + Len(a) + Len(u)
    BY <1>3, <1>6
  <2> QED
    BY <1>6, <1>17, <2>1
<1>19. \A k \in 1..Len(p) : Key(x)[4 + Len(a) + Len(u) + k] = p[k]
  <2> TAKE k \in 1..Len(p)
  <2>1. 1 + k \in 1..Len(p1) /\ 3 + Len(a) + Len(u) + (1 + k) = 4 + Len(a) + Len(u) + k
    BY <1>3, <1>6
  <2> QED
    BY <1>6, <1>17, <2>1
<1>20. SecondBar(x) = 3 + Len(a) /\ ThirdBar(x) = 4 + Len(a) + Len(u)
  <2>1. SecondBar(x) = Len(a) + 3 /\ ThirdBar(x) = Len(a) + Len(u) + 4
    BY DEF SecondBar, ThirdBar, a, u
  <2> QED
    BY <1>3, <2>1
<1> QED
  BY <1>1, <1>10, <1>11, <1>12, <1>14, <1>16, <1>18, <1>19, <1>20 DEF a, u, p

(* A plain key has its bars in three places only. *)
LEMMA BarsOf ==
    ASSUME NEW x \in Exits, ~Empty(x), Plain(x), NEW j \in 2..Len(Key(x)), Key(x)[j] = Bar
    PROVE  j \in {2, SecondBar(x), ThirdBar(x)}
<1> DEFINE la == Len(x.addr)
           lu == Len(x.user)
           lp == Len(x.pass)
<1>1. la \in Nat /\ lu \in Nat /\ lp \in Nat
  BY Joined
<1>2. Len(Key(x)) = la + lu + lp + 4 /\ SecondBar(x) = la + 3 /\ ThirdBar(x) = la + lu + 4
  BY Joined DEF SecondBar, ThirdBar
<1>3. /\ \A k \in 1..la : x.addr[k] # Bar
      /\ \A k \in 1..lu : x.user[k] # Bar
      /\ \A k \in 1..lp : x.pass[k] # Bar
  BY Joined DEF Plain, Pieces
<1>4. /\ \A k \in 1..la : Key(x)[2 + k] # Bar
      /\ \A k \in 1..lu : Key(x)[SecondBar(x) + k] # Bar
      /\ \A k \in 1..lp : Key(x)[ThirdBar(x) + k] # Bar
  BY <1>3, Joined
<1> HIDE DEF la, lu, lp
<1> SUFFICES ASSUME j \notin {2, SecondBar(x), ThirdBar(x)} PROVE FALSE
  OBVIOUS
<1>5. CASE j < SecondBar(x)
  <2>1. j - 2 \in 1..la /\ 2 + (j - 2) = j
    BY <1>1, <1>2, <1>5
  <2> QED
    BY <1>4, <2>1
<1>6. CASE SecondBar(x) < j /\ j < ThirdBar(x)
  <2>1. j - SecondBar(x) \in 1..lu /\ SecondBar(x) + (j - SecondBar(x)) = j
    BY <1>1, <1>2, <1>6
  <2> QED
    BY <1>4, <2>1
<1>7. CASE ThirdBar(x) < j
  <2>1. j - ThirdBar(x) \in 1..lp /\ ThirdBar(x) + (j - ThirdBar(x)) = j
    BY <1>1, <1>2, <1>7
  <2> QED
    BY <1>4, <2>1
<1> QED
  BY <1>1, <1>2, <1>5, <1>6, <1>7

LEMMA SameSeq ==
    ASSUME NEW s \in Seq(Texts), NEW t \in Seq(Texts), Len(s) = Len(t),
           \A k \in 1..Len(s) : s[k] = t[k]
    PROVE  s = t
  OBVIOUS

(* The key of a plain setting is the key of settings of one way only.      *)
LEMMA PlainKey ==
    ASSUME NEW x \in Exits, NEW y \in Exits, Plain(x), Key(y) = Key(x)
    PROVE  Way(y) = Way(x)
<1>1. CASE Empty(x) /\ Empty(y)
  BY <1>1 DEF Way
<1>2. ASSUME NEW z \in Exits, ~Empty(z), Key(z) = <<"direct">> PROVE FALSE
  <2>1. Len(Key(z)) # 1
    <3>1. /\ z.addr \in Seq(Texts) /\ z.user \in Seq(Texts) /\ z.pass \in Seq(Texts)
          /\ Len(Key(z)) = Len(z.addr) + Len(z.user) + Len(z.pass) + 4
      BY <1>2, Joined
    <3> DEFINE la == Len(z.addr)
               lu == Len(z.user)
               lp == Len(z.pass)
    <3>2. la \in Nat /\ lu \in Nat /\ lp \in Nat /\ Len(Key(z)) = la + lu + lp + 4
      BY <3>1
    <3> HIDE DEF la, lu, lp
    <3> DEFINE n == Len(Key(z))
    <3>3. n = la + lu + lp + 4
      BY <3>2
    <3> HIDE DEF n
    <3>4. n # 1
      BY <3>2, <3>3
    <3> QED
      BY <3>4 DEF n
  <2> QED
    BY <1>2, <2>1
<1>3. CASE Empty(x) /\ ~Empty(y)
  BY <1>2, <1>3 DEF Key
<1>4. CASE ~Empty(x) /\ Empty(y)
  BY <1>2, <1>4 DEF Key
<1>5. CASE ~Empty(x) /\ ~Empty(y)
  <2> DEFINE xa == Len(x.addr)
             xu == Len(x.user)
             xp == Len(x.pass)
             ya == Len(y.addr)
             yu == Len(y.user)
             yp == Len(y.pass)
  <2>1. /\ xa \in Nat /\ xu \in Nat /\ xp \in Nat
        /\ ya \in Nat /\ yu \in Nat /\ yp \in Nat
    BY <1>5, Joined
  <2>2. xa + xu + xp = ya + yu + yp
    <3>1. Len(Key(x)) = xa + xu + xp + 4 /\ Len(Key(y)) = ya + yu + yp + 4
      BY <1>5, Joined
    <3> HIDE DEF xa, xu, xp, ya, yu, yp
    <3> QED
      BY <2>1, <3>1
  <2>3. /\ SecondBar(x) = xa + 3 /\ ThirdBar(x) = xa + xu + 4
        /\ SecondBar(y) = ya + 3 /\ ThirdBar(y) = ya + yu + 4
        /\ Len(Key(x)) = xa + xu + xp + 4
    BY <1>5, Joined DEF SecondBar, ThirdBar
  <2>4. Key(x)[SecondBar(y)] = Bar /\ Key(x)[ThirdBar(y)] = Bar
    BY <1>5, Joined
  <2> HIDE DEF xa, xu, xp, ya, yu, yp
  <2>5. SecondBar(y) \in 2..Len(Key(x)) /\ ThirdBar(y) \in 2..Len(Key(x))
    BY <2>1, <2>2, <2>3
  <2>6. /\ SecondBar(y) \in {2, SecondBar(x), ThirdBar(x)}
        /\ ThirdBar(y) \in {2, SecondBar(x), ThirdBar(x)}
    BY <1>5, <2>4, <2>5, BarsOf
  <2>7. xa = ya /\ xu = yu /\ xp = yp
    BY <2>1, <2>2, <2>3, <2>6
  <2>8. SecondBar(x) = SecondBar(y) /\ ThirdBar(x) = ThirdBar(y)
    BY <2>3, <2>7
  <2>9. x.type = y.type
    BY <1>5, Joined
  <2>10. x.addr = y.addr
    <3>1. /\ x.addr \in Seq(Texts) /\ y.addr \in Seq(Texts)
          /\ \A k \in 1..Len(x.addr) : Key(x)[2 + k] = x.addr[k]
          /\ \A k \in 1..Len(y.addr) : Key(x)[2 + k] = y.addr[k]
      BY <1>5, Joined
    <3> QED
      BY <2>7, <3>1, SameSeq DEF xa, ya
  <2>11. x.user = y.user
    <3>1. /\ x.user \in Seq(Texts) /\ y.user \in Seq(Texts)
          /\ \A k \in 1..Len(x.user) : Key(x)[SecondBar(x) + k] = x.user[k]
          /\ \A k \in 1..Len(y.user) : Key(x)[SecondBar(y) + k] = y.user[k]
      BY <1>5, Joined
    <3> QED
      BY <2>7, <2>8, <3>1, SameSeq DEF xu, yu
  <2>12. x.pass = y.pass
    <3>1. /\ x.pass \in Seq(Texts) /\ y.pass \in Seq(Texts)
          /\ \A k \in 1..Len(x.pass) : Key(x)[ThirdBar(x) + k] = x.pass[k]
          /\ \A k \in 1..Len(y.pass) : Key(x)[ThirdBar(y) + k] = y.pass[k]
      BY <1>5, Joined
    <3> QED
      BY <2>7, <2>8, <3>1, SameSeq DEF xp, yp
  <2> QED
    BY <1>5, <2>9, <2>10, <2>11, <2>12 DEF Way
<1> QED
  BY <1>1, <1>3, <1>4, <1>5

(***************************************************************************)
(* An attempt leaves by the exit of its own route and reaches the node it  *)
(* was given, however many reloads exchange the settings while transports  *)
(* are cached and connections dialled (upstream.go TransportManager.Get,   *)
(* socks5.go Config.Key).  The exit of a setting without bars, that is,    *)
(* whatever the other settings are.                                        *)
(***************************************************************************)
THEOREM OutgoingRightExit == Spec => []RightExit
<1>1. ASSUME OutgoingInv, NEW i \in Conns, conn[i].stage = "open"
      PROVE  /\ conn[i].to = node[conn[i].user]
             /\ Plain(px[conn[i].user]) => Way(conn[i].via) = Way(px[conn[i].user])
  <2> DEFINE a == conn[i].user
  <2>1. conn[i] \in Connection /\ a # None
    BY <1>1, InUse DEF OutgoingInv, Held
  <2>2. a \in Attempts /\ conn[i].via \in Exits
    BY <2>1 DEF Connection
  <2>3. conn[i].to = node[a] /\ Key(conn[i].via) = Key(px[a]) /\ at[a] = "using"
    BY <1>1, <2>1 DEF OutgoingInv, Held
  <2>4. px[a] \in Exits
    BY <1>1, <2>2, <2>3 DEF OutgoingInv, Chosen
  <2> HIDE DEF a
  <2> QED
    BY <2>2, <2>3, <2>4, PlainKey DEF a
<1>2. OutgoingInv => RightExit
  BY <1>1 DEF RightExit
<1> QED
  BY <1>2, OutgoingSpec, PTL
==============================================================================
