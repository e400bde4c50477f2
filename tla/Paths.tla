------------------------------- MODULE Paths -------------------------------
(***************************************************************************)
(* Request paths and host names, and what the string functions of the      *)
(* router do to them.  A path is a sequence of fragments: "/" and names    *)
(* none of which is the beginning of another, so that a prefix of the      *)
(* fragments is a prefix of the characters: /ghost is <<"/","gh","ost">>   *)
(* where /gh is a route's path.  A host name is the sequence of its labels *)
(* in lower case.                                                          *)
(***************************************************************************)
EXTENDS Integers, SequencesExt

CONSTANT
    Asked           \* the paths that are requested

ASSUME AskedAssumption == Asked \subseteq Seq(STRING)

Slash == <<"/">>

(* strings.HasPrefix, TrimPrefix and TrimRight(s, "/") *)
HasPrefix(s, p) == IsPrefix(p, s)

TrimPrefix(s, p) == IF HasPrefix(s, p) THEN SubSeq(s, Len(p) + 1, Len(s)) ELSE s

TrimSlashes(s) ==
    LET Kept == {k \in 1..Len(s) : s[k] # "/"}
    IN  SubSeq(s, 1, IF Kept = {} THEN 0 ELSE CHOOSE k \in Kept : \A j \in Kept : j <= k)

(* The slash that every rewriting puts in front of what it produced. *)
Rooted(s) == IF HasPrefix(s, Slash) THEN s ELSE Slash \o s

(* hostMatch.  A pattern is a record of its labels, of whether "*." stands *)
(* before them, and of whether it carries a port; a host is its labels and *)
(* whether a port follows.  The port of the host is dropped, the port of   *)
(* a pattern is not: a pattern with a port is equal to no host.            *)
HostMatch(pattern, host) ==
    IF pattern.wild
    THEN /\ ~pattern.port
         /\ IsSuffix(pattern.labels, host.labels)
         /\ Len(host.labels) > Len(pattern.labels)
    ELSE pattern.labels = <<>> \/ (~pattern.port /\ host.labels = pattern.labels)
=============================================================================
