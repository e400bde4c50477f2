----------------------------- MODULE MCOutgoing ------------------------------
(***************************************************************************)
(* Values of the constants of Outgoing: one proxy that speaks SOCKS5 and   *)
(* HTTP, and the direct way.                                               *)
(***************************************************************************)
EXTENDS Outgoing

Setting(type, addr, user, pass, timeout) ==
    [type |-> type, addr |-> addr, user |-> user, pass |-> pass, timeout |-> timeout]

proxy == <<"p:1080">>

MCExits == {Setting("socks5", proxy, <<"ann">>, <<"x">>, 10),
            Setting("http", proxy, <<"ann">>, <<"x">>, 10),
            Setting("socks5", <<>>, <<>>, <<>>, 0)}

(* For ExitOfRoute: two users whose keys are the same.                     *)
MCBars == {Setting("socks5", proxy, <<"a", Bar, "b">>, <<"c">>, 10),
           Setting("socks5", proxy, <<"a">>, <<"b", Bar, "c">>, 10)}

(* For TimeoutInForce: one proxy, whose timeout is changed.                *)
MCTimeouts == {Setting("socks5", proxy, <<"ann">>, <<"x">>, 5),
               Setting("socks5", proxy, <<"ann">>, <<"x">>, 10)}

MCNames == {0, 255}
==============================================================================
