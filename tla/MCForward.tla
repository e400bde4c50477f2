------------------------------ MODULE MCForward ------------------------------
(* A small instance of Forward for TLC: plain, rewriting, stripping and    *)
(* domain_in_path routes, lists with and without readable items.           *)
EXTENDS Forward

gh   == <<"/", "gh">>
root == <<"/">>

MCNodes == {"n1", "n2"}
MCBase  == [n \in MCNodes |-> IF n = "n1" THEN root ELSE <<>>]

MCAsked == { root, gh, <<"/", "gh", "/", "x">>, <<"/", "gh", "/", "/", "a.com">>, <<"/", "gh", "/", "gh", "/", "x">>,
             <<"/", "gh", "/", "a.com", "/", "x">>, <<"/", "gh", "a.com">>,
             <<"/", "a.com">>, <<"/", "a.com:80", "/", "gh", "/", "x">>, <<"/", ".git", "/", "x">> }

MCInvalid == {".git"}

MCNames == [f \in {"a.com", "a.com:80"} |->
               [labels |-> <<"a", "com">>, port |-> f = "a.com:80"]]

MCClients == {"c1", "c2", "unreadable"}

One  == [valid |-> TRUE, ips |-> {"c1"}]
Both == [valid |-> TRUE, ips |-> {"c1", "c2"}]
Typo == [valid |-> FALSE, ips |-> {}]

Dotcom == [match |-> [labels |-> <<"com">>, wild |-> TRUE, port |-> FALSE],
           proxy |-> "px", scheme |-> ""]
Acom   == [match |-> [labels |-> <<"a", "com">>, wild |-> FALSE, port |-> FALSE],
           proxy |-> "__direct__", scheme |-> "https"]

Plain == [mode |-> "", path |-> gh, rewrite |-> <<>>, strip |-> FALSE, retry |-> 1,
          rules |-> <<>>, proxy |-> "", scheme |-> "",
          allow |-> {}, deny |-> {One}, auth |-> FALSE, limited |-> TRUE]

Embedded == [Plain EXCEPT !.mode = "domain_in_path", !.path = root, !.deny = {},
                          !.rules = <<Dotcom, Acom>>, !.proxy = "__direct__"]

MCRoutes ==
    { Plain,
      [Plain EXCEPT !.path = root, !.auth = TRUE, !.allow = {Typo, Both}],
      [Plain EXCEPT !.rewrite = <<"/", "api", "/">>, !.allow = {Typo}],
      [Plain EXCEPT !.strip = TRUE, !.auth = TRUE],
      Embedded,
      [Embedded EXCEPT !.rules = <<Acom, Dotcom>>, !.allow = {One}],
      [Embedded EXCEPT !.path = <<"/", "gh", "/">>, !.rules = <<Acom>>, !.proxy = "px"],
      [Embedded EXCEPT !.path = gh, !.rules = <<>>, !.proxy = "", !.scheme = "https"] }

MCConfigs == { [default |-> "",   proxies |-> {"px"}, blank |-> {}],
               [default |-> "px", proxies |-> {"px"}, blank |-> {}],
               [default |-> "px", proxies |-> {"px"}, blank |-> {"px"}],
               [default |-> "px", proxies |-> {},     blank |-> {}] }
==============================================================================
