------------------------------ MODULE MCFetch ------------------------------
(***************************************************************************)
(* Small webs for module Fetch.                                            *)
(***************************************************************************)
EXTENDS Fetch

MCHosts == {"", "a", "b", "c", "d"}
MCTargets == {"", "/", "/p"}
MCSchemes == {"", "http", "https", "ftp"}
MCPorts == {"80", "443", "8080"}

Full(s, h, t) == [scheme |-> s, authority |-> h, head |-> "", tail |-> t]
Bare(h, t) == [scheme |-> "", authority |-> "", head |-> h, tail |-> t]

\* "host/path", "host" and "/path", the three schemes, and no URL at all.
MCAnyEntries == {Bare("a", "/p"), Bare("a", ""), Bare("", "/p"), Malformed,
                 Full("http", "a", "/p"), Full("https", "a", "/p"),
                 Full("ftp", "a", "/p")}

MCEntries ==
  MCAnyEntries
    \cup {Bare(h, t) : h \in {"c", "d"}, t \in {"/", "/p"}}
    \cup {Full(s, h, t) : s \in {"http", "https"}, h \in {"c", "d"}, t \in {"/", "/p"}}

RedirectTo(u) == [kind |-> "redirect", url |-> u]
Is(k) == [kind |-> k]

\* Host a may redirect to anything, in a cycle too; host b is served in the
\* clear only; c and d insist on https, and d also moves its pages to c; the
\* empty host, the machine itself, has nothing.
MCWeb ==
  [r \in Request |->
     CASE r.host = "a" -> {RedirectTo(u) : u \in MCAnyEntries}
                            \cup {RedirectTo(Full(s, h, "/")) :
                                    s \in {"http", "https"}, h \in {"a", "b"}}
                            \cup {Is("body"), Is("none")}
       [] r.host = "b" -> {IF r.tls THEN Is("fail") ELSE Is("body")}
       [] r.host \in {"c", "d"} ->
            IF r.tls THEN {Is("body")}
            ELSE {RedirectTo(Full("https", r.host, r.target)),
                  RedirectTo(Full("https", "c", "/p"))}
       [] OTHER        -> {Is("none")}]
=============================================================================
