------------------------------ MODULE MCCrawl ------------------------------
(***************************************************************************)
(* Small webs for module Crawl.                                            *)
(***************************************************************************)
EXTENDS Crawl

MCHosts == {"", "a", "b"}
MCTargets == {"", "/", "/p", "/p/"}
AtUrl(h, t) == [host |-> h, target |-> t]
MCStart == AtUrl("b", "/")

\* Concatenation, cut off where it would leave the set of targets.
MCExtend == [tp \in MCTargets \X MCTargets |->
               CASE tp[1] = "" -> tp[2]
                 [] tp[2] = "" -> tp[1]
                 [] OTHER      -> "/p/"]

Root(t) == [kind |-> "root", path |-> t]
Fragment(t) == [kind |-> "fragment", path |-> t]
Absolute(u) == [kind |-> "absolute", url |-> u]
Ignored == [kind |-> "ignored"]
Page(ls) == [kind |-> "page", links |-> ls]
Redirect(u) == [kind |-> "redirect", url |-> u]
EmptyAnswer == [kind |-> "empty"]
Fail == [kind |-> "fail"]

\* The start URL is redirected to another host.  The page there has links of
\* every kind, three of which are pushed; one of them leads back to the start
\* URL, one to a page whose server may fail, and what no peer serves fails.
MCWeb ==
  [u \in Url |->
     CASE u = MCStart           -> {Redirect(AtUrl("a", "/"))}
       [] u = AtUrl("a", "/")   -> {Page(<<Root("/p"), Ignored, Fragment("/p"),
                                           Absolute(MCStart)>>)}
       [] u = AtUrl("a", "/p")  -> {Page(<<Root("/p")>>), EmptyAnswer}
       [] u = AtUrl("a", "/p/") -> {Page(<<Fragment("")>>), Fail}
       [] OTHER                 -> {Fail}]

\* The start page links to a page that is served, to one that is redirected for
\* ever, and to a peer that never answers; or only to pages that are served, one
\* of them after a redirect.
MCStallWeb ==
  [u \in Url |->
     CASE u = MCStart           -> {Page(<<Absolute(AtUrl("a", "/p")),
                                           Absolute(AtUrl("a", "/")),
                                           Root("/p")>>),
                                    Page(<<Absolute(AtUrl("a", "/p")), Root("/p/")>>)}
       [] u = AtUrl("a", "/p")  -> {Page(<<>>), EmptyAnswer}
       [] u = AtUrl("a", "/")   -> {Redirect(AtUrl("a", "/p/"))}
       [] u = AtUrl("a", "/p/") -> {Redirect(AtUrl("a", "/p/"))}
       [] u = AtUrl("b", "/p")  -> {}
       [] u = AtUrl("b", "/p/") -> {Redirect(AtUrl("a", "/p"))}
       [] OTHER                 -> {Fail}]
=============================================================================
