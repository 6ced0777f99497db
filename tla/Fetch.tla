------------------------------- MODULE Fetch -------------------------------
(***************************************************************************)
(* One call of SpiderClient::HandleUrl: which peer is asked, over which    *)
(* transport, while redirects are followed.                                *)
(*                                                                         *)
(* Module Crawl takes a fetch to be a host and an answer.  This module     *)
(* looks inside: entries of url_list mostly have no scheme ("host/path"),  *)
(* and the transport of a request is chosen from the scheme of the URL     *)
(* BEFORE the redirect, because `scheme` is read before the response is.   *)
(***************************************************************************)
EXTENDS Naturals

CONSTANTS
  Hosts,      \* host names, and NoHost, the empty one
  NoHost,
  Targets,    \* request targets, all with a '/', and NoTarget, the empty one
  NoTarget,
  Schemes,    \* "http", "https", others, and NoScheme, the empty one
  NoScheme,
  Ports,      \* client_port in the configuration, "80" and "443"
  Malformed,  \* what boost::url refuses to parse
  Entries,    \* the entries HandleUrl may be called with
  Answers,    \* what may answer: Answers[[host, target, tls]]
  Patience    \* requests are counted up to this bound

\* A URL without an authority has a path that begins with anything: head is
\* what precedes its first '/', and tail is NoTarget if there is no '/'.
Url == [scheme : Schemes, authority : Hosts, head : Hosts, tail : Targets]

Request == [host : Hosts, target : Targets, tls : BOOLEAN]

\* "redirect" is 301, 302 or 307 with a Location; "none" any other status but
\* 200, or one of these without a Location; "fail" is what makes resolve,
\* connect, handshake, write or read throw.
Answer == [kind : {"redirect"}, url : Url \cup {Malformed}]
            \cup [kind : {"body", "none", "fail"}]

ASSUME FetchAssumption ==
  /\ NoHost \in Hosts
  /\ NoTarget \in Targets
  /\ {"http", "https", NoScheme} \subseteq Schemes
  /\ {"80", "443"} \subseteq Ports
  /\ Malformed \notin Url
  /\ Entries \subseteq Url \cup {Malformed}
  /\ Answers \in [Request -> SUBSET Answer]
  /\ Patience \in Nat

VARIABLES
  pc,         \* "parse", "locate", "request", "returned" or "threw"
  parse_url,
  scheme,
  use_ssl,
  port,
  host,       \* the out parameters: the host and the target
  target,
  result,     \* "" or "body", what is returned
  previous,   \* history: the URL that was redirected to parse_url, or itself
  https_only, \* history: every URL so far has scheme https
  requests    \* history: how many requests were made, up to Patience

vars == <<pc, parse_url, scheme, use_ssl, port, host, target, result, previous,
          https_only, requests>>

Init ==
  /\ pc = "parse"
  /\ parse_url \in Entries
  /\ scheme = NoScheme
  /\ use_ssl = FALSE
  /\ port \in Ports
  /\ host = NoHost /\ target = NoTarget
  /\ result = ""
  /\ previous = parse_url
  /\ https_only = FALSE
  /\ requests = 0

Throw == pc' = "threw"

\* Mutant: the scheme of the entry is not looked at.
ParseWithoutScheme ==
  /\ pc = "parse"
  /\ pc' = IF parse_url = Malformed THEN "threw" ELSE "locate"
  /\ scheme' = IF parse_url = Malformed THEN NoScheme ELSE parse_url.scheme
  /\ use_ssl' = (port = "443")
  /\ https_only' = (scheme' = "https")
  /\ UNCHANGED <<parse_url, port, host, target, result, previous, requests>>

\* boost::url parse_url{ url }, and the first choice of the transport.
Parse ==
  /\ pc = "parse"
  /\ \/ /\ parse_url = Malformed
        /\ Throw
        /\ UNCHANGED <<scheme, use_ssl, port, https_only>>
     \/ /\ parse_url # Malformed
        /\ pc' = "locate"
        /\ scheme' = parse_url.scheme
        /\ use_ssl' = (port = "443" \/ parse_url.scheme = "https")
        /\ port' = IF parse_url.scheme = "https" THEN "443" ELSE port
        /\ https_only' = (parse_url.scheme = "https")
  /\ UNCHANGED <<parse_url, host, target, result, previous, requests>>

\* The host and the target of a URL: for one without an authority the path is
\* cut at its first '/', and substr(npos) throws when there is none.
Locate ==
  /\ pc = "locate"
  /\ \/ /\ parse_url.authority # NoHost
        /\ host' = parse_url.authority
        /\ target' = parse_url.tail
        /\ scheme' = parse_url.scheme
        /\ pc' = "request"
     \/ /\ parse_url.authority = NoHost
        /\ parse_url.tail # NoTarget
        /\ host' = parse_url.head
        /\ target' = parse_url.tail
        /\ scheme' = parse_url.scheme
        /\ pc' = "request"
     \/ /\ parse_url.authority = NoHost
        /\ parse_url.tail = NoTarget
        /\ host' = parse_url.head
        /\ Throw
        /\ UNCHANGED <<target, scheme>>
  /\ UNCHANGED <<parse_url, use_ssl, port, result, previous, https_only,
                 requests>>

\* Mutant: the port is forgotten.
TransportWithoutPort(s) ==
  /\ use_ssl' = CASE s = "https" -> TRUE [] s = "http" -> FALSE
                  [] OTHER -> use_ssl
  /\ UNCHANGED port

\* Mutant: a redirect does not change the transport.
TransportKept(s) == UNCHANGED <<use_ssl, port>>

\* The transport of the next request, by the scheme that Locate read from the
\* URL that is redirected: `scheme`.
Transport(s) ==
  \/ s = "https" /\ use_ssl' = TRUE /\ port' = "443"
  \/ s = "http" /\ use_ssl' = FALSE /\ port' = "80"
  \/ s \notin {"http", "https"} /\ UNCHANGED <<use_ssl, port>>

\* HandleRedirect, and the choice of the transport that follows it.
Redirect(u) ==
  \/ /\ u = Malformed
     /\ Throw
     /\ UNCHANGED <<parse_url, use_ssl, port, previous, https_only>>
  \/ /\ u # Malformed
     /\ pc' = "locate"
     /\ parse_url' = u
     /\ Transport(scheme)
     /\ previous' = parse_url
     /\ https_only' = (https_only /\ u.scheme = "https")

\* Resolve, connect, handshake, write, read, and what is made of the response.
Respond ==
  /\ pc = "request"
  /\ requests' = IF requests < Patience THEN requests + 1 ELSE requests
  /\ \E a \in Answers[[host |-> host, target |-> target, tls |-> use_ssl]] :
       \/ /\ a.kind = "redirect"
          /\ Redirect(a.url)
          /\ UNCHANGED result
       \/ /\ a.kind \in {"body", "none"}
          /\ pc' = "returned"
          /\ result' = IF a.kind = "body" THEN "body" ELSE ""
          /\ UNCHANGED <<parse_url, use_ssl, port, previous, https_only>>
       \/ /\ a.kind = "fail"
          /\ Throw
          /\ UNCHANGED <<parse_url, use_ssl, port, result, previous,
                         https_only>>
  /\ UNCHANGED <<scheme, host, target>>

Ended == pc \in {"returned", "threw"}

Next == Parse \/ Locate \/ Respond \/ (Ended /\ UNCHANGED vars)

Spec == Init /\ [][Next]_vars
FairSpec == Spec /\ WF_vars(Next)

-----------------------------------------------------------------------------
\* Every variable keeps its type, and nothing but a URL is ever located or
\* requested.
TypeOK ==
  /\ pc \in {"parse", "locate", "request", "returned", "threw"}
  /\ parse_url \in Url \cup {Malformed}
  /\ pc \in {"locate", "request"} => parse_url \in Url
  /\ scheme \in Schemes
  /\ use_ssl \in BOOLEAN
  /\ port \in Ports
  /\ host \in Hosts /\ target \in Targets
  /\ result \in {"", "body"}
  /\ previous \in Url \cup {Malformed}
  /\ https_only \in BOOLEAN
  /\ requests \in 0 .. Patience

\* TLS is spoken to port 443 and to no other port, whatever the configured
\* port and however often a redirect changed the transport.
TlsOnPort443 == pc \in {"locate", "request"} => (use_ssl <=> port = "443")

\* While every URL of a chain of redirects is https, no request of it is made
\* in the clear, although the transport is chosen from the URL before.
HttpsStaysOnTls == https_only => use_ssl

\* Of two URLs in a row that agree on http or https, the second is requested
\* over what they agree on: a chain of redirects that changes its scheme once is
\* behind by one request and never by two.
TransportCatchesUp ==
  /\ pc = "request" /\ requests > 0
  /\ parse_url.scheme = previous.scheme /\ parse_url.scheme \in {"http", "https"}
  => (use_ssl <=> parse_url.scheme = "https")

\* Hosts that redirect what is asked in the clear to https, on one of them, and
\* serve what is asked over TLS.
Insisting ==
  UNION {S \in SUBSET Hosts :
           \A r \in Request : r.host \in S => \A a \in Answers[r] :
             IF r.tls THEN a.kind = "body"
             ELSE /\ a.kind = "redirect"
                  /\ a.url \in Url /\ a.url.scheme = "https" /\ a.url.authority \in S}

\* Although the transport lags one redirect behind, a page of such a host is
\* fetched, by the third request at the latest, from an entry with or without
\* a scheme.
UpgradeIsReached ==
  pc = "request" /\ requests = 0 /\ host \in Insisting
    ~> pc = "returned" /\ result = "body" /\ requests <= 3
=============================================================================
