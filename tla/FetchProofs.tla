---------------------------- MODULE FetchProofs ----------------------------
(***************************************************************************)
(* Proofs about Fetch, for every web and every configured port.            *)
(***************************************************************************)
EXTENDS Fetch, TLAPS

USE FetchAssumption

\* What is true of the transport between two responses: `scheme` is that of
\* the URL being located or requested once Locate has run, and no chain of
\* https URLs has left TLS.
TransportInv ==
  /\ TypeOK
  /\ TlsOnPort443
  /\ HttpsStaysOnTls
  /\ pc \in {"locate", "request"} =>
       /\ https_only => parse_url.scheme = "https"
       /\ requests > 0 => /\ previous.scheme = "https" => use_ssl
                          /\ previous.scheme = "http" => ~use_ssl
  /\ pc = "request" => scheme = parse_url.scheme
  /\ pc = "parse" => requests = 0

LEMMA TypeStep ==
  ASSUME TypeOK, [Next]_vars
  PROVE  TypeOK'
<1>1. CASE Parse
  BY <1>1 DEF TypeOK, Parse, Throw, Url
<1>2. CASE Locate
  BY <1>2 DEF TypeOK, Locate, Throw, Url
<1>3. CASE Respond
  <2>1. [host |-> host, target |-> target, tls |-> use_ssl] \in Request
    BY DEF TypeOK, Request
  <2>2. PICK a \in Answer :
          \/ a.kind = "redirect" /\ Redirect(a.url) /\ UNCHANGED result
          \/ /\ a.kind \in {"body", "none"}
             /\ pc' = "returned"
             /\ result' = IF a.kind = "body" THEN "body" ELSE ""
             /\ UNCHANGED <<parse_url, use_ssl, port, previous, https_only>>
          \/ /\ a.kind = "fail" /\ Throw
             /\ UNCHANGED <<parse_url, use_ssl, port, result, previous,
                            https_only>>
    BY <1>3, <2>1 DEF Respond
  <2>3. requests' \in 0 .. Patience /\ UNCHANGED <<scheme, host, target>>
    <3>1. requests \in 0 .. Patience /\ Patience \in Nat
      BY DEF TypeOK
    <3>2. requests' = IF requests < Patience THEN requests + 1 ELSE requests
      BY <1>3, Zenon DEF Respond
    <3>3. UNCHANGED <<scheme, host, target>>
      BY <1>3, Zenon DEF Respond
    <3> QED
      BY <3>1, <3>2, <3>3
  <2>4. CASE a.kind = "redirect"
    <3>1. a.url \in Url \cup {Malformed}
      BY <2>4 DEF Answer
    <3>2. Redirect(a.url) /\ result' = result
      BY <2>2, <2>4
    <3> QED
      BY <1>3, <2>3, <3>1, <3>2
         DEF TypeOK, Redirect, Throw, Transport
  <2>5. CASE a.kind # "redirect"
    BY <2>2, <2>3, <2>5 DEF TypeOK, Throw
  <2> QED
    BY <2>4, <2>5
<1>4. CASE UNCHANGED vars
  BY <1>4 DEF TypeOK, vars
<1> QED
  BY <1>1, <1>2, <1>3, <1>4 DEF Next

LEMMA TransportStep ==
  ASSUME TransportInv, [Next]_vars
  PROVE  TransportInv'
<1>1. TypeOK /\ TypeOK'
  BY TypeStep DEF TransportInv
<1>2. CASE Parse
  <2>1. CASE parse_url = Malformed
    BY <1>1, <1>2, <2>1
       DEF TransportInv, TypeOK, TlsOnPort443, HttpsStaysOnTls, Parse, Throw
  <2>2. CASE parse_url # Malformed
    <3>1. /\ use_ssl' <=> (port = "443" \/ parse_url.scheme = "https")
          /\ port' = IF parse_url.scheme = "https" THEN "443" ELSE port
          /\ https_only' <=> parse_url.scheme = "https"
          /\ pc' = "locate" /\ parse_url' = parse_url
      BY <1>2, <2>2, Zenon DEF Parse
    <3>2. requests' = 0
      BY <1>2, <1>1 DEF Parse, TransportInv
    <3>3. TlsOnPort443'
      BY <3>1 DEF TlsOnPort443
    <3>4. HttpsStaysOnTls'
      BY <3>1 DEF HttpsStaysOnTls
    <3> QED
      BY <1>1, <3>1, <3>2, <3>3, <3>4 DEF TransportInv
  <2> QED
    BY <2>1, <2>2
<1>3. CASE Locate
  BY <1>1, <1>3
     DEF TransportInv, TypeOK, TlsOnPort443, HttpsStaysOnTls, Locate, Throw
<1>4. CASE Respond
  <2>1. pc = "request"
    BY <1>4 DEF Respond
  <2>2. ASSUME NEW u \in Url, Redirect(u) PROVE TransportInv'
    <3>1. scheme = parse_url.scheme /\ TlsOnPort443 /\ HttpsStaysOnTls
      BY <2>1 DEF TransportInv
    <3>2. https_only => parse_url.scheme = "https"
      BY <2>1 DEF TransportInv
    <3>3. /\ pc' = "locate" /\ parse_url' = u /\ previous' = parse_url
          /\ Transport(scheme)
          /\ https_only' <=> https_only /\ u.scheme = "https"
      BY <2>2, Zenon DEF Redirect
    <3>4. /\ previous'.scheme = "https" => use_ssl'
          /\ previous'.scheme = "http" => ~use_ssl'
      BY <3>1, <3>3 DEF Transport
    <3>5. use_ssl' <=> port' = "443"
      BY <2>1, <3>1, <3>3 DEF Transport, TlsOnPort443
    <3>6. https_only' => use_ssl' /\ parse_url'.scheme = "https"
      BY <3>1, <3>2, <3>3 DEF Transport
    <3> QED
      BY <1>1, <3>3, <3>4, <3>5, <3>6
         DEF TransportInv, TlsOnPort443, HttpsStaysOnTls
  <2>3. CASE /\ pc' \in {"returned", "threw"}
             /\ UNCHANGED <<use_ssl, https_only>>
    BY <1>1, <2>3 DEF TransportInv, TlsOnPort443, HttpsStaysOnTls
  <2> QED
    <3>1. PICK a \in Answer :
            \/ Redirect(a.url) /\ a.kind = "redirect"
            \/ /\ pc' \in {"returned", "threw"}
               /\ UNCHANGED <<use_ssl, https_only>>
      <4>1. [host |-> host, target |-> target, tls |-> use_ssl] \in Request
        BY <1>1 DEF TypeOK, Request
      <4> QED
        BY <1>4, <4>1 DEF Respond, Throw
    <3>2. a.kind = "redirect" => a.url \in Url \cup {Malformed}
      BY DEF Answer
    <3> QED
      BY <2>2, <2>3, <3>1, <3>2 DEF Redirect, Throw
<1>5. CASE UNCHANGED vars
  BY <1>1, <1>5 DEF TransportInv, TlsOnPort443, HttpsStaysOnTls, vars
<1> QED
  BY <1>2, <1>3, <1>4, <1>5 DEF Next

LEMMA TransportInit ==
  ASSUME Init
  PROVE  TransportInv
<1>1. TypeOK
  <2>1. parse_url \in Url \cup {Malformed}
    BY DEF Init
  <2>2. NoScheme \in Schemes /\ 0 \in 0 .. Patience
    OBVIOUS
  <2> QED
    BY <2>1, <2>2 DEF Init, TypeOK
<1> QED
  BY <1>1 DEF Init, TransportInv, TlsOnPort443, HttpsStaysOnTls

\* TransportInv holds in every reachable state of a fetch.
THEOREM Invariance == Spec => []TransportInv
<1>1. Init => TransportInv
  BY TransportInit
<1>2. TransportInv /\ [Next]_vars => TransportInv'
  BY TransportStep
<1> QED
  BY <1>1, <1>2, PTL DEF Spec

\* Only URLs are located and requested, and every variable keeps its type.
THEOREM FetchTyped == Spec => []TypeOK
<1>1. TransportInv => TypeOK
  BY DEF TransportInv
<1> QED
  BY <1>1, Invariance, PTL

\* Every request is made over TLS to port 443 or in the clear to another port.
THEOREM TlsMeansPort443 == Spec => []TlsOnPort443
<1>1. TransportInv => TlsOnPort443
  BY DEF TransportInv
<1> QED
  BY <1>1, Invariance, PTL

\* A chain of https URLs never leaves TLS.
THEOREM HttpsNeverInTheClear == Spec => []HttpsStaysOnTls
<1>1. TransportInv => HttpsStaysOnTls
  BY DEF TransportInv
<1> QED
  BY <1>1, Invariance, PTL

\* However often a chain of redirects changes its scheme, and wherever it leads,
\* two URLs of one scheme in a row are enough for the transport to be theirs.
THEOREM TransportNeverTwoBehind == Spec => []TransportCatchesUp
<1>1. TransportInv => TransportCatchesUp
  BY DEF TransportInv, TypeOK, TransportCatchesUp
<1> QED
  BY <1>1, Invariance, PTL
=============================================================================
