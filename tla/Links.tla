------------------------------- MODULE Links -------------------------------
(***************************************************************************)
(* From the text of a page to its links (SearchAndClearUrl), from a link   *)
(* to an entry of the queue, and from the entry to the host and target of  *)
(* the next request (the head of HandleUrl), along one path of the crawl.  *)
(*                                                                         *)
(* Text is a sequence of the characters and strings the code tells apart.  *)
(* Crawl takes what a link leads to as given, and Fetch how an entry is    *)
(* parsed; here both are computed.  Redirects are Fetch's, and so is what  *)
(* of a host and a target gets an answer.  No character stands for '@',    *)
(* '[' or ']' (URLs with a user or with an IP literal), nor for an escape  *)
(* of what a URL may contain as it is, such as %2F; a path has no segment  *)
(* '.' or '..'.                                                            *)
(***************************************************************************)
EXTENDS Integers, Sequences, FiniteSets

CONSTANTS
  Open, Quote,               \* <a href=" and "
  Http, Colon, Slash,        \* "http" or "https", ':' and '/'
  Hash, Question,            \* '#' and '?'
  Raw,                       \* what no URL may contain: a space, a letter that is not
                             \* ASCII, a '%' without two digits behind it
  Esc,                       \* the same, percent-encoded
  Letter, Digit,
  Dot,                       \* '.', '-' and '+': in a scheme, but not its first character
  Symbol,                    \* '_', '~' and others: never in a scheme
  Starts,                    \* start_url, with Raw for a '"' and a '<' in it
  Pages,                     \* what pages contain
  Depth                      \* bound on the levels of one path

Marks == <<Open, Quote, Http, Colon, Slash, Hash, Question, Raw, Esc>>
Char == Letter \cup Digit \cup Dot \cup Symbol \cup {Marks[m] : m \in 1 .. Len(Marks)}

ASSUME LinksAssumption ==
  /\ \A m, n \in 1 .. Len(Marks) : Marks[m] = Marks[n] => m = n
  /\ Starts \subseteq Seq(Char \ {Open, Quote}) /\ Pages \subseteq Seq(Char)
  /\ Depth \in Nat

VARIABLES
  pc,            \* "fetch", "scan", "next" or "thrown"
  entry,         \* the parameter url of HandleUrl
  host, target,  \* what it makes of it
  text,          \* history: the page
  url_str,       \* what is left of it
  url_list,      \* what the page pushed: each entry, with the link it is made of
  seen,          \* history: every link that was found
  from,          \* history: the page, and the link, that entry comes from
  level

vars == <<pc, entry, host, target, text, url_str, url_list, seen, from, level>>

Init ==
  /\ pc = "fetch"
  /\ entry \in Starts
  /\ host = <<>> /\ target = <<>>
  /\ text = <<>> /\ url_str = <<>> /\ url_list = <<>> /\ seen = <<>>
  /\ from = [host |-> <<>>, target |-> <<>>, link |-> <<>>]
  /\ level = 0

-----------------------------------------------------------------------------
Has(s, c) == \E k \in 1 .. Len(s) : s[k] = c

\* The first place of one of the characters in s, or the one behind s.
First(s, cs) ==
  CHOOSE n \in 1 .. Len(s) + 1 : /\ \A k \in 1 .. n - 1 : s[k] \notin cs
                                 /\ n <= Len(s) => s[n] \in cs

UpTo(s, cs) == SubSeq(s, 1, First(s, cs) - 1)
Behind(s, n) == SubSeq(s, n + 1, Len(s))
StartsWith(s, t) == Len(t) <= Len(s) /\ SubSeq(s, 1, Len(t)) = t
Decoded(s) == [k \in 1 .. Len(s) |-> IF s[k] = Esc THEN Raw ELSE s[k]]

All(s, cs) == \A k \in 1 .. Len(s) : s[k] \in cs

\* boost::url: a scheme is what precedes a ':' in the first segment, an
\* authority what follows '//', a name and perhaps ':' and a port.
HasScheme(e) == LET n == First(e, {Colon, Slash, Question, Hash})
                IN  n <= Len(e) /\ e[n] = Colon
Scheme(e) == UpTo(e, {Colon})
Hier(e) == IF HasScheme(e) THEN Behind(e, First(e, {Colon})) ELSE e
Authority(e) == IF StartsWith(Hier(e), <<Slash, Slash>>)
                THEN UpTo(Behind(Hier(e), 2), {Slash, Question, Hash}) ELSE <<>>
Name(e) == UpTo(Authority(e), {Colon})
Port(e) == Behind(Authority(e), Len(Name(e)) + 1)

\* What its constructor does not throw on; a '#' begins the fragment, where no
\* other '#' may be.
Parses(e) ==
  /\ ~Has(e, Raw)
  /\ HasScheme(e) => /\ All(Scheme(e), Letter \cup {Http} \cup Digit \cup Dot)
                     /\ Scheme(e) # <<>> /\ Scheme(e)[1] \in Letter \cup {Http}
  /\ All(Port(e), Digit)
  /\ ~Has(Behind(e, First(e, {Hash})), Hash)

\* Mutant: the target with its query.
PathWithQuery(e) ==
  Decoded(UpTo(IF StartsWith(Hier(e), <<Slash, Slash>>)
               THEN Behind(Hier(e), 2 + Len(Authority(e))) ELSE Hier(e), {Hash}))

\* path(): without the query and the fragment, and decoded.
Path(e) ==
  Decoded(UpTo(IF StartsWith(Hier(e), <<Slash, Slash>>)
               THEN Behind(Hier(e), 2 + Len(Authority(e))) ELSE Hier(e), {Question, Hash}))

\* Lines 37-48; without a name and a '/', substr(npos) throws.
Locates(e) == Parses(e) /\ (Name(e) # <<>> \/ Has(Path(e), Slash))
HostOf(e) == IF Name(e) # <<>> THEN Decoded(Name(e)) ELSE UpTo(Path(e), {Slash})
TargetOf(e) == IF Name(e) # <<>> THEN Path(e)
               ELSE Behind(Path(e), Len(HostOf(e)))

\* HandleUrl, up to the first request, and the body it returns.
HandleUrl ==
  /\ pc = "fetch"
  /\ Locates(entry)
  /\ host' = HostOf(entry) /\ target' = TargetOf(entry)
  /\ text' \in Pages /\ url_str' = text'
  /\ url_list' = <<>> /\ seen' = <<>>
  /\ pc' = "scan"
  /\ UNCHANGED <<entry, from, level>>

HandleUrlThrows ==
  /\ pc = "fetch"
  /\ ~Locates(entry)
  /\ pc' = "thrown"
  /\ UNCHANGED <<entry, host, target, text, url_str, url_list, seen, from, level>>

-----------------------------------------------------------------------------
\* A link ends at the next '"', which may be the one of another <a href=" .
LinkAt(s, o) ==
  LET n == First(Behind(s, o), {Quote, Open})
  IN  SubSeq(s, o + 1, o + n - 1) \o (IF s[o + n] = Open THEN <<Raw>> ELSE <<>>)

Matches == First(Behind(url_str, First(url_str, {Open})), {Quote, Open})
             <= Len(url_str) - First(url_str, {Open})

Absolute(link) == StartsWith(link, <<Http, Colon, Slash, Slash>>)

\* Mutant: the target of the page is forgotten.
EntryWithoutTarget(h, t, link) ==
  IF Has(link, Hash) THEN IF link[1] = Hash THEN <<>> ELSE <<h \o UpTo(link, {Hash})>>
  ELSE IF StartsWith(link, <<Slash>>) THEN <<h \o link>>
  ELSE IF Absolute(link) THEN <<link>>
  ELSE <<>>

\* What is pushed for a link, if anything, on a page of host h and target t.
Entry(h, t, link) ==
  IF Has(link, Hash) THEN IF link[1] = Hash THEN <<>> ELSE <<h \o t \o UpTo(link, {Hash})>>
  ELSE IF StartsWith(link, <<Slash>>) THEN <<h \o link>>
  ELSE IF Absolute(link) THEN <<link>>
  ELSE <<>>

\* Mutant: the search goes on one character later.
SuffixLater(n) == Behind(url_str, n + 1)

\* resRegex.suffix()
Suffix(n) == Behind(url_str, n)

\* One round of the loop of SearchAndClearUrl.
NextLink ==
  LET o == First(url_str, {Open})
      link == LinkAt(url_str, o)
      pushed == Entry(host, target, link)
  IN  /\ pc = "scan"
      /\ Matches
      /\ seen' = Append(seen, link)
      /\ url_list' = url_list \o [k \in 1 .. Len(pushed) |->
                                    [link |-> link, entry |-> pushed[k]]]
      /\ url_str' = Suffix(o + First(Behind(url_str, o), {Quote, Open}))
      /\ UNCHANGED <<pc, entry, host, target, text, from, level>>

EndScan ==
  /\ pc = "scan"
  /\ ~Matches
  /\ pc' = "next"
  /\ UNCHANGED <<entry, host, target, text, url_str, url_list, seen, from, level>>

\* One of the entries is popped on the next level.
Pop ==
  /\ pc = "next" /\ level < Depth
  /\ \E k \in 1 .. Len(url_list) :
       /\ entry' = url_list[k].entry
       /\ from' = [host |-> host, target |-> target, link |-> url_list[k].link]
  /\ level' = level + 1
  /\ pc' = "fetch"
  /\ UNCHANGED <<host, target, text, url_str, url_list, seen>>

\* Mutant: the result is linked as it was indexed.
ResultLinkAsIs(e) == e

\* send_url_to_html: what the browser is given for an entry that is found.
ResultLink(e) == <<Http, Colon, Slash, Slash>> \o e

\* What a browser asks for when it follows r: the name up to the ':' of a port,
\* and all that follows the authority but the fragment, as it is written.  A
\* link that is not absolute leads to the search server itself.
BrowserHost(r) ==
  IF Absolute(r) THEN UpTo(Behind(r, 4), {Colon, Slash, Question, Hash}) ELSE <<>>
BrowserTarget(r) ==
  LET t == UpTo(Behind(r, 3 + First(Behind(r, 4), {Slash, Question, Hash})), {Hash})
  IN  IF StartsWith(t, <<Slash>>) THEN t ELSE <<Slash>> \o t

Next == HandleUrl \/ HandleUrlThrows \/ NextLink \/ EndScan \/ Pop

Spec == Init /\ [][Next]_vars

-----------------------------------------------------------------------------
(***************************************************************************)
(* Properties.                                                             *)
(***************************************************************************)

\* Every variable keeps its type; a target begins with a '/' or is empty, and
\* has no query and no fragment: entries that differ in these are one request.
TypeOK ==
  /\ pc \in {"fetch", "scan", "next", "thrown"}
  /\ {entry, host, text, url_str} \subseteq Seq(Char)
  /\ target \in Seq(Char \ {Question, Hash, Esc})
  /\ target = <<>> \/ target[1] = Slash
  /\ url_list \in Seq([link : Seq(Char), entry : Seq(Char)])
  /\ seen \in Seq(Seq(Char))
  /\ from \in [host : Seq(Char), target : Seq(Char), link : Seq(Char)]
  /\ level \in 0 .. Depth

\* The places of <a href=" that begin a link: an even number of others since
\* the last '"' (every second one ends the link before), and an end in sight.
LinkStarts ==
  {p \in 1 .. Len(text) :
     LET last == CHOOSE q \in 0 .. p - 1 :
                   /\ q = 0 \/ text[q] = Quote
                   /\ \A k \in q + 1 .. p - 1 : text[k] # Quote
     IN  /\ text[p] = Open
         /\ Cardinality({k \in last + 1 .. p - 1 : text[k] = Open}) % 2 = 0
         /\ \E k \in p + 1 .. Len(text) : text[k] \in {Quote, Open}}

\* The loop over the suffixes finds every link of the page once, in the order
\* of the page, and nothing else.
EveryLinkOnce ==
  pc = "next" =>
    /\ Len(seen) = Cardinality(LinkStarts)
    /\ \A p \in LinkStarts :
         seen[Cardinality({q \in LinkStarts : q <= p})] = LinkAt(text, p)

\* A page that was requested from a host by a target.  A link on a page without
\* a target can make one of a scheme and a host with a ':' in it, for which
\* nothing of what follows holds.
Placed == host # <<>> /\ target # <<>> /\ ~Has(host, Colon)

\* A link without a scheme, on a page that has its place, is fetched from the
\* host of the page, also if it begins with '//', or it ends the program.
StaysOnHost ==
  pc # "fetch" /\ Placed => \A k \in 1 .. Len(url_list) :
    LET e == url_list[k] IN
      ~Absolute(e.link) /\ Locates(e.entry) => HostOf(e.entry) = host

\* A browser that follows a result of a search asks for the host and the target
\* that were fetched for it, unless the entry was pushed with its scheme, has a
\* query, or has an escape: then for something else.
ResultsLeadThere ==
  pc # "fetch" /\ Placed => \A k \in 1 .. Len(url_list) :
    LET e == url_list[k].entry
        r == ResultLink(e)
    IN  Locates(e) =>
          (BrowserHost(r) = HostOf(e) /\ BrowserTarget(r) = TargetOf(e)
             <=> ~Absolute(e) /\ ~Has(e, Question) /\ ~Has(e, Esc))

\* A URL of a scheme and no name, or with a port that is no number.
NoPeer(e) == Absolute(e) /\ (Name(e) = <<>> \/ ~All(Port(e), Digit))

\* Why an entry ends the program.  A link of a page, a level later: a character
\* in it that belongs percent-encoded; one that stood encoded in the URL of the
\* page and was decoded for its host or target; a host or a target that was
\* empty, or a host with a ':'; or a link that names no peer.  start_url, at
\* once: such a character, a second '#', no peer, or, without "http://", no
\* name with a '/' right behind it.
EndsForAReason ==
  /\ pc = "thrown" /\ level > 0 =>
       \/ Has(from.link, Raw)
       \/ Has(from.host, Raw) \/ Has(from.target, Raw)
       \/ from.target = <<>> \/ from.host = <<>> \/ Has(from.host, Colon)
       \/ NoPeer(from.link)
  /\ pc = "thrown" /\ level = 0 =>
       LET n == First(entry, {Colon, Slash, Question, Hash})
       IN  \/ Has(entry, Raw) \/ Has(Behind(entry, First(entry, {Hash})), Hash)
           \/ NoPeer(entry)
           \/ ~Absolute(entry) /\ (n = 1 \/ n > Len(entry) \/ entry[n] # Slash)

-----------------------------------------------------------------------------
(***************************************************************************)
(* What the properties rest on: the conjuncts that make them inductive.    *)
(***************************************************************************)

\* A host is all of one segment, and what was pushed is what the host and the
\* target of the page make of the link, also when it has been popped.
LinksInv ==
  /\ TypeOK
  /\ \A k \in 1 .. Len(host) : host[k] \notin {Slash, Question, Hash, Esc}
  /\ \A k \in 1 .. Len(url_list) :
       Entry(host, target, url_list[k].link) = <<url_list[k].entry>>
  /\ pc \in {"fetch", "thrown"} /\ level > 0 =>
       /\ from.host = host /\ from.target = target
       /\ Entry(host, target, from.link) = <<entry>>
  /\ pc = "thrown" => ~Locates(entry)

\* The <a href=" of the first c characters that no '"' follows there.
OpenSince(c) ==
  {k \in 1 .. c : text[k] = Open /\ \A q \in k .. c : text[q] # Quote}

\* The first c characters of the page are behind the loop, and each link that
\* begins there has been found; what follows is at no link's inside.
ScanInv ==
  pc \in {"scan", "next"} =>
    \E c \in 0 .. Len(text) :
      /\ url_str = Behind(text, c)
      /\ Cardinality(OpenSince(c)) % 2 = 0
      /\ Len(seen) = Cardinality({p \in LinkStarts : p <= c})
      /\ \A p \in LinkStarts : p <= c =>
           seen[Cardinality({q \in LinkStarts : q <= p})] = LinkAt(text, p)
      /\ pc = "next" => \A p \in LinkStarts : p <= c
=============================================================================
