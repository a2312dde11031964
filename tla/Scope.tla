-------------------------------- MODULE Scope --------------------------------
(***************************************************************************)
(* What the command scrape makes of its flags (doScrape in main.go): which *)
(* URLs are followed (allow-root), how a request is sent (strip-https) and *)
(* where a connection leads (remap-address).  The crawl itself is module   *)
(* Scraper, for which FollowURL is a constant.                             *)
(*                                                                         *)
(* Roots and URLs are compared as strings: the prefix of a host's name may *)
(* be the whole name of another host, that of a parameter's value another  *)
(* value.                                                                  *)
(***************************************************************************)
EXTENDS URLs, FiniteSetsExt

CONSTANTS
  RootLists,    \* sequences of the URLs given as allow-root
  Remaps,       \* sequences of [from, to], the addresses given as remap-address
  Requests,     \* the URLs that come up
  LabelsOf,     \* the name of each host, or the value of each parameter, as a
                \* sequence of pieces
  ParameterOrder  \* the names of the parameters, sorted

VARIABLES
  roots, remaps, strip,   \* the flags
  request,      \* the URL that a link leads to, <<>> before there is one
  wire          \* what is sent: <<[scheme, to]>>, <<>> if it is not followed

vars == <<roots, remaps, strip, request, wire>>

Init ==
  /\ roots \in RootLists
  /\ remaps \in Remaps
  /\ strip \in BOOLEAN
  /\ request = <<>>
  /\ wire = <<>>

\* The name of a host and a port, as they are written in a URL.
HostPort(u) ==
  LabelsOf[u.host] \o (IF u.port = "" THEN <<>> ELSE <<":", u.port>>)

\* The parameters of a key: each value has its name, and the names are sorted.
QueryString(query) ==
  LET values(name) == IF name \in DOMAIN query THEN query[name] ELSE <<>>
      named(name, given) ==
        FlattenSeq([n \in DOMAIN given |-> <<"&", name, "=">> \o LabelsOf[given[n]]])
      all == FlattenSeq([k \in DOMAIN ParameterOrder |->
                          named(ParameterOrder[k], values(ParameterOrder[k]))])
  IN  IF all = <<>> THEN <<>> ELSE <<"?">> \o Tail(all)

Rest(u) == u.path \o QueryString(u.query)

\* URL.String of a key, piece by piece.
String(u) ==
  (IF u.scheme = "" THEN <<>> ELSE <<u.scheme, ":">>)
  \o (IF u.host = "" THEN <<>> ELSE <<"//">> \o HostPort(u))
  \o Rest(u)

\* Mutant: the site and the path of the root are compared as they were given.
FollowURLAsGiven(u) ==
  \E n \in DOMAIN roots :
    IsPrefix(String([roots[n] EXCEPT !.query = Parameters(@)]), String(Key(u)))

\* FollowURL: the key of the URL begins with the key of a root.
FollowURL(u) ==
  \E n \in DOMAIN roots : IsPrefix(String(Key(roots[n])), String(Key(u)))

\* strip-https sends the request of an https URL in plain text.  The response
\* still names the request that was made, so documents keep their https URLs.
Sent(u) ==
  IF strip /\ Lower(u.scheme) = "https" THEN [u EXCEPT !.scheme = "http"] ELSE u

\* The address that the transport connects to, and where the connection leads:
\* remap-address does not tell spellings apart, and the last of several counts.
Address(u) ==
  [host |-> u.host, port |-> IF u.port = "" THEN DefaultPort(Lower(u.scheme)) ELSE u.port]

LowerAddress(a) == [a EXCEPT !.host = Lower(@)]

\* Mutant: spellings are told apart.
DialledAsSpelled(address) ==
  LET given == {n \in DOMAIN remaps : remaps[n].from = address}
  IN  IF given = {} THEN LowerAddress(address) ELSE remaps[Max(given)].to

Dialled(address) ==
  LET given == {n \in DOMAIN remaps : LowerAddress(remaps[n].from) = LowerAddress(address)}
  IN  IF given = {} THEN LowerAddress(address) ELSE remaps[Max(given)].to

Exchange(u) == [scheme |-> Lower(Sent(u).scheme), to |-> Dialled(Address(Sent(u)))]

\* A link leads to a URL, which is requested if it is to be followed.
Link(u) ==
  /\ request = <<>>
  /\ request' = <<u>>
  /\ wire' = IF FollowURL(u) THEN <<Exchange(u)>> ELSE <<>>
  /\ UNCHANGED <<roots, remaps, strip>>

Next == \E u \in Requests : Link(u)
Spec == Init /\ [][Next]_vars

-----------------------------------------------------------------------------
(* Properties.                                                             *)

Origin(u) ==
  LET c == Canonical(u) IN <<c.scheme, c.host, c.port>>

\* A root with parameters, other than those for tracking, is the beginning only
\* of URLs of its own path.
Under(root, u) ==
  LET query == QueryString(Key(root).query)
  IN  IF query = <<>> THEN IsPrefix(Key(root).path, Key(u).path)
      ELSE Key(root).path = Key(u).path /\ IsPrefix(query, QueryString(Key(u).query))

\* "URL prefixes to allow" (main.go:47): a prefix that names a host never lets
\* the crawl onto another host, port or scheme, however the prefix and the links
\* are spelled; and every URL whose path begins with the path of a root is
\* allowed, if the root has no parameters, and otherwise those of its path whose
\* sorted parameters begin with the root's (main.go:164-172, 218-226).
FollowedIsUnderRoot ==
  request # <<>> =>
    LET u == request[1]
        near == {n \in DOMAIN roots : Origin(roots[n]) = Origin(u)}
    IN  wire # <<>> <=> \E n \in near : Under(roots[n], u)

\* Which of the URLs of one document comes up first does not decide which server
\* it is asked of, nor how (main.go:189-206, 237-253).  With strip-https this is
\* not so of an https URL that names its port: the request goes to port 443 in
\* plain text.
OneServerPerKey ==
  request # <<>> /\ wire # <<>> =>
    \A v \in Requests :
      /\ Key(v) = Key(request[1])
      /\ strip => {v.port, request[1].port} \cap {"443"} = {}
      => Exchange(v) = wire[1]
=============================================================================
