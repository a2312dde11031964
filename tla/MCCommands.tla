----------------------------- MODULE MCCommands -----------------------------
(* Repositories of up to three documents for files, of up to two for diff and
   for list, caches of up to four entries, and two hosts, the name of one of
   which begins with the other's.                                          *)
EXTENDS Commands, TLC

CONSTANTS text, nobody

URL(path, query, fragment) ==
  [scheme |-> "http", host |-> "host", port |-> "", path |-> path,
   query |-> query, fragment |-> fragment]
Root == URL(<<"/">>, <<>>, "")
At(name) == URL(<<"/", name>>, <<>>, "")
Elsewhere(path) == [URL(path, <<>>, "") EXCEPT !.host = "elsewhere"]
Relative(path) == [URL(path, <<>>, "") EXCEPT !.scheme = "", !.host = ""]

(* files: documents whose names collide, or need each other as a directory, or
   lead out of the directory of their origin; ones that have no file; one whose
   Last-Modified is no time.                                               *)
Doc(url, status, type, body) ==
  [url |-> url, status |-> status, type |-> type, body |-> body,
   modified |-> "good", location |-> Root]

MCOutDir == <<<<"out">>>>
\* The directory of another origin.
Neighbour == <<"http", "-", "elsewhere", "-", "80">>

Query == <<[name |-> "x", value |-> "1"]>>
QueryUp == <<[name |-> "x", value |-> "up"]>>
MCRawOf == "1" :> <<"1">> @@ "up" :> <<"/", "..", "/", "a">>

Docs ==
  {Doc(Root, 200, "html", <<text, At("a")>>),
   Doc(URL(<<"/", "index", ".html">>, <<>>, ""), 200, "html", <<text>>),
   Doc(At("a"), 200, "other", <<text, At("a")>>),
   Doc(URL(<<"/", "a", "/", "b">>, <<>>, ""), 200, "css",
       <<Relative(<<"b">>), Elsewhere(<<"/">>),
         [At("c") EXCEPT !.scheme = "HTTP", !.port = "80"]>>),
   Doc(URL(<<"/", "a">>, Query, ""), 200, "html", <<At("c"), text>>),
   Doc(URL(<<"/", "x", "/", "..", "/", "a">>, <<>>, ""), 200, "other", <<text>>),
   Doc(URL(<<"/", "b">>, QueryUp, ""), 200, "other", <<text>>),
   Doc(URL(<<"/", "..", "/">> \o Neighbour, <<>>, ""), 200, "other", <<text>>),
   Doc(URL(<<"/", "..", "/">> \o Neighbour \o <<"/", "b">>, <<>>, ""), 200, "other", <<text>>),
   Doc(URL(<<"/", "..", "/", "..">>, <<>>, ""), 200, "other", <<text>>),
   Doc(URL(<<"/", "..", "/", "..", "/", "a">>, <<>>, ""), 200, "other", <<text>>),
   Doc(Elsewhere(<<"/", ".", "/", "b">>), 200, "css", <<text>>),
   [Doc(At("d"), 200, "html", <<text>>) EXCEPT !.modified = "bad"],
   Doc(At("e"), 200, "bad", <<text>>),
   [Doc(At("a"), 301, "html", <<>>) EXCEPT
      !.location = URL(<<"/", "a", "/">>, <<>>, "")],
   Doc(At("f"), 302, "html", <<>>),
   Doc(At("g"), 404, "html", <<text>>)}

\* A repository holds one document per key.  Three of those of one origin whose
\* names may collide, two of any.
Named ==
  {d \in Docs : d.status = 200 /\ d.type # "bad" /\ d.url.host = "host"
                /\ ".." \notin Range(d.url.path) /\ d.url.query # QueryUp}
MCRepositories ==
  {s \in BoundedSeq(Docs, 2) \cup TupleOf(Named, 3) :
     \A m, n \in DOMAIN s : m # n => Key(s[m].url) # Key(s[n].url)}

Mapping(old, new) == [old |-> old, new |-> new]
MCMappings ==
  {<<>>,
   <<Mapping([Root EXCEPT !.path = <<>>, !.port = "80"], Elsewhere(<<"/", "n", "/">>))>>,
   <<Mapping(At("c"), Elsewhere(<<"/">>)), Mapping(Root, Elsewhere(<<"/", "n">>))>>}

(* diff: two URLs of one key, two of one canonical URL; bodies that differ in
   their line ends, in a line, or are binary; lines that are too long.     *)
Body(lines) == [lines |-> lines, ends |-> "lf", binary |-> FALSE]
Line(s) == Body(<<s>>)
CRLF(b) == [b EXCEPT !.ends = "crlf"]
Binary == [Line("x") EXCEPT !.binary = TRUE]

Entry(url, status, body, headers) ==
  [url |-> url, status |-> status, body |-> body, headers |-> headers]

A == At("a")
SameCanonical == [A EXCEPT !.host = "HOST", !.port = "80"]
SameKey == [A EXCEPT !.fragment = "top"]
B == At("b")

H1 == <<"h">>
EntriesOfA ==
  {Entry(A, 200, Line("x"), H1), Entry(SameCanonical, 200, Line("y"), H1),
   Entry(A, 200, CRLF(Line("x")), H1), Entry(A, 404, Line("x"), H1),
   Entry(SameKey, 404, Binary, H1), Entry(A, 404, Line("y"), <<"other">>),
   Entry(A, 200, Body(<<"x", "long", "y">>), <<"h", "long">>),
   Entry(A, 200, Body(<<"x", "long">>), <<"long", "other">>),
   Entry(A, 200, Body(<<"x", "y">>), <<"h", "other">>)}
EntriesOfB == {Entry(B, 200, Line("x"), H1), Entry(B, 404, Line("x"), <<"other">>)}

Native ==
  {<<>>} \cup {<<x>> : x \in EntriesOfA \cup EntriesOfB}
    \cup {<<x, y>> : x \in EntriesOfA, y \in EntriesOfB}
    \cup {<<y, x>> : x \in EntriesOfA, y \in EntriesOfB}

\* Caches with several entries of one canonical URL.
Caches ==
  {<<Entry(B, 200, Line("x"), H1), Entry(A, 200, Line("x"), H1),
     Entry(SameCanonical, 200, Line("y"), H1)>>,
   <<Entry(A, 404, Line("x"), H1), Entry(A, 404, Line("x"), H1),
     Entry(SameCanonical, 404, Line("x"), H1)>>}

MCPairs == (Native \cup Caches) \X (Native \cup Caches)
MCRank == Canonical(A) :> 1 @@ Canonical(SameKey) :> 2 @@ Canonical(B) :> 3

(* list and show: URLs spelled in every way.                               *)
Spelled(schemes, hosts, ports, paths, queries, fragments) ==
  [scheme : schemes, host : hosts, port : ports, path : paths, query : queries,
   fragment : fragments]

X(value) == [name |-> "x", value |-> value]
Queries == {<<>>, <<X("1"), [name |-> "utm_source", value |-> "1"], X("2")>>}
Held == Spelled({"http", "HTTPS"}, {"host", "HOST"}, {"", "80"}, {<<>>, <<"/", "a">>},
                Queries, {"", "top"})
HeldFirst == {u \in Held : u.scheme = "http" /\ u.host = "host" /\ u.path # <<>>}
HeldSecond == {u \in Held : u.scheme = "http"}

Holding(u, whole) == [url |-> u, whole |-> whole]
MCHoldings ==
  {<<>>} \cup {<<Holding(u, whole)>> : u \in Held, whole \in BOOLEAN}
  \cup {s \in {<<Holding(u, TRUE), Holding(v, whole)>> :
                 u \in HeldFirst, v \in HeldSecond, whole \in BOOLEAN} :
          Key(s[1].url) # Key(s[2].url)}
MCAskedURLs ==
  {[u EXCEPT !.scheme = ""] : u \in {v \in HeldFirst : v.port = ""}}
  \cup {u \in HeldFirst : u.fragment = "top"}

(* scrape: roots, links and addresses spelled in every way.                *)
Y == [name |-> "y", value |-> "1"]
Tracked == [name |-> "utm_source", value |-> "1"]
MCParameterOrder == <<"x", "y">>
MCRequests ==
  Spelled({"http", "HTTP", "https"}, {"host", "HOST", "host.other"}, {"", "80", "443"},
          {<<>>, <<"/">>, <<"/", "a">>, <<"/", "a", "b">>, <<"/", "a", "/", "b">>},
          {<<>>}, {""})
  \cup Spelled({"http"}, {"host"}, {""}, {<<>>, <<"/", "a">>, <<"/", "a", "b">>},
               {<<X("1")>>, <<X("12")>>, <<Tracked>>, <<Y, X("1")>>,
                <<X("1"), Tracked, X("2")>>}, {""})
GivenRoots ==
  {u \in MCRequests : u.scheme = "http" \/ u.path = <<>>}
  \cup {Relative(<<"host", "/">>), [Relative(<<>>) EXCEPT !.host = "host"]}
MCRootLists ==
  {<<>>, <<At("a"), [Elsewhere(<<>>) EXCEPT !.scheme = "https", !.host = "host.other"]>>}
  \cup {<<u>> : u \in GivenRoots}

Addr(host, port) == [host |-> host, port |-> port]
Remap(from, to) == [from |-> from, to |-> to]
MCRemaps ==
  {<<>>, <<Remap(Addr("HOST", "80"), Addr("new", "80"))>>,
   <<Remap(Addr("host", "443"), Addr("new", "443")),
     Remap(Addr("host", "80"), Addr("new", "80")),
     Remap(Addr("host", "80"), Addr("newer", "8080"))>>}
MCLabelsOf ==
  "host" :> <<"host">> @@ "HOST" :> <<"HOST">> @@ "host.other" :> <<"host", ".other">>
  @@ "1" :> <<"1">> @@ "2" :> <<"2">> @@ "12" :> <<"1", "2">>

(* list and show of httrack: entries of every kind, and more plain ones.   *)
MCMinOffset == -8
Piece(name) == [cell |-> "text", text |-> name]
Byte == Piece("d")
\* The unit of data of a body that is itself an empty archive.
Enclosed == [cell |-> "end", records |-> 0, size |-> 0, offset |-> 0, commentLen |-> 0]
Resp(parses, xSize, size, inCache) ==
  [cell |-> "response", parses |-> parses, xSize |-> xSize, size |-> size,
   inCache |-> inCache]
Kept(size) == Resp(TRUE, "number", size, "1")
Item(url, response, body, method) ==
  [url |-> url, response |-> response, body |-> body, method |-> method]

Responses ==
  {Kept(0), Kept(1), Kept(-1), Resp(FALSE, "", 0, "1"), Resp(TRUE, "", 0, ""),
   Resp(TRUE, "other", 0, "1"), Resp(TRUE, "number", 2, "0"), Resp(TRUE, "", 0, "other")}

RichItems ==
  {Item(url, response, body, method) :
     url \in {"u", "v"}, response \in Responses, body \in {<<>>, <<Byte>>},
     method \in {"Store", "Deflate"}}
  \cup {Item("u", Kept(1), <<Byte>>, "other"), Item("v", Kept(1), <<Enclosed>>, "Store"),
        Item("v", Kept(2), <<Byte, Byte>>, "Deflate")}
PlainItems ==
  {Item(url, Kept(1), <<Byte>>, "Store") : url \in {"u", "v"}}
  \cup {Item("v", Kept(0), <<>>, "Store")}

MCStored ==
  {<<>>} \cup {<<x>> : x \in RichItems}
  \cup {<<x, y>> : x \in RichItems, y \in PlainItems}
  \cup {<<x, y, z>> : x, y, z \in PlainItems} \cup {<<x, x, y, y>> : x, y \in PlainItems}

\* Damage that is still read as something: another response, the name of another
\* URL, other data, and records with other numbers.
MCBlots ==
  {Kept(1), Resp(TRUE, "other", 0, "0"), Piece("u"), Piece("v"), Byte, Enclosed,
   [cell |-> "deflated", content |-> <<Byte>>],
   [cell |-> "local", method |-> "Store", nameLen |-> 0, extraLen |-> 1],
   [cell |-> "central", method |-> "Store", utf8 |-> FALSE, descriptor |-> FALSE, dos |-> 1,
    crc |-> <<>>, csize |-> 1, usize |-> 1, nameLen |-> 1, extraLen |-> 0, commentLen |-> 0,
    offset |-> 0]}
=============================================================================
