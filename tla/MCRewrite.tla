------------------------------ MODULE MCRewrite ------------------------------
(* Pages of up to three elements, cut short anywhere; stylesheets of up to four
   tokens; strings of up to three runes.                                   *)
EXTENDS Rewrite, TLC

CONSTANTS keep, change, refuse

MCAnswer ==
  keep :> "same" @@ change :> "new" @@ refuse :> "error" @@ NoURL :> "new"
MCHandlers == {<<"a", "href">>, <<"img", "srcset">>}

Tok(type, name, urls) ==
  [type |-> type, name |-> name, urls |-> urls, ok |-> TRUE, og |-> FALSE]
Open(name) == Tok("start", name, <<>>)
Attr(name, urls) == Tok("attr", name, urls)
Close == Tok("close", "", <<>>)
Void == Tok("void", "", <<>>)
End(name) == Tok("end", name, <<>>)
Text(urls) == Tok("text", "", urls)
OG == [Attr("property", <<>>) EXCEPT !.og = TRUE]
Unclosed(t) == [t EXCEPT !.ok = FALSE]

\* A link that stays, changes, is refused; bases, one of them ""; refresh and OpenGraph tags
\* with their attributes in either order, both at once, and malformed; style
\* elements with and without text.
Elements ==
  {<<Open("a"), Attr("title", <<>>), Attr("href", <<change>>), Close>>,
   <<Open("img"), Attr("srcset", <<keep, change>>), Attr("style", <<keep>>), Void>>,
   <<Open("a"), Attr("href", <<refuse>>), Close>>,
   <<Open("base"), Attr("href", <<keep>>), Close>>,
   <<Open("base"), Attr("href", <<NoURL>>), Void>>,
   <<Open("base"), Attr("href", <<change>>), Attr("style", <<keep>>), Close>>,
   <<Open("meta"), Attr("content", <<keep>>), Attr("http-equiv", <<>>), Close>>,
   <<Open("meta"), OG, Attr("content", <<change>>), Void>>,
   <<Open("meta"), OG, Attr("content", <<keep>>), Attr("itemprop", <<>>), Close>>,
   <<Open("meta"), OG, Attr("http-equiv", <<>>), Attr("content", <<keep>>), Close>>,
   <<Open("meta"), Unclosed(OG), Close>>,
   <<Open("style"), Close, Text(<<keep, refuse, keep>>), End("style")>>,
   <<Open("style"), Void, Text(<<>>)>>,
   <<Open("style"), Close, End("style"), Text(<<>>)>>,
   <<Open("style"), Close, Text(<<change>>), End("style")>>}

Pages == {FlattenSeq(s) : s \in BoundedSeq(Elements, 3)}
MCDocuments == UNION {{SubSeq(p, 1, n) : n \in 0 .. Len(p)} : p \in Pages}

\* URLs that stay, change, are refused and cannot be unquoted.
Plain(type) == [type |-> type, answer |-> "same", quoted |-> TRUE]
Link(type, answer) == [type |-> type, answer |-> answer, quoted |-> TRUE]
MCTokens ==
  {Plain("import"), Plain("space"), Plain("other")}
    \cup {Link(type, answer) : type \in {"string", "url"},
                               answer \in {"same", "new"}}
    \cup {[Plain("url") EXCEPT !.quoted = FALSE], Link("string", "error")}

\* Runes that are special in a string, digits of several kinds that may follow
\* an escape, and one whose number has the digit f.
Newline == 10
Space == 32
DoubleQuote == 34
Apostrophe == 39
Solidus == 47
Two == 50
UpperA == 65
Backslash == 92
LowerA == 97
LowerF == 102
LowerG == 103
MCRunes ==
  {Newline, Space, DoubleQuote, Apostrophe, Solidus, Two, UpperA, Backslash,
   LowerA, LowerF, LowerG}
=============================================================================
