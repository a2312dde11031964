---------------------------- MODULE HTMLRewriter ----------------------------
(***************************************************************************)
(* rewrite.HTML5: one pass over the tokens of a page.  The lexer returns a *)
(* start tag, its attributes one by one, and the end of the tag; the text  *)
(* of a style element is a token of its own.                               *)
(*                                                                         *)
(* A token has a type, the name of its tag or attribute, the URLs in it    *)
(* (of an attribute that is a list, or of style sheet text, all of them in *)
(* order; of a refresh attribute none when it does not match the regular   *)
(* expression), whether it is well-formed, and whether its value names an  *)
(* OpenGraph property whose content is a URL.                              *)
(*                                                                         *)
(* The branches for a token that the lexer does not return there have no   *)
(* action: inside a tag anything but an attribute or the tag's end, inside *)
(* a style element anything but text or its end tag.                       *)
(***************************************************************************)
EXTENDS Integers, SequencesExt

CONSTANTS
  Documents,          \* the pages, as sequences of tokens, whole or cut short
  attributeHandlers,  \* the <<tag, attribute>> pairs that hold URLs
  Answer,             \* what the callback answers for each URL
  NoURL,              \* Go's ""
  Faults              \* "write" when the writer may fail

\* Module Rewrite assumes this.
AnswerAssumption ==
  /\ \A u \in DOMAIN Answer : Answer[u] \in {"same", "new", "error"}
  /\ Faults \subseteq {"write"}

\* Module Rewrite assumes this of what the lexer returns: an attribute href that
\* can be unquoted holds a URL, maybe "", the end of a tag has no name, and the
\* text of a style element is one token.
DocumentsAssumption ==
  \A d \in Documents :
    /\ d \in Seq(Range(d))
    /\ \A i \in DOMAIN d :
         /\ d[i].type \in {"start", "attr", "close", "void", "text", "end"}
         /\ d[i].ok \in BOOLEAN
         /\ d[i].urls \in Seq(DOMAIN Answer)
         /\ d[i].type = "attr" /\ d[i].name = "href" /\ d[i].ok => d[i].urls # <<>>
         /\ d[i].type \in {"close", "void"} => d[i].name = ""
    /\ \A s, i \in DOMAIN d :
         /\ s <= i /\ d[s].type = "start" /\ d[s].name = "style"
         /\ \A j \in s + 1 .. i : d[j].type = "attr"
         /\ i + 2 < Len(d) /\ d[i + 1].type = "close" /\ d[i + 2].type = "text"
         => d[i + 3].type # "text"

VARIABLES
  input,
  pos,                \* how many tokens the lexer has returned
  pc,                 \* the function that is reading, or returned
  tag,                \* currentTag
  pending,            \* the attributes of a meta tag that are not written yet
  baseURL, newBaseURL,
  output,             \* what has been written: a token's position and its form
  offers              \* the calls of the callback

attrVars == <<tag, pending, baseURL, newBaseURL>>
vars == <<input, pos, pc, attrVars, output, offers>>

Init ==
  /\ input \in Documents
  /\ pos = 0
  /\ pc = "html"
  /\ tag = ""
  /\ pending = <<>>
  /\ baseURL = NoURL
  /\ newBaseURL = NoURL
  /\ output = <<>>
  /\ offers = <<>>

-----------------------------------------------------------------------------
(* What the actions share.                                                 *)

AtEnd == pos = Len(input)
Token == input[pos + 1]
Type == IF AtEnd THEN "error" ELSE Token.type
Advance == pos' = pos + 1 /\ UNCHANGED input

Fail == pc' = "failed" /\ UNCHANGED output

\* Token i is written, as it is or changed.
Emit(i, form, next) ==
  \/ output' = Append(output, [token |-> i, form |-> form]) /\ pc' = next
  \/ "write" \in Faults /\ Fail

Copy(next) == Emit(pos + 1, "raw", next)

\* What the callback is told about a URL: the base in effect, except that an
\* OpenGraph URL, the base itself and a URL of a stylesheet have none.
Offer(i, u, type) ==
  [token |-> i, url |-> u, type |-> type,
   base |-> IF type = "unknown" THEN baseURL ELSE NoURL,
   newBase |-> IF type = "unknown" THEN newBaseURL ELSE NoURL]

\* The URLs that are offered: all up to the first the callback refuses.
OfferedURLs(urls) ==
  SubSeq(urls, 1,
         IF \E n \in DOMAIN urls : Answer[urls[n]] = "error"
           THEN CHOOSE n \in DOMAIN urls :
                  /\ Answer[urls[n]] = "error"
                  /\ \A m \in 1 .. n - 1 : Answer[urls[m]] # "error"
           ELSE Len(urls))

OfferAll(i, type) ==
  LET urls == OfferedURLs(input[i].urls)
  IN  offers' = offers \o [n \in DOMAIN urls |-> Offer(i, urls[n], type)]

Refused(i) == \E n \in DOMAIN input[i].urls : Answer[input[i].urls[n]] = "error"
Changed(i) == \E n \in DOMAIN input[i].urls : Answer[input[i].urls[n]] = "new"

\* An attribute's URLs are offered and written; it is written as it is when
\* none of them has changed.  A style attribute is always written anew.
RewriteAttribute(i, type, next) ==
  IF ~input[i].ok
    THEN Fail /\ UNCHANGED offers
    ELSE /\ OfferAll(i, type)
         /\ IF Refused(i) THEN Fail
            ELSE Emit(i, IF Changed(i) \/ type = "css" THEN "rewritten" ELSE "raw",
                      next)

-----------------------------------------------------------------------------
(* The loop of HTML5.                                                      *)

StartTag ==
  /\ pc = "html"
  /\ Type = "start"
  /\ Advance
  /\ tag' = Token.name
  /\ Copy(IF Token.name = "meta" THEN "readMeta" ELSE "attributes")
  /\ UNCHANGED <<pending, baseURL, newBaseURL, offers>>

OtherToken ==
  /\ pc = "html"
  /\ Type \in {"text", "end"}
  /\ Advance
  /\ Copy("html")
  /\ UNCHANGED <<attrVars, offers>>

\* The end of the input: between two tags it is the end of the page, inside a
\* tag or a style element io.EOF is returned as an error.
EndOfInput ==
  /\ pc \in {"html", "attributes", "readMeta", "style"}
  /\ Type = "error"
  /\ pc' = IF pc = "html" THEN "done" ELSE "failed"
  /\ UNCHANGED <<input, pos, attrVars, output, offers>>

-----------------------------------------------------------------------------
(* rewriteAttributes.                                                      *)

HasHandler(t, name) ==
  IF t = "base" THEN name = "href"
  ELSE name = "style" \/ <<t, name>> \in attributeHandlers

PlainAttribute ==
  /\ pc = "attributes"
  /\ Type = "attr"
  /\ ~HasHandler(tag, Token.name)
  /\ Advance
  /\ Copy("attributes")
  /\ UNCHANGED <<attrVars, offers>>

HandledAttribute ==
  /\ pc = "attributes"
  /\ Type = "attr"
  /\ tag # "base"
  /\ HasHandler(tag, Token.name)
  /\ Advance
  /\ RewriteAttribute(pos + 1,
       IF Token.name = "style" THEN "css" ELSE "unknown", "attributes")
  /\ UNCHANGED attrVars

\* Mutant: the new base is set only when it differs from the old.
BaseHrefOnlyNew ==
  /\ pc = "attributes"
  /\ Type = "attr"
  /\ tag = "base"
  /\ Token.name = "href"
  /\ Token.ok
  /\ Advance
  /\ baseURL' = Token.urls[1]
  /\ newBaseURL' = IF Answer[Token.urls[1]] = "new"
                     THEN <<"new", Token.urls[1]>> ELSE newBaseURL
  /\ RewriteAttribute(pos + 1, "base", "attributes")
  /\ UNCHANGED <<tag, pending>>

\* baseHrefAttribute: the base is that of the last base tag so far, for
\* baseURLSet is never set.
BaseHref ==
  /\ pc = "attributes"
  /\ Type = "attr"
  /\ tag = "base"
  /\ Token.name = "href"
  /\ Advance
  /\ baseURL' = IF Token.ok THEN Token.urls[1] ELSE baseURL
  /\ newBaseURL' =
       IF ~Token.ok THEN newBaseURL
       ELSE CASE Answer[Token.urls[1]] = "same" -> Token.urls[1]
              [] Answer[Token.urls[1]] = "new" -> <<"new", Token.urls[1]>>
              [] Answer[Token.urls[1]] = "error" -> newBaseURL
  /\ RewriteAttribute(pos + 1, "base", "attributes")
  /\ UNCHANGED <<tag, pending>>

EndOfTag ==
  /\ pc = "attributes"
  /\ Type \in {"close", "void"}
  /\ Advance
  /\ Copy(IF tag = "style" /\ Type = "close" THEN "style" ELSE "html")
  /\ UNCHANGED <<attrVars, offers>>

-----------------------------------------------------------------------------
(* processMeta: all attributes are read, then written, as the others say.  *)

ReadMetaAttribute ==
  /\ pc = "readMeta"
  /\ Type = "attr"
  /\ Advance
  /\ pending' = Append(pending, pos + 1)
  /\ UNCHANGED <<pc, tag, baseURL, newBaseURL, output, offers>>

IsProperty(name) == name \in {"itemprop", "property"}

\* An itemprop or property attribute that cannot be unquoted is an error.
EndOfMeta ==
  /\ pc = "readMeta"
  /\ Type \in {"close", "void"}
  /\ Advance
  /\ pending' = Append(pending, pos + 1)
  /\ pc' = IF \E n \in DOMAIN pending :
                IsProperty(input[pending[n]].name) /\ ~input[pending[n]].ok
             THEN "failed" ELSE "writeMeta"
  /\ UNCHANGED <<tag, baseURL, newBaseURL, output, offers>>

\* What the attributes at positions P make of the content attribute: the last
\* property counts, and a tag with http-equiv and a property is left alone.
MetaContent(P) ==
  LET equiv == \E i \in P : input[i].name = "http-equiv"
      properties == {i \in P : IsProperty(input[i].name)}
  IN  CASE equiv /\ properties = {} -> "unknown"
        [] ~equiv /\ (\E i \in properties :
             input[i].og /\ \A j \in properties : j <= i) -> "og"
        [] OTHER -> "none"

\* The positions of the attributes of the meta tag that ends at position i.
MetaAttributes(i) ==
  {j \in 1 .. i - 1 : \A m \in j .. i - 1 : input[m].type = "attr"}

\* Mutant: the attributes already written do not count.
WriteMetaAttributeForgetting ==
  /\ pc = "writeMeta"
  /\ pending # <<>>
  /\ pending' = Tail(pending)
  /\ LET i == Head(pending)
         content == MetaContent({pending[n] : n \in 1 .. Len(pending) - 1})
     IN  IF input[i].name = "content" /\ content # "none"
           THEN RewriteAttribute(i, content, "writeMeta")
           ELSE /\ Emit(i, "raw", IF Len(pending) = 1 THEN "html" ELSE "writeMeta")
                /\ UNCHANGED offers
  /\ UNCHANGED <<input, pos, tag, baseURL, newBaseURL>>

\* One attribute is written; the last of pending is the end of the tag.
WriteMetaAttribute ==
  /\ pc = "writeMeta"
  /\ pending # <<>>
  /\ pending' = Tail(pending)
  /\ LET i == Head(pending)
         content == MetaContent(MetaAttributes(pos))
     IN  IF input[i].name = "content" /\ content # "none"
           THEN RewriteAttribute(i, content, "writeMeta")
           ELSE /\ Emit(i, "raw", IF Len(pending) = 1 THEN "html" ELSE "writeMeta")
                /\ UNCHANGED offers
  /\ UNCHANGED <<input, pos, tag, baseURL, newBaseURL>>

-----------------------------------------------------------------------------
(* processStyleTag.                                                        *)

\* The text is rewritten as CSS and escaped anew.
StyleText ==
  /\ pc = "style"
  /\ Type = "text"
  /\ Advance
  /\ RewriteAttribute(pos + 1, "css", "style")
  /\ UNCHANGED attrVars

EndOfStyle ==
  /\ pc = "style"
  /\ Type = "end"
  /\ Advance
  /\ Copy("html")
  /\ UNCHANGED <<attrVars, offers>>

-----------------------------------------------------------------------------

Next ==
  \/ StartTag \/ OtherToken \/ EndOfInput
  \/ PlainAttribute \/ HandledAttribute \/ BaseHref \/ EndOfTag
  \/ ReadMetaAttribute \/ EndOfMeta \/ WriteMetaAttribute
  \/ StyleText \/ EndOfStyle

Spec == Init /\ [][Next]_vars

-----------------------------------------------------------------------------
(* Properties, against a reading of the page as a whole.                   *)

\* The start tag that token i belongs to, the last before it.
StartOf(i) ==
  CHOOSE s \in 1 .. i :
    input[s].type = "start" /\ \A j \in s + 1 .. i : input[j].type # "start"

TagOf(i) == IF \E s \in 1 .. i : input[s].type = "start"
              THEN input[StartOf(i)].name ELSE ""

\* The attributes of the tag that token i is in.
Siblings(i) ==
  {j \in StartOf(i) + 1 .. Len(input) :
     \A m \in StartOf(i) + 1 .. j : input[m].type = "attr"}

\* What kind of URLs token i holds.
LinkType(i) ==
  IF input[i].type = "text" THEN
    IF TagOf(i) = "style" /\ input[i - 1].type = "close" THEN "css" ELSE "none"
  ELSE IF input[i].type # "attr" THEN "none"
  ELSE IF TagOf(i) = "meta" THEN
    IF input[i].name = "content" THEN MetaContent(Siblings(i)) ELSE "none"
  ELSE IF TagOf(i) = "base" THEN IF input[i].name = "href" THEN "base" ELSE "none"
  ELSE IF input[i].name = "style" THEN "css"
  ELSE IF <<TagOf(i), input[i].name>> \in attributeHandlers THEN "unknown"
  ELSE "none"

BaseHrefs == {i \in DOMAIN input : LinkType(i) = "base"}

HasBase(i) == \E b \in BaseHrefs : b < i

\* The base in effect at token i, the last one before it, and what replaces it.
BaseBefore(i) ==
  LET last == CHOOSE b \in BaseHrefs :
                b < i /\ \A c \in BaseHrefs : c < i => c <= b
  IN  IF HasBase(i) THEN input[last].urls[1] ELSE NoURL

NewBaseBefore(i) ==
  LET u == BaseBefore(i)
  IN  IF HasBase(i) /\ Answer[u] = "new" THEN <<"new", u>> ELSE u

\* The calls that token i gives rise to.
CallsOf(i) ==
  IF LinkType(i) = "none" THEN <<>>
  ELSE [n \in DOMAIN input[i].urls |->
         [token |-> i, url |-> input[i].urls[n], type |-> LinkType(i),
          base |-> IF LinkType(i) = "unknown" THEN BaseBefore(i) ELSE NoURL,
          newBase |->
            IF LinkType(i) = "unknown" THEN NewBaseBefore(i) ELSE NoURL]]

FormOf(i) ==
  IF LinkType(i) = "css" \/ (LinkType(i) # "none" /\ Changed(i))
    THEN "rewritten" ELSE "raw"

\* What is written is the page up to some token, in order, changed only where
\* a link has got a new URL or a style has been written anew, although a meta
\* tag's attributes are read ahead (html.go:17-184).
OutputIsRewrittenPage ==
  \A n \in DOMAIN output :
    output[n].token = n /\ output[n].form = FormOf(n)

\* An offer is the call that is due.  The base that comes with a URL of a
\* stylesheet is not compared: rewrite.go:21-27 says that it is given, and
\* css.go:195 does not give it.
Meets(offer, call) ==
  \/ offer = call
  \/ call.type = "css" /\ [offer EXCEPT !.base = call.base, !.newBase = call.newBase] = call

\* The callback is called for every link of what has been written, in order,
\* once each, and for those outside stylesheets with the base that is in effect
\* there and its replacement (html.go:444-584): the scraper misses none and
\* resolves each of these the same way.
CallsFollowThePage ==
  LET written == FlattenSeq([n \in DOMAIN output |-> CallsOf(n)])
  IN  /\ Len(written) <= Len(offers)
      /\ pc # "failed" => Len(written) = Len(offers)
      /\ \A n \in DOMAIN written : Meets(offers[n], written[n])

\* A page is rewritten to its end unless an error is returned.
SuccessIsWhole == pc = "done" => Len(output) = Len(input)
=============================================================================
