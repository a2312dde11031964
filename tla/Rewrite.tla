------------------------------- MODULE Rewrite -------------------------------
(***************************************************************************)
(* Package rewrite.  Document rewrites a document as what its media type   *)
(* says, a page (module HTMLRewriter) or a stylesheet (CSSRewriter), and   *)
(* refuses any other type or character set.  The strings of a stylesheet   *)
(* (CSSStrings) are a job of their own here: the other modules take from   *)
(* them only whether a string can be unquoted.                             *)
(***************************************************************************)
EXTENDS Integers, SequencesExt

CONSTANTS
  Documents, attributeHandlers, Answer, NoURL,    \* of HTMLRewriter
  Tokens, MaxTokens,                              \* of CSSRewriter
  Runes, MaxLength,                               \* of CSSStrings
  Faults

VARIABLES
  job,
  input, pos, pc, output,
  tag, pending, baseURL, newBaseURL, offers,      \* of HTMLRewriter
  pushedBack, offered,                            \* of CSSRewriter
  value, quote, text, by, stage, read             \* of CSSStrings

H == INSTANCE HTMLRewriter
C == INSTANCE CSSRewriter
S == INSTANCE CSSStrings

ASSUME RewriteAssumption ==
  /\ H!AnswerAssumption /\ H!DocumentsAssumption
  /\ C!TokensAssumption /\ S!RunesAssumption

documentVars == <<input, pos, pc, output>>
pageVars == <<tag, pending, baseURL, newBaseURL, offers>>
sheetVars == <<pushedBack, offered>>
stringVars == <<value, quote, text, by, stage, read>>
vars == <<job, documentVars, pageVars, sheetVars, stringVars>>

NoDocument(where) == input = <<>> /\ pos = 0 /\ pc = where /\ output = <<>>
NoPage ==
  /\ tag = "" /\ pending = <<>> /\ offers = <<>>
  /\ baseURL = NoURL /\ newBaseURL = NoURL
NoSheet == pushedBack = FALSE /\ offered = {}
NoString ==
  /\ value = <<>> /\ quote = S!DoubleQuote /\ text = <<>>
  /\ by = "nobody" /\ stage = "none" /\ read = S!Malformed

Init ==
  \/ job = "text/html" /\ H!Init /\ NoSheet /\ NoString
  \/ job = "text/css" /\ C!Init /\ NoPage /\ NoString
  \/ job = "other" /\ NoDocument("document") /\ NoPage /\ NoSheet /\ NoString
  \/ job = "string" /\ S!Init /\ NoDocument("none") /\ NoPage /\ NoSheet

Page ==
  job = "text/html" /\ H!Next /\ UNCHANGED <<job, sheetVars, stringVars>>
Sheet ==
  job = "text/css" /\ C!Next /\ UNCHANGED <<job, pageVars, stringVars>>
String ==
  /\ job = "string" /\ S!Next
  /\ UNCHANGED <<job, documentVars, pageVars, sheetVars>>

\* The type or the character set is not supported.
Refuse ==
  /\ job = "other"
  /\ pc = "document"
  /\ pc' = "failed"
  /\ UNCHANGED <<job, input, pos, output, pageVars, sheetVars, stringVars>>

Next == Page \/ Sheet \/ String \/ Refuse

Spec == Init /\ [][Next]_vars

-----------------------------------------------------------------------------
(* Properties: those of the three modules.                                 *)

\* A page, whole or cut short, is written as it was but for its links, and to
\* its end if there is no error (html.go:17-184).
PageIsRewritten ==
  job = "text/html" => H!OutputIsRewrittenPage /\ H!SuccessIsWhole

\* Every link of a page is offered once and in order, those outside stylesheets
\* with the base in effect (html.go:444-584).
PageCallsFollow == job = "text/html" => H!CallsFollowThePage

\* A stylesheet is written as it was, but for its links, up to where CSS stops
\* (css.go:17-54, 99-155).
SheetIsRewritten == job = "text/css" => C!OutputIsRewrittenPrefix

\* Exactly the links of what CSS has passed over are offered (css.go:99-211).
SheetOffersLinks == job = "text/css" => C!OffersAreTheLinks

\* A value that is quoted and read again is the same (css.go:214-316).
QuotedIsReadBack == job = "string" => S!QuotedIsReadBack

\* css.go:115 and 151 on a token that cannot follow @import: "unexpected, go
\* back to regular handling".
SheetIsWhole == job = "text/css" => C!SuccessIsWhole

\* css.go:249 names the string token of CSS Syntax Level 3, in which f is a
\* hexadecimal digit.
EscapesAreRead == job = "string" => S!EscapesAreRead
=============================================================================
