----------------------------- MODULE CSSRewriter -----------------------------
(***************************************************************************)
(* rewrite.CSS: one pass over the tokens of a stylesheet, with a look-ahead *)
(* after "@import" that may push a token back.  A token is its type, what  *)
(* the callback answers for the URL in it, and whether that URL can be     *)
(* unquoted; module CSSStrings has the quoting.                            *)
(*                                                                         *)
(* pushBack sets pushedBack and does not keep the token, so the next call  *)
(* of next returns the zero token type, css.ErrorToken, which reads as the *)
(* end of the input.                                                       *)
(***************************************************************************)
EXTENDS Integers, Sequences

CONSTANTS
  Tokens,         \* the tokens a stylesheet is made of
  MaxTokens,      \* bound: the length of a stylesheet
  Faults          \* "write" when the writer may fail

Types == {"import", "space", "string", "url", "other"}
Answers == {"same", "new", "error"}

\* Module Rewrite assumes this.
TokensAssumption ==
  /\ Tokens \subseteq [type : Types, answer : Answers, quoted : BOOLEAN]
  /\ MaxTokens \in Nat
  /\ Faults \subseteq {"write"}

VARIABLES
  input,          \* the tokens of the stylesheet
  pos,            \* how many the lexer has returned
  pushedBack,
  pc,             \* CSS, one of the two places in processImport, or returned
  output,         \* what has been written: a token's position and its form
  offered         \* the positions of the tokens whose URL the callback got

vars == <<input, pos, pushedBack, pc, output, offered>>

Init ==
  /\ input \in UNION {[1 .. n -> Tokens] : n \in 0 .. MaxTokens}
  /\ pos = 0
  /\ pushedBack = FALSE
  /\ pc = "css"
  /\ output = <<>>
  /\ offered = {}

-----------------------------------------------------------------------------

AtEnd == pos = Len(input)

\* The type next returns; after a push-back it is the zero value.
NextType ==
  IF pushedBack \/ AtEnd THEN "error" ELSE input[pos + 1].type

Advance == pos' = pos + 1 /\ UNCHANGED <<input, pushedBack>>

\* CSS gives up and returns the error.
Fail == pc' = "failed" /\ UNCHANGED output

\* The current token is written as it is, or with another URL.
Emit(form, next) ==
  \/ output' = Append(output, [token |-> pos + 1, form |-> form]) /\ pc' = next
  \/ "write" \in Faults /\ Fail

\* A URL is unquoted, offered to the callback, and quoted again if changed.
Rewrite ==
  LET t == input[pos + 1]
  IN  IF ~t.quoted
        THEN Fail /\ UNCHANGED offered
        ELSE /\ offered' = offered \cup {pos + 1}
             /\ CASE t.answer = "same" -> Emit("raw", "css")
                  [] t.answer = "new" -> Emit("rewritten", "css")
                  [] t.answer = "error" -> Fail

-----------------------------------------------------------------------------
(* The loop of CSS.                                                        *)

\* Mutant: a URL is taken for any other token.
CopyTokenOrURL ==
  /\ pc = "css"
  /\ NextType \in {"space", "string", "other", "url"}
  /\ Advance
  /\ Emit("raw", "css")
  /\ UNCHANGED offered

CopyToken ==
  /\ pc = "css"
  /\ NextType \in {"space", "string", "other"}
  /\ Advance
  /\ Emit("raw", "css")
  /\ UNCHANGED offered

HandleURL ==
  /\ pc = "css"
  /\ NextType = "url"
  /\ Advance
  /\ Rewrite

BeginImport ==
  /\ pc = "css"
  /\ NextType = "import"
  /\ Advance
  /\ Emit("raw", "importSpace")
  /\ UNCHANGED offered

\* next returns ErrorToken: CSS returns nil, as at the end of the input.
Finish ==
  /\ pc = "css"
  /\ NextType = "error"
  /\ pc' = "done"
  /\ pushedBack' = FALSE
  /\ UNCHANGED <<input, pos, output, offered>>

-----------------------------------------------------------------------------
(* processImport.                                                          *)

\* Mutant: white space is taken for the target.
ImportSpaceOnce ==
  /\ pc = "importSpace"
  /\ NextType = "space"
  /\ Advance
  /\ Emit("raw", "css")
  /\ UNCHANGED offered

ImportSpace ==
  /\ pc = "importSpace"
  /\ NextType = "space"
  /\ Advance
  /\ Emit("raw", "importTarget")
  /\ UNCHANGED offered

ImportTarget ==
  /\ pc = "importTarget"
  /\ NextType \in {"string", "url"}
  /\ Advance
  /\ Rewrite

\* Another token: it has been read, is pushed back, and so lost.
PushBack ==
  /\ \/ pc = "importSpace" /\ NextType \in {"import", "string", "url", "other"}
     \/ pc = "importTarget" /\ NextType \in {"import", "space", "other"}
  /\ pos' = pos + 1
  /\ pushedBack' = TRUE
  /\ pc' = "css"
  /\ UNCHANGED <<input, output, offered>>

\* The input ends inside an @import: io.EOF is returned as an error.
ImportAtEnd ==
  /\ pc \in {"importSpace", "importTarget"}
  /\ NextType = "error"
  /\ Fail
  /\ UNCHANGED <<input, pos, pushedBack, offered>>

Next ==
  \/ CopyToken \/ HandleURL \/ BeginImport \/ Finish
  \/ ImportSpace \/ ImportTarget \/ PushBack \/ ImportAtEnd

Spec == Init /\ [][Next]_vars

-----------------------------------------------------------------------------
(* Properties.                                                             *)

\* What a stylesheet's links are, without a look-ahead: every URL token, and
\* a string right after "@import" and white space.
IsLink(i) ==
  \/ input[i].type = "url"
  \/ /\ i > 2
     /\ input[i].type = "string"
     /\ input[i - 1].type = "space"
     /\ input[i - 2].type = "import"

FormOf(i) ==
  IF IsLink(i) /\ input[i].answer = "new" THEN "rewritten" ELSE "raw"

\* What is written is the input up to some token, in order, nothing twice and
\* nothing left out, and changed only where a link got a new URL
\* (css.go:17-54, 99-155).
OutputIsRewrittenPrefix ==
  \A n \in DOMAIN output :
    output[n].token = n /\ output[n].form = FormOf(n)

\* The links among the tokens written were all offered to the callback, and
\* nothing else was: the scraper misses no link of what it has passed.
OffersAreTheLinks ==
  /\ \A n \in DOMAIN output : n \in offered <=> IsLink(n)
  /\ \A i \in offered : IsLink(i)

\* What the comments at css.go:115 and 151 say of a token that cannot follow
\* @import, "unexpected, go back to regular handling": CSS that returns without
\* an error has passed over the whole stylesheet.
SuccessIsWhole == pc = "done" => Len(output) = Len(input)
=============================================================================
