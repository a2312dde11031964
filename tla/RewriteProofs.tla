---------------------------- MODULE RewriteProofs ----------------------------
(***************************************************************************)
(* What package rewrite writes and which links it offers, for any page and *)
(* any stylesheet, whatever the callback answers and whenever the writer   *)
(* fails.                                                                  *)
(***************************************************************************)
EXTENDS Rewrite, SequenceTheorems, WellFoundedInduction, TLAPS

Written == Seq([token : Int, form : {"raw", "rewritten"}])

-----------------------------------------------------------------------------
(* Stylesheets.                                                            *)

\* Where the loop and processImport are, by the tokens just before.
PlaceInv ==
  /\ pc = "css" /\ pos >= 1 => input[pos].type # "import"
  /\ pc = "css" /\ pos >= 2 /\ input[pos].type = "space" => input[pos - 1].type # "import"
  /\ pc = "importSpace" => pos >= 1 /\ input[pos].type = "import"
  /\ pc = "importTarget" =>
       /\ pos >= 2
       /\ input[pos].type = "space" /\ input[pos - 1].type = "import"

SheetInv ==
  /\ input \in Seq(Tokens) /\ pos \in 0 .. Len(input)
  /\ output \in Written /\ Len(output) <= pos
  /\ pushedBack \in BOOLEAN
  /\ pushedBack => pc \in {"css", "done"}
  /\ pc \in {"css", "importSpace", "importTarget", "done", "failed"}
  /\ ~pushedBack /\ pc \in {"css", "importSpace", "importTarget"} =>
       Len(output) = pos /\ PlaceInv
  /\ offered \subseteq 1 .. pos
  /\ C!OutputIsRewrittenPrefix
  /\ C!OffersAreTheLinks

\* Token pos + 1 is read and written.
LEMMA Emitted ==
  ASSUME SheetInv, ~pushedBack, pc \in {"css", "importSpace", "importTarget"},
         pos < Len(input), pos' = pos + 1, UNCHANGED <<input, pushedBack>>,
         offered' = IF C!IsLink(pos + 1) THEN offered \cup {pos + 1} ELSE offered,
         \/ /\ output' = Append(output, [token |-> pos + 1, form |-> C!FormOf(pos + 1)])
            /\ pc' \in {"css", "importSpace", "importTarget"}
            /\ PlaceInv'
         \/ UNCHANGED output /\ pc' = "failed"
  PROVE  SheetInv'
<1>1. /\ input \in Seq(Tokens) /\ Len(input) \in Nat /\ pos \in Nat
      /\ output \in Written /\ Len(output) \in Nat /\ Len(output) = pos
      /\ DOMAIN output = 1 .. Len(output)
      /\ offered \subseteq 1 .. pos
  BY LenProperties DEF SheetInv, Written
<1>2. \A i : C!IsLink(i)' = C!IsLink(i) /\ C!FormOf(i)' = C!FormOf(i)
  BY DEF C!IsLink, C!FormOf
<1>3. /\ \A n \in DOMAIN output : output[n].token = n /\ output[n].form = C!FormOf(n)
      /\ \A n \in DOMAIN output : n \in offered <=> C!IsLink(n)
      /\ \A i \in offered : C!IsLink(i)
  BY DEF SheetInv, C!OutputIsRewrittenPrefix, C!OffersAreTheLinks
<1>4. offered' \subseteq 1 .. pos'
  BY <1>1
<1>5. \A i \in offered' : C!IsLink(i)
  BY <1>3
<1>6. CASE UNCHANGED output /\ pc' = "failed"
  <2>1. \A n \in DOMAIN output : n \in offered' <=> C!IsLink(n)
    BY <1>3, <1>5
  <2>. QED  BY <1>1, <1>2, <1>3, <1>4, <1>5, <1>6, <2>1
       DEF SheetInv, C!OutputIsRewrittenPrefix, C!OffersAreTheLinks
<1>7. CASE /\ output' = Append(output, [token |-> pos + 1, form |-> C!FormOf(pos + 1)])
           /\ pc' \in {"css", "importSpace", "importTarget"}
           /\ PlaceInv'
  <2>. DEFINE x == [token |-> pos + 1, form |-> C!FormOf(pos + 1)]
  <2>1. x.token = pos + 1 /\ x.form = C!FormOf(pos + 1)
    OBVIOUS
  <2>2. x \in [token : Int, form : {"raw", "rewritten"}]
    BY <1>1 DEF C!FormOf
  <2>3. output' = Append(output, x)
    BY <1>7
  <2>. HIDE DEF x
  <2>4. /\ output' \in Written /\ Len(output') = pos + 1
        /\ DOMAIN output' = 1 .. pos + 1
        /\ \A n \in 1 .. pos : output'[n] = output[n]
        /\ output'[pos + 1] = x
    BY <1>1, <2>2, <2>3 DEF Written
  <2>5. \A n \in 1 .. pos + 1 : output'[n].token = n /\ output'[n].form = C!FormOf(n)
    BY <1>1, <1>3, <2>1, <2>4
  <2>6. \A n \in 1 .. pos + 1 : n \in offered' <=> C!IsLink(n)
    BY <1>1, <1>3
  <2>7. C!OutputIsRewrittenPrefix'
    BY <1>2, <2>4, <2>5 DEF C!OutputIsRewrittenPrefix
  <2>8. C!OffersAreTheLinks'
    BY <1>2, <1>5, <2>4, <2>6 DEF C!OffersAreTheLinks
  <2>. QED  BY <1>1, <1>4, <1>7, <2>4, <2>7, <2>8 DEF SheetInv
<1>. QED  BY <1>6, <1>7

LEMMA SheetInit == C!Init => SheetInv
<1>. SUFFICES ASSUME C!Init PROVE SheetInv
  OBVIOUS
<1>1. PICK n \in 0 .. MaxTokens : input \in [1 .. n -> Tokens]
  BY DEF C!Init
<1>2. n \in Nat
  BY RewriteAssumption DEF C!TokensAssumption
<1>3. input \in Seq(Tokens) /\ Len(input) \in Nat
  BY <1>1, <1>2
<1>4. /\ pos = 0 /\ output = <<>> /\ pc = "css" /\ pushedBack = FALSE /\ offered = {}
  BY DEF C!Init
<1>5. output \in Written /\ Len(output) = 0 /\ DOMAIN output = {}
  BY <1>4 DEF Written
<1>6. PlaceInv
  BY <1>4 DEF PlaceInv
<1>7. C!OutputIsRewrittenPrefix /\ C!OffersAreTheLinks
  BY <1>4, <1>5 DEF C!OutputIsRewrittenPrefix, C!OffersAreTheLinks
<1>8. /\ pos \in 0 .. Len(input) /\ Len(output) = pos /\ Len(output) <= pos
      /\ offered \subseteq 1 .. pos
  BY <1>3, <1>4, <1>5
<1>9. pushedBack \in BOOLEAN /\ ~pushedBack
  BY <1>4
<1>. QED  BY <1>3, <1>4, <1>5, <1>6, <1>7, <1>8, <1>9, Zenon DEF SheetInv

\* What Rewrite does with a token that is a link.
LEMMA RewriteStep ==
  ASSUME SheetInv, ~pushedBack, pc \in {"css", "importTarget"}, pos < Len(input),
         pos' = pos + 1, UNCHANGED <<input, pushedBack>>,
         C!IsLink(pos + 1), C!Rewrite, input[pos + 1].type \notin {"import", "space"}
  PROVE  SheetInv'
<1>. DEFINE t == input[pos + 1]
<1>1. pos \in Nat /\ input \in Seq(Tokens) /\ Len(input) \in Nat
  BY DEF SheetInv
<1>2. t \in Tokens
  BY <1>1
<1>3. t.quoted \in BOOLEAN /\ t.answer \in {"same", "new", "error"}
  BY <1>2, RewriteAssumption DEF C!TokensAssumption, C!Answers
<1>4. CASE ~t.quoted
  <2>1. UNCHANGED <<output, offered>> /\ pc' = "failed"
    BY <1>4 DEF C!Rewrite, C!Fail
  <2>2. \A i : C!IsLink(i)' = C!IsLink(i) /\ C!FormOf(i)' = C!FormOf(i)
    BY DEF C!IsLink, C!FormOf
  <2>. QED  BY <1>1, <2>1, <2>2
       DEF SheetInv, C!OutputIsRewrittenPrefix, C!OffersAreTheLinks
<1>5. CASE t.quoted
  <2>1. offered' = offered \cup {pos + 1}
    BY <1>5 DEF C!Rewrite
  <2>2. \/ C!Emit(C!FormOf(pos + 1), "css")
        \/ C!Fail
    <3>1. C!FormOf(pos + 1) = IF t.answer = "new" THEN "rewritten" ELSE "raw"
      BY DEF C!FormOf
    <3>2. CASE t.answer = "same"
      BY <1>5, <3>1, <3>2 DEF C!Rewrite
    <3>3. CASE t.answer = "new"
      BY <1>5, <3>1, <3>3 DEF C!Rewrite
    <3>4. CASE t.answer = "error"
      BY <1>5, <3>4 DEF C!Rewrite
    <3>. QED  BY <1>3, <3>2, <3>3, <3>4
  <2>3. \/ /\ output' = Append(output, [token |-> pos + 1, form |-> C!FormOf(pos + 1)])
           /\ pc' = "css"
        \/ UNCHANGED output /\ pc' = "failed"
    BY <2>2 DEF C!Emit, C!Fail
  <2>4. pc' = "css" => PlaceInv'
    BY <1>1 DEF PlaceInv
  <2>. QED  BY <2>1, <2>3, <2>4, Emitted
<1>. QED  BY <1>4, <1>5, Zenon

\* A token that is no link is copied.
LEMMA CopyStep ==
  ASSUME SheetInv, ~pushedBack, pc \in {"css", "importSpace"}, pos < Len(input),
         pos' = pos + 1, UNCHANGED <<input, pushedBack, offered>>,
         ~C!IsLink(pos + 1), NEW next \in {"css", "importSpace", "importTarget"},
         C!Emit("raw", next), pc' = next => PlaceInv'
  PROVE  SheetInv'
<1>1. C!FormOf(pos + 1) = "raw"
  BY DEF C!FormOf
<1>2. \/ /\ output' = Append(output, [token |-> pos + 1, form |-> C!FormOf(pos + 1)])
         /\ pc' = next
      \/ UNCHANGED output /\ pc' = "failed"
  BY <1>1 DEF C!Emit, C!Fail
<1>. QED  BY <1>2, Emitted

LEMMA SheetStep == ASSUME SheetInv, C!Next PROVE SheetInv'
<1>1. /\ pos \in Nat /\ input \in Seq(Tokens) /\ Len(input) \in Nat /\ pos <= Len(input)
      /\ pushedBack \in BOOLEAN
  BY DEF SheetInv
<1>2. C!NextType # "error" =>
        ~pushedBack /\ pos < Len(input) /\ C!NextType = input[pos + 1].type
  BY <1>1 DEF C!NextType, C!AtEnd
<1>3. ~pushedBack /\ pc \in {"css", "importSpace", "importTarget"} =>
        Len(output) = pos /\ PlaceInv
  BY DEF SheetInv
<1>4. ASSUME C!CopyToken PROVE SheetInv'
  <2>1. /\ pc = "css" /\ C!NextType \in {"space", "string", "other"}
        /\ C!Advance /\ C!Emit("raw", "css") /\ UNCHANGED offered
    BY <1>4 DEF C!CopyToken
  <2>2. /\ ~pushedBack /\ pos < Len(input) /\ PlaceInv
        /\ input[pos + 1].type \in {"space", "string", "other"}
    BY <1>2, <1>3, <2>1
  <2>3. ~C!IsLink(pos + 1)
    BY <1>1, <2>1, <2>2 DEF C!IsLink, PlaceInv
  <2>4. pos' = pos + 1 /\ UNCHANGED <<input, pushedBack>>
    BY <2>1 DEF C!Advance
  <2>5. pc' = "css" => PlaceInv'
    BY <1>1, <2>1, <2>2, <2>4 DEF PlaceInv
  <2>. QED  BY <2>1, <2>2, <2>3, <2>4, <2>5, CopyStep
<1>5. ASSUME C!HandleURL PROVE SheetInv'
  <2>1. pc = "css" /\ C!NextType = "url" /\ C!Advance /\ C!Rewrite
    BY <1>5 DEF C!HandleURL
  <2>2. ~pushedBack /\ pos < Len(input) /\ input[pos + 1].type = "url"
    BY <1>2, <2>1
  <2>3. C!IsLink(pos + 1)
    BY <2>2 DEF C!IsLink
  <2>. QED  BY <2>1, <2>2, <2>3, RewriteStep DEF C!Advance
<1>6. ASSUME C!BeginImport PROVE SheetInv'
  <2>1. /\ pc = "css" /\ C!NextType = "import"
        /\ C!Advance /\ C!Emit("raw", "importSpace") /\ UNCHANGED offered
    BY <1>6 DEF C!BeginImport
  <2>2. ~pushedBack /\ pos < Len(input) /\ input[pos + 1].type = "import"
    BY <1>2, <2>1
  <2>3. ~C!IsLink(pos + 1)
    BY <2>2 DEF C!IsLink
  <2>4. pos' = pos + 1 /\ UNCHANGED <<input, pushedBack>>
    BY <2>1 DEF C!Advance
  <2>5. pc' = "importSpace" => PlaceInv'
    BY <1>1, <2>2, <2>4 DEF PlaceInv
  <2>. QED  BY <2>1, <2>2, <2>3, <2>4, <2>5, CopyStep
<1>7. ASSUME C!ImportSpace PROVE SheetInv'
  <2>1. /\ pc = "importSpace" /\ C!NextType = "space"
        /\ C!Advance /\ C!Emit("raw", "importTarget") /\ UNCHANGED offered
    BY <1>7 DEF C!ImportSpace
  <2>2. ~pushedBack /\ pos < Len(input) /\ input[pos + 1].type = "space" /\ PlaceInv
    BY <1>2, <1>3, <2>1
  <2>3. ~C!IsLink(pos + 1)
    BY <2>2 DEF C!IsLink
  <2>4. pos' = pos + 1 /\ UNCHANGED <<input, pushedBack>>
    BY <2>1 DEF C!Advance
  <2>5. pc' = "importTarget" => PlaceInv'
    BY <1>1, <2>1, <2>2, <2>4 DEF PlaceInv
  <2>. QED  BY <2>1, <2>2, <2>3, <2>4, <2>5, CopyStep
<1>8. ASSUME C!ImportTarget PROVE SheetInv'
  <2>1. pc = "importTarget" /\ C!NextType \in {"string", "url"} /\ C!Advance /\ C!Rewrite
    BY <1>8 DEF C!ImportTarget
  <2>2. /\ ~pushedBack /\ pos < Len(input) /\ PlaceInv
        /\ input[pos + 1].type \in {"string", "url"}
    BY <1>2, <1>3, <2>1
  <2>3. C!IsLink(pos + 1)
    BY <1>1, <2>1, <2>2 DEF C!IsLink, PlaceInv
  <2>. QED  BY <2>1, <2>2, <2>3, RewriteStep DEF C!Advance
<1>9. CASE C!Finish \/ C!PushBack \/ C!ImportAtEnd
  <2>1. /\ UNCHANGED <<input, output, offered>>
        /\ \/ pos' = pos /\ pc' \in {"done", "failed"} /\ pushedBack' \in {FALSE, pushedBack}
              /\ (pc' = "done" => pushedBack' = FALSE) /\ (pc' = "failed" => pc # "css")
           \/ /\ pos' = pos + 1 /\ pc' = "css" /\ pushedBack' = TRUE
              /\ C!NextType # "error"
    BY <1>9 DEF C!Finish, C!PushBack, C!ImportAtEnd, C!Fail
  <2>2. \A i : C!IsLink(i)' = C!IsLink(i) /\ C!FormOf(i)' = C!FormOf(i)
    BY <2>1 DEF C!IsLink, C!FormOf
  <2>3. C!OutputIsRewrittenPrefix' /\ C!OffersAreTheLinks'
    BY <2>1, <2>2 DEF SheetInv, C!OutputIsRewrittenPrefix, C!OffersAreTheLinks
  <2>4. /\ pushedBack' => pc' \in {"css", "done"}
        /\ pushedBack' \in BOOLEAN
        /\ pc' \in {"css", "done", "failed"}
        /\ ~pushedBack' => pc' \in {"done", "failed"}
    <3>1. pushedBack => pc \in {"css", "done"}
      BY DEF SheetInv
    <3>2. CASE C!Finish
      BY <3>2 DEF C!Finish
    <3>3. CASE C!PushBack
      BY <3>3 DEF C!PushBack
    <3>4. CASE C!ImportAtEnd
      BY <1>1, <3>1, <3>4 DEF C!ImportAtEnd, C!Fail
    <3>. QED  BY <1>9, <3>2, <3>3, <3>4
  <2>5. pos' \in 0 .. Len(input) /\ pos <= pos'
    <3>1. pos' = pos \/ (pos' = pos + 1 /\ pos < Len(input))
      BY <1>2, <2>1
    <3>. QED  BY <1>1, <3>1
  <2>6. output \in Written /\ Len(output) \in Nat /\ Len(output) <= pos
    BY LenProperties DEF SheetInv, Written
  <2>7. Len(output) <= pos'
    BY <1>1, <2>5, <2>6
  <2>8. offered \subseteq 1 .. pos'
    <3>1. offered \subseteq 1 .. pos
      BY DEF SheetInv
    <3>. QED  BY <1>1, <2>5, <3>1
  <2>. QED  BY <1>1, <2>1, <2>3, <2>4, <2>5, <2>6, <2>7, <2>8, Zenon DEF SheetInv
<1>. QED  BY <1>4, <1>5, <1>6, <1>7, <1>8, <1>9 DEF C!Next

SheetRuns == job = "text/css" => SheetInv

LEMMA SheetRunsHolds == Spec => []SheetRuns
<1>1. Init => SheetRuns
  BY SheetInit DEF Init, SheetRuns
<1>2. SheetRuns /\ [Next]_vars => SheetRuns'
  <2>. SUFFICES ASSUME SheetRuns, [Next]_vars, job' = "text/css" PROVE SheetInv'
    BY DEF SheetRuns
  <2>1. CASE Sheet
    BY <2>1, SheetStep DEF Sheet, SheetRuns
  <2>2. CASE UNCHANGED vars
    BY <2>2 DEF SheetRuns, SheetInv, PlaceInv, C!OutputIsRewrittenPrefix,
                C!OffersAreTheLinks, C!IsLink, C!FormOf,
                vars, documentVars, sheetVars
  <2>. QED  BY <2>1, <2>2 DEF Next, Page, String, Refuse
<1>. QED  BY <1>1, <1>2, PTL DEF Spec

\* A stylesheet is written as it was but for its links, of any tokens and with
\* any writer (css.go:17-54, 99-155).
THEOREM SheetHolds == Spec => []SheetIsRewritten
<1>1. SheetRuns => SheetIsRewritten
  BY DEF SheetRuns, SheetInv, SheetIsRewritten
<1>. QED  BY <1>1, SheetRunsHolds, PTL

\* Exactly the links of what has been written are offered, although a string is
\* a link only by what precedes it (css.go:99-211).
THEOREM SheetOffersHolds == Spec => []SheetOffersLinks
<1>1. SheetRuns => SheetOffersLinks
  BY DEF SheetRuns, SheetInv, SheetOffersLinks
<1>. QED  BY <1>1, SheetRunsHolds, PTL

-----------------------------------------------------------------------------
(* Pages.                                                                  *)

\* In document d, token n is a start tag named t, and all up to token k are its
\* attributes.
Opens(d, n, k, t) ==
  /\ n \in 1 .. k
  /\ d[n].type = "start" /\ d[n].name = t
  /\ \A m \in n + 1 .. k : d[m].type = "attr"

InTag(d, k, t) == \E n \in 1 .. k : Opens(d, n, k, t)

\* Token k belongs to a tag named t.
Under(d, k, t) ==
  \E n \in 1 .. k :
    /\ d[n].type = "start" /\ d[n].name = t
    /\ \A m \in n + 1 .. k : d[m].type # "start"

\* The tokens of document d that have been read and not written are kept.
PendingOK(p, n, attributes) ==
  /\ attributes \in Seq(Nat) /\ Len(attributes) = p - n
  /\ \A k \in 1 .. p - n : attributes[k] = n + k

\* Where the rewriter is in document d when it has read p tokens and written n.
PlaceOK(d, p, where, n, name, attributes) ==
  /\ where \in {"html", "attributes", "style", "readMeta", "writeMeta", "done"}
  /\ PendingOK(p, n, attributes)
  /\ where \in {"html", "attributes", "style", "done"} => n = p
  /\ where = "html" /\ p >= 1 /\ d[p].type = "close" =>
       \E t : t # "style" /\ Under(d, p, t)
  /\ where = "attributes" => name # "meta" /\ InTag(d, p, name)
  /\ where = "style" =>
       \/ p >= 1 /\ d[p].type = "close" /\ InTag(d, p - 1, "style")
       \/ p >= 1 /\ d[p].type = "text" /\ (p < Len(d) => d[p + 1].type # "text")
  /\ where = "readMeta" => Opens(d, n, p, "meta")
  /\ where = "writeMeta" =>
       /\ n < p
       /\ d[p].type \in {"close", "void"}
       /\ \E k \in 1 .. n : Opens(d, k, p - 1, "meta")
  /\ where = "done" => p = Len(d)

\* The base that is in effect at token k, and what replaces it.
BaseIs(k) ==
  \/ ~H!HasBase(k) /\ baseURL = NoURL /\ newBaseURL = NoURL
  \/ \E b \in H!BaseHrefs :
       /\ b < k /\ \A c \in H!BaseHrefs : c < k => c <= b
       /\ baseURL = input[b].urls[1]
       /\ newBaseURL = IF Answer[baseURL] = "new" THEN <<"new", baseURL>> ELSE baseURL

\* The calls are exactly those that the tokens written ask for, or,
\* after a failure, begin with them.
CallsMade ==
  LET written == H!FlattenSeq([k \in DOMAIN output |-> H!CallsOf(k)])
  IN  /\ pc # "failed" => offers = written
      /\ Len(written) <= Len(offers)
      /\ \A h \in DOMAIN written : offers[h] = written[h]

PageInv ==
  /\ input \in Documents /\ pos \in 0 .. Len(input)
  /\ output \in Written /\ Len(output) <= pos
  /\ H!OutputIsRewrittenPage
  /\ pc # "failed" =>
       /\ PlaceOK(input, pos, pc, Len(output), tag, pending)
       /\ \E k : k = Len(output) + 1 /\ BaseIs(k)
  /\ CallsMade

LEMMA SamePage ==
  input' = input =>
    \A k : /\ H!LinkType(k)' = H!LinkType(k)
           /\ H!FormOf(k)' = H!FormOf(k)
           /\ H!CallsOf(k)' = H!CallsOf(k)
<1>. SUFFICES ASSUME input' = input, NEW k
     PROVE  /\ H!LinkType(k)' = H!LinkType(k)
            /\ H!FormOf(k)' = H!FormOf(k)
            /\ H!CallsOf(k)' = H!CallsOf(k)
  OBVIOUS
<1>1. \A n : H!LinkType(n)' = H!LinkType(n)
  BY DEF H!LinkType, H!TagOf, H!StartOf, H!MetaContent, H!Siblings, H!IsProperty
<1>2. H!FormOf(k)' = H!FormOf(k)
  BY <1>1 DEF H!FormOf, H!Changed
<1>3. H!BaseHrefs' = H!BaseHrefs
  BY <1>1 DEF H!BaseHrefs
<1>4. H!HasBase(k)' = H!HasBase(k)
  BY <1>3 DEF H!HasBase
<1>5. H!BaseBefore(k)' = H!BaseBefore(k)
  BY <1>3, <1>4 DEF H!BaseBefore
<1>6. H!NewBaseBefore(k)' = H!NewBaseBefore(k)
  BY <1>4, <1>5 DEF H!NewBaseBefore
<1>7. H!CallsOf(k)' = H!CallsOf(k)
  BY <1>1, <1>5, <1>6 DEF H!CallsOf
<1>. QED  BY <1>1, <1>2, <1>7

\* The tag a token belongs to.
LEMMA TagIs ==
  ASSUME NEW k \in Nat, NEW t, Under(input, k, t)
  PROVE  H!TagOf(k) = t
<1>1. PICK n \in 1 .. k :
        /\ input[n].type = "start" /\ input[n].name = t
        /\ \A m \in n + 1 .. k : input[m].type # "start"
  BY DEF Under
<1>. DEFINE s == H!StartOf(k)
<1>2. s \in 1 .. k /\ input[s].type = "start" /\ \A m \in s + 1 .. k : input[m].type # "start"
  BY <1>1 DEF H!StartOf
<1>3. s = n
  BY <1>1, <1>2
<1>. QED  BY <1>1, <1>3 DEF H!TagOf

LEMMA TagOfNext ==
  ASSUME NEW d, NEW k \in Nat, NEW t, InTag(d, k, t), d[k + 1].type # "start"
  PROVE  /\ Under(d, k + 1, t)
         /\ d[k + 1].type = "attr" => InTag(d, k + 1, t)
<1>1. PICK n \in 1 .. k : Opens(d, n, k, t)
  BY DEF InTag
<1>2. \A m \in n + 1 .. k + 1 : m \in n + 1 .. k \/ m = k + 1
  OBVIOUS
<1>. QED  BY <1>1, <1>2 DEF InTag, Under, Opens

LEMMA BaseKnown ==
  ASSUME NEW k \in Nat, input \in Seq(H!Range(input)), BaseIs(k)
  PROVE  baseURL = H!BaseBefore(k) /\ newBaseURL = H!NewBaseBefore(k)
<1>1. CASE ~H!HasBase(k) /\ baseURL = NoURL /\ newBaseURL = NoURL
  BY <1>1 DEF H!BaseBefore, H!NewBaseBefore
<1>2. ASSUME NEW b \in H!BaseHrefs,
             b < k, \A c \in H!BaseHrefs : c < k => c <= b,
             baseURL = input[b].urls[1],
             newBaseURL = IF Answer[baseURL] = "new" THEN <<"new", baseURL>> ELSE baseURL
      PROVE  baseURL = H!BaseBefore(k) /\ newBaseURL = H!NewBaseBefore(k)
  <2>. DEFINE last == CHOOSE c \in H!BaseHrefs :
                        c < k /\ \A e \in H!BaseHrefs : e < k => e <= c
  <2>1. H!BaseHrefs \subseteq Nat
    BY DEF H!BaseHrefs
  <2>2. last \in H!BaseHrefs /\ last < k /\ \A e \in H!BaseHrefs : e < k => e <= last
    BY <1>2
  <2>3. H!HasBase(k)
    BY <1>2 DEF H!HasBase
  <2>4. H!BaseBefore(k) = input[last].urls[1]
    BY <2>3 DEF H!BaseBefore
  <2>. HIDE DEF last
  <2>5. last = b
    BY <1>2, <2>1, <2>2
  <2>. QED  BY <1>2, <2>3, <2>4, <2>5 DEF H!NewBaseBefore
<1>. QED  BY <1>1, <1>2 DEF BaseIs

LEMMA BaseStays ==
  ASSUME NEW k \in Nat, input \in Seq(H!Range(input)), BaseIs(k),
         H!LinkType(k) # "base", UNCHANGED <<input, baseURL, newBaseURL>>
  PROVE  BaseIs(k + 1)'
<1>1. H!BaseHrefs' = H!BaseHrefs
  BY SamePage DEF H!BaseHrefs
<1>2. H!BaseHrefs \subseteq Nat /\ k \notin H!BaseHrefs
  BY DEF H!BaseHrefs
<1>3. \A b \in H!BaseHrefs : b < k + 1 <=> b < k
  BY <1>2
<1>. QED  BY <1>1, <1>3 DEF BaseIs, H!HasBase

LEMMA BaseRenewed ==
  ASSUME NEW k \in Nat, k \in DOMAIN input, input \in Seq(H!Range(input)),
         H!LinkType(k) = "base", UNCHANGED input, baseURL' = input[k].urls[1],
         newBaseURL' = IF Answer[baseURL'] = "new" THEN <<"new", baseURL'>> ELSE baseURL'
  PROVE  BaseIs(k + 1)'
<1>1. H!BaseHrefs' = H!BaseHrefs
  BY SamePage DEF H!BaseHrefs
<1>2. H!BaseHrefs \subseteq Nat /\ k \in H!BaseHrefs
  BY DEF H!BaseHrefs
<1>3. k < k + 1 /\ \A c \in H!BaseHrefs : c < k + 1 => c <= k
  BY <1>2
<1>. QED  BY <1>1, <1>2, <1>3 DEF BaseIs

\* What the assumption on the documents says of this one.
LEMMA Reading ==
  ASSUME input \in Documents, pos \in 0 .. Len(input)
  PROVE  /\ input \in Seq(H!Range(input))
         /\ pos \in Nat /\ Len(input) \in Nat /\ DOMAIN input = 1 .. Len(input)
         /\ H!Type # "error" =>
              /\ pos < Len(input) /\ pos + 1 \in DOMAIN input
              /\ H!Type = input[pos + 1].type /\ H!Token = input[pos + 1]
         /\ H!Type = "error" => pos = Len(input)
<1>1. input \in Seq(H!Range(input))
  BY RewriteAssumption DEF H!DocumentsAssumption
<1>2. pos \in Nat /\ Len(input) \in Nat /\ pos <= Len(input)
  BY <1>1
<1>3. DOMAIN input = 1 .. Len(input)
  BY <1>1
<1>4. \A k \in DOMAIN input : input[k].type # "error"
  BY RewriteAssumption DEF H!DocumentsAssumption
<1>5. CASE pos = Len(input)
  <2>1. H!Type = "error"
    BY <1>5 DEF H!Type, H!AtEnd
  <2>. QED  BY <1>1, <1>2, <1>3, <1>5, <2>1
<1>6. CASE pos < Len(input)
  <2>1. pos # Len(input)
    BY <1>2, <1>6
  <2>2. H!Type = input[pos + 1].type /\ H!Token = input[pos + 1]
    BY <2>1 DEF H!Type, H!Token, H!AtEnd
  <2>3. pos + 1 \in 1 .. Len(input)
    BY <1>2, <1>6
  <2>4. pos + 1 \in DOMAIN input
    BY <1>3, <2>3
  <2>5. H!Type # "error"
    BY <1>4, <2>2, <2>4
  <2>. QED  BY <1>1, <1>2, <1>3, <1>6, <2>2, <2>4, <2>5
<1>7. pos = Len(input) \/ pos < Len(input)
  BY <1>2
<1>. QED  BY <1>5, <1>6, <1>7

\* A token's links, by the tag it belongs to.
LEMMA NoLink ==
  ASSUME NEW k, input[k].type \notin {"text", "attr"}
  PROVE  H!LinkType(k) = "none"
BY DEF H!LinkType

LEMMA AttributeLink ==
  ASSUME NEW k \in Nat, NEW t, InTag(input, k - 1, t), input[k].type = "attr", t # "meta"
  PROVE  H!LinkType(k) =
           IF t = "base" THEN IF input[k].name = "href" THEN "base" ELSE "none"
           ELSE IF input[k].name = "style" THEN "css"
           ELSE IF <<t, input[k].name>> \in attributeHandlers THEN "unknown"
           ELSE "none"
<1>1. k - 1 \in Nat
  BY DEF InTag, Opens
<1>2. Under(input, k, t)
  BY <1>1, TagOfNext
<1>3. H!TagOf(k) = t
  BY <1>2, TagIs
<1>. QED  BY <1>3 DEF H!LinkType

LEMMA StartIs ==
  ASSUME NEW k \in Nat, NEW n \in Nat, NEW t, Opens(input, n, k, t)
  PROVE  H!StartOf(k) = n /\ H!TagOf(k) = t
<1>1. /\ n \in 1 .. k /\ input[n].type = "start" /\ input[n].name = t
      /\ \A m \in n + 1 .. k : input[m].type # "start"
  BY DEF Opens
<1>. DEFINE s == H!StartOf(k)
<1>2. s \in 1 .. k /\ input[s].type = "start" /\ \A m \in s + 1 .. k : input[m].type # "start"
  BY <1>1 DEF H!StartOf
<1>3. Under(input, k, t)
  BY <1>1 DEF Under
<1>. HIDE DEF s
<1>4. s = n
  BY <1>1, <1>2
<1>. QED  BY <1>3, <1>4, TagIs DEF s

\* The attributes of a meta tag that has been read, seen from one of them and
\* from the tag's end.
LEMMA MetaSiblings ==
  ASSUME NEW n \in Nat, NEW p \in Nat, p \in 1 .. Len(input), Len(input) \in Nat,
         Opens(input, n, p - 1, "meta"), input[p].type # "attr",
         NEW k \in Nat, n < k, k < p
  PROVE  H!Siblings(k) = H!MetaAttributes(p)
<1>1. 1 <= n /\ n <= p - 1 /\ p <= Len(input)
  BY DEF Opens
<1>2. input[n].type = "start" /\ \A m \in n + 1 .. p - 1 : input[m].type = "attr"
  BY DEF Opens
<1>3. Opens(input, n, k, "meta")
  <2>1. n \in 1 .. k /\ \A m \in n + 1 .. k : m \in n + 1 .. p - 1
    BY <1>1
  <2>. QED  BY <1>2, <2>1 DEF Opens
<1>4. H!StartOf(k) = n
  BY <1>3, StartIs
<1>5. \A m \in n + 1 .. Len(input) :
        (\A h \in n + 1 .. m : input[h].type = "attr") <=> m <= p - 1
  <2>. SUFFICES ASSUME NEW m \in n + 1 .. Len(input)
       PROVE  (\A h \in n + 1 .. m : input[h].type = "attr") <=> m <= p - 1
    OBVIOUS
  <2>1. m > p - 1 => p \in n + 1 .. m
    BY <1>1
  <2>2. m <= p - 1 => \A h \in n + 1 .. m : h \in n + 1 .. p - 1
    OBVIOUS
  <2>3. m \in Int
    OBVIOUS
  <2>. QED  BY <1>2, <2>1, <2>2, <2>3
<1>6. \A m \in 1 .. p - 1 :
        (\A h \in m .. p - 1 : input[h].type = "attr") <=> n + 1 <= m
  <2>. SUFFICES ASSUME NEW m \in 1 .. p - 1
       PROVE  (\A h \in m .. p - 1 : input[h].type = "attr") <=> n + 1 <= m
    OBVIOUS
  <2>1. m < n + 1 => n \in m .. p - 1
    BY <1>1
  <2>2. n + 1 <= m => \A h \in m .. p - 1 : h \in n + 1 .. p - 1
    OBVIOUS
  <2>3. m \in Int
    OBVIOUS
  <2>. QED  BY <1>2, <2>1, <2>2, <2>3
<1>7. H!Siblings(k) = {m \in n + 1 .. Len(input) : m <= p - 1}
  BY <1>4, <1>5 DEF H!Siblings
<1>8. H!MetaAttributes(p) = {m \in 1 .. p - 1 : n + 1 <= m}
  BY <1>6 DEF H!MetaAttributes
<1>. QED  BY <1>1, <1>7, <1>8

LEMMA Between ==
  ASSUME NEW p \in Nat, NEW n \in 1 .. p - 1, NEW k \in Nat, n < k, k <= p, k # p
  PROVE  /\ k < p /\ k \in n + 1 .. p - 1 /\ n \in 1 .. k
         /\ \A m \in n + 1 .. k : m \in n + 1 .. p - 1
OBVIOUS

LEMMA MetaLink ==
  ASSUME NEW n \in Nat, NEW p \in Nat, p \in 1 .. Len(input), Len(input) \in Nat,
         Opens(input, n, p - 1, "meta"),
         input[p].type \in {"close", "void"}, input[p].name = "",
         NEW k \in Nat, n < k, k <= p
  PROVE  H!LinkType(k) = IF input[k].name = "content"
                           THEN H!MetaContent(H!MetaAttributes(p)) ELSE "none"
<1>1. CASE k = p
  BY <1>1 DEF H!LinkType
<1>2. CASE k # p
  <2>1. n \in 1 .. p - 1
    BY DEF Opens
  <2>2. /\ k < p /\ k \in n + 1 .. p - 1 /\ n \in 1 .. k
        /\ \A m \in n + 1 .. k : m \in n + 1 .. p - 1
    BY <1>2, <2>1, Between
  <2>3. H!Siblings(k) = H!MetaAttributes(p)
    BY <2>2, MetaSiblings
  <2>4. \A m \in n + 1 .. p - 1 : input[m].type = "attr"
    BY DEF Opens
  <2>5. Opens(input, n, k, "meta")
    BY <2>2, <2>4 DEF Opens
  <2>6. H!TagOf(k) = "meta"
    BY <2>5, StartIs
  <2>7. input[k].type = "attr"
    BY <2>2, <2>4
  <2>. QED  BY <2>3, <2>6, <2>7 DEF H!LinkType
<1>. QED  BY <1>1, <1>2

\* The first text of a style element.
LEMMA StyleLink ==
  ASSUME NEW k \in Nat, k >= 1, InTag(input, k - 1, "style"), input[k].type = "close",
         input[k + 1].type = "text"
  PROVE  H!LinkType(k + 1) = "css"
<1>1. Under(input, k + 1, "style")
  <2>1. PICK n \in 1 .. k - 1 : Opens(input, n, k - 1, "style")
    BY DEF InTag
  <2>2. \A m \in n + 1 .. k + 1 : m \in n + 1 .. k - 1 \/ m = k \/ m = k + 1
    BY <2>1
  <2>3. \A m \in n + 1 .. k + 1 : input[m].type # "start"
    BY <2>1, <2>2 DEF Opens
  <2>4. n \in 1 .. k + 1
    BY <2>1
  <2>. QED  BY <2>1, <2>3, <2>4 DEF Under, Opens
<1>2. H!TagOf(k + 1) = "style"
  BY <1>1, TagIs
<1>. QED  BY <1>2 DEF H!LinkType

\* A text of any other element.
LEMMA TextLink ==
  ASSUME NEW k \in Nat, input[k + 1].type = "text",
         k >= 1 /\ input[k].type = "close" => \E t : t # "style" /\ Under(input, k, t)
  PROVE  H!LinkType(k + 1) = "none"
<1>1. CASE k = 0
  <2>1. k + 1 = 1 /\ \A m \in 1 .. 1 : m = 1
    BY <1>1
  <2>2. ~\E m \in 1 .. k + 1 : input[m].type = "start"
    BY <2>1
  <2>3. H!TagOf(k + 1) = ""
    BY <2>2 DEF H!TagOf
  <2>. QED  BY <2>3 DEF H!LinkType
<1>2. CASE k >= 1 /\ input[k].type = "close"
  <2>1. PICK t : t # "style" /\ Under(input, k, t)
    BY <1>2
  <2>2. PICK n \in 1 .. k :
          /\ input[n].type = "start" /\ input[n].name = t
          /\ \A m \in n + 1 .. k : input[m].type # "start"
    BY <2>1 DEF Under
  <2>3. \A m \in n + 1 .. k + 1 : m \in n + 1 .. k \/ m = k + 1
    OBVIOUS
  <2>4. Under(input, k + 1, t)
    BY <2>2, <2>3 DEF Under
  <2>5. H!TagOf(k + 1) = t
    BY <2>4, TagIs
  <2>. QED  BY <2>1, <2>5 DEF H!LinkType
<1>3. CASE k >= 1 /\ input[k].type # "close"
  BY <1>3 DEF H!LinkType
<1>. QED  BY <1>1, <1>2, <1>3

-----------------------------------------------------------------------------
(* What a step writes and offers.                                          *)

IsASequence(z) == \E R : z \in Seq(R)

\* The next token is written, and its calls are made.
WritesNext ==
  LET k == Len(output) + 1
  IN  /\ output' = Append(output, [token |-> k, form |-> H!FormOf(k)])
      /\ offers' = IF H!LinkType(k) = "none" THEN offers ELSE offers \o H!CallsOf(k)

Fails ==
  /\ pc' = "failed" /\ UNCHANGED output
  /\ \E z : IsASequence(z) /\ offers' \in {offers, offers \o z}

LEMMA EmptyIsASequence == IsASequence(<<>>)
<1>1. <<>> \in Seq({})
  OBVIOUS
<1>. QED  BY <1>1 DEF IsASequence

LEMMA CopyPage ==
  ASSUME NEW k, k = Len(output) + 1, NEW next, H!Emit(k, "raw", next),
         H!LinkType(k) = "none", UNCHANGED offers
  PROVE  (WritesNext /\ pc' = next) \/ Fails
<1>1. H!FormOf(k) = "raw"
  BY DEF H!FormOf
<1>2. CASE output' = Append(output, [token |-> k, form |-> "raw"]) /\ pc' = next
  BY <1>1, <1>2 DEF WritesNext
<1>3. CASE H!Fail
  BY <1>3, EmptyIsASequence DEF H!Fail, Fails
<1>. QED  BY <1>2, <1>3 DEF H!Emit

\* The calls for a token are some of its URLs, all of them if none is refused.
LEMMA OfferedAll ==
  ASSUME NEW urls \in Seq(DOMAIN Answer), ~\E n \in DOMAIN urls : Answer[urls[n]] = "error"
  PROVE  H!OfferedURLs(urls) = urls
<1>1. H!OfferedURLs(urls) = SubSeq(urls, 1, Len(urls))
  BY DEF H!OfferedURLs
<1>. QED  BY <1>1

LEMMA NatLeast ==
  ASSUME NEW R, R \subseteq Nat, R # {}
  PROVE  \E x \in R : \A y \in R : ~(y < x)
<1>1. \E x \in R : \A y \in R : ~(<<y, x>> \in OpToRel(<, Nat))
  BY NatLessThanWellFounded, WFMin
<1>2. \A x, y \in Nat : y < x => <<y, x>> \in OpToRel(<, Nat)
  BY DEF OpToRel
<1>. QED  BY <1>1, <1>2

LEMMA OfferedSome ==
  ASSUME NEW urls \in Seq(DOMAIN Answer)
  PROVE  H!OfferedURLs(urls) \in Seq(DOMAIN Answer)
<1>1. CASE ~\E n \in DOMAIN urls : Answer[urls[n]] = "error"
  BY <1>1, OfferedAll
<1>2. CASE \E n \in DOMAIN urls : Answer[urls[n]] = "error"
  <2>. DEFINE R == {n \in DOMAIN urls : Answer[urls[n]] = "error"}
              last == CHOOSE n \in DOMAIN urls :
                        /\ Answer[urls[n]] = "error"
                        /\ \A m \in 1 .. n - 1 : Answer[urls[m]] # "error"
  <2>1. R \subseteq Nat /\ R # {} /\ DOMAIN urls = 1 .. Len(urls)
    BY <1>2
  <2>2. PICK x \in R : \A y \in R : ~(y < x)
    <3>. HIDE DEF R
    <3>. QED  BY <2>1, NatLeast
  <2>3. x \in DOMAIN urls /\ Answer[urls[x]] = "error"
    OBVIOUS
  <2>4. \A m \in 1 .. x - 1 : m \in DOMAIN urls /\ m < x
    BY <2>1, <2>3
  <2>5. \A m \in 1 .. x - 1 : Answer[urls[m]] # "error"
    BY <2>2, <2>4
  <2>6. last \in DOMAIN urls
    BY <2>3, <2>5
  <2>7. H!OfferedURLs(urls) = SubSeq(urls, 1, last)
    BY <1>2 DEF H!OfferedURLs
  <2>. HIDE DEF last
  <2>8. SubSeq(urls, 1, last) \in Seq(DOMAIN Answer)
    BY <2>1, <2>6
  <2>. QED  BY <2>7, <2>8
<1>. QED  BY <1>1, <1>2

\* A link is offered, and written if it is not refused.
LEMMA RewritePage ==
  ASSUME NEW k, k = Len(output) + 1, input[k].urls \in Seq(DOMAIN Answer),
         NEW type, H!LinkType(k) = type, type # "none",
         type = "unknown" =>
           baseURL = H!BaseBefore(k) /\ newBaseURL = H!NewBaseBefore(k),
         NEW next, H!RewriteAttribute(k, type, next)
  PROVE  \/ WritesNext /\ pc' = next /\ input[k].ok /\ ~H!Refused(k)
         \/ Fails
<1>1. CASE ~input[k].ok
  BY <1>1, EmptyIsASequence DEF H!RewriteAttribute, H!Fail, Fails
<1>2. CASE input[k].ok
  <2>. DEFINE urls == input[k].urls
              z == [n \in DOMAIN H!OfferedURLs(urls) |->
                      H!Offer(k, H!OfferedURLs(urls)[n], type)]
  <2>1. offers' = offers \o z
    BY <1>2 DEF H!RewriteAttribute, H!OfferAll
  <2>2. IsASequence(z)
    <3>1. DOMAIN H!OfferedURLs(urls) = 1 .. Len(H!OfferedURLs(urls))
          /\ Len(H!OfferedURLs(urls)) \in Nat
      BY OfferedSome
    <3>2. z \in Seq({z[n] : n \in 1 .. Len(H!OfferedURLs(urls))})
      BY <3>1
    <3>. QED  BY <3>2 DEF IsASequence
  <2>3. CASE H!Fail
    <3>. HIDE DEF z
    <3>. QED  BY <2>1, <2>2, <2>3 DEF H!Fail, Fails
  <2>4. CASE ~H!Refused(k)
    <3>1. H!OfferedURLs(urls) = urls
      BY <2>4, OfferedAll DEF H!Refused
    <3>2. H!CallsOf(k) = [n \in DOMAIN urls |-> H!Offer(k, urls[n], type)]
      BY DEF H!CallsOf, H!Offer
    <3>3. z = H!CallsOf(k)
      BY <3>1, <3>2
    <3>4. H!FormOf(k) = IF H!Changed(k) \/ type = "css" THEN "rewritten" ELSE "raw"
      BY DEF H!FormOf
    <3>5. H!Emit(k, H!FormOf(k), next)
      BY <1>2, <2>4, <3>4 DEF H!RewriteAttribute
    <3>6. CASE H!Fail
      BY <2>3, <3>6
    <3>7. CASE output' = Append(output, [token |-> k, form |-> H!FormOf(k)]) /\ pc' = next
      <4>. HIDE DEF z
      <4>1. offers' = offers \o H!CallsOf(k)
        BY <2>1, <3>3
      <4>. QED  BY <1>2, <2>4, <3>7, <4>1 DEF WritesNext
    <3>. QED  BY <3>5, <3>6, <3>7 DEF H!Emit
  <2>. QED  BY <1>2, <2>3, <2>4 DEF H!RewriteAttribute
<1>. QED  BY <1>1, <1>2

-----------------------------------------------------------------------------
(* FlattenSeq, one sequence more.                                          *)

\* Induction, for a set of numbers instead of a predicate.
LEMMA NatInductionSet ==
  ASSUME NEW R, R \subseteq Nat, 0 \in R, \A n \in R : n + 1 \in R
  PROVE  R = Nat
<1>. SUFFICES ASSUME Nat \ R # {} PROVE FALSE
  OBVIOUS
<1>1. PICK x \in Nat \ R : \A y \in Nat \ R : ~(y < x)
  BY NatLeast
<1>2. x # 0 /\ x - 1 \in Nat
  BY <1>1
<1>. QED  BY <1>1, <1>2

\* f[k] is the first k sequences of s, one after the other.
Flattens(s, m, f) ==
  f = [k \in 1 .. m |-> IF k = 1 THEN s[k] ELSE f[k - 1] \o s[k]]

LEMMA FlattensExists ==
  ASSUME NEW s, NEW m \in Nat PROVE \E f : Flattens(s, m, f)
<1>. DEFINE R == {n \in Nat : \E f : Flattens(s, n, f)}
<1>1. 0 \in R
  <2>. DEFINE f == [k \in 1 .. 0 |-> s[k]]
  <2>1. f = [k \in 1 .. 0 |-> IF k = 1 THEN s[k] ELSE f[k - 1] \o s[k]]
    OBVIOUS
  <2>. HIDE DEF f
  <2>2. Flattens(s, 0, f)
    BY <2>1 DEF Flattens
  <2>. QED  BY <2>2
<1>2. ASSUME NEW n \in R PROVE n + 1 \in R
  <2>1. PICK f : Flattens(s, n, f)
    OBVIOUS
  <2>. DEFINE g == [k \in 1 .. n + 1 |->
                      IF k = 1 THEN s[k] ELSE f[k - 1] \o s[k]]
  <2>2. n \in Nat
    OBVIOUS
  <2>3. \A k \in 1 .. n : f[k] = IF k = 1 THEN s[k] ELSE f[k - 1] \o s[k]
    BY <2>1 DEF Flattens
  <2>4. \A k \in 1 .. n : g[k] = f[k]
    BY <2>2, <2>3
  <2>5. \A k \in 1 .. n + 1 : k # 1 => g[k - 1] = f[k - 1]
    <3>. HIDE DEF g
    <3>. QED  BY <2>2, <2>4
  <2>6. g = [k \in 1 .. n + 1 |-> IF k = 1 THEN s[k] ELSE g[k - 1] \o s[k]]
    BY <2>5
  <2>. HIDE DEF g
  <2>7. Flattens(s, n + 1, g)
    BY <2>6 DEF Flattens
  <2>. QED  BY <2>2, <2>7
<1>3. R = Nat
  <2>. HIDE DEF R
  <2>1. R \subseteq Nat
    BY DEF R
  <2>. QED  BY <1>1, <1>2, <2>1, NatInductionSet
<1>. QED  BY <1>3

Agree(Q, s, t, m) == \A k \in 1 .. m : s[k] \in Seq(Q) /\ s[k] = t[k]

\* What it is does not depend on what follows, and it is a sequence.
LEMMA FlattensAgree ==
  ASSUME NEW Q, NEW s, NEW t, NEW m \in Nat, NEW n \in Nat, m <= n,
         Agree(Q, s, t, m),
         NEW f, NEW g, Flattens(s, m, f), Flattens(t, n, g)
  PROVE  Agree(Q, f, g, m)
<1>. DEFINE R == {k \in Nat : k \in 1 .. m => f[k] \in Seq(Q) /\ f[k] = g[k]}
<1>1. 0 \in R
  OBVIOUS
<1>2. ASSUME NEW k \in R PROVE k + 1 \in R
  <2>. SUFFICES ASSUME k + 1 \in 1 .. m
       PROVE  f[k + 1] \in Seq(Q) /\ f[k + 1] = g[k + 1]
    OBVIOUS
  <2>1. k \in Nat /\ k + 1 \in 1 .. n /\ (k + 1) - 1 = k
    OBVIOUS
  <2>2. /\ f[k + 1] = IF k + 1 = 1 THEN s[k + 1] ELSE f[(k + 1) - 1] \o s[k + 1]
        /\ g[k + 1] = IF k + 1 = 1 THEN t[k + 1] ELSE g[(k + 1) - 1] \o t[k + 1]
    BY <2>1 DEF Flattens
  <2>3. s[k + 1] \in Seq(Q) /\ s[k + 1] = t[k + 1]
    BY DEF Agree
  <2>4. CASE k = 0
    BY <2>2, <2>3, <2>4
  <2>5. CASE k # 0
    <3>1. k \in 1 .. m /\ k + 1 # 1
      BY <2>1, <2>5
    <3>2. f[k] \in Seq(Q) /\ f[k] = g[k]
      BY <3>1
    <3>3. f[k + 1] = f[k] \o s[k + 1] /\ g[k + 1] = g[k] \o t[k + 1]
      BY <2>1, <2>2, <3>1
    <3>4. f[k] \o s[k + 1] \in Seq(Q)
      BY <2>3, <3>2
    <3>. QED  BY <2>3, <3>2, <3>3, <3>4
  <2>. QED  BY <2>4, <2>5
<1>3. R = Nat
  <2>. HIDE DEF R
  <2>1. R \subseteq Nat
    BY DEF R
  <2>. QED  BY <1>1, <1>2, <2>1, NatInductionSet
<1>. QED  BY <1>3 DEF Agree

LEMMA FlattenIs ==
  ASSUME NEW s, Len(s) \in Nat, Len(s) # 0
  PROVE  \E f : Flattens(s, Len(s), f) /\ H!FlattenSeq(s) = f[Len(s)]
<1>. DEFINE f == CHOOSE f : Flattens(s, Len(s), f)
<1>1. Flattens(s, Len(s), f)
  BY FlattensExists
<1>2. H!FlattenSeq(s) = f[Len(s)]
  BY DEF H!FlattenSeq, Flattens
<1>. QED  BY <1>1, <1>2

LEMMA FlattenAppend ==
  ASSUME NEW Q, NEW s \in Seq(Seq(Q)), NEW x \in Seq(Q)
  PROVE  /\ H!FlattenSeq(s) \in Seq(Q)
         /\ H!FlattenSeq(Append(s, x)) = H!FlattenSeq(s) \o x
<1>. DEFINE n == Len(s)
            t == Append(s, x)
<1>1. /\ n \in Nat /\ Len(t) = n + 1 /\ Len(t) \in Nat /\ Len(t) # 0
      /\ \A k \in 1 .. n : s[k] \in Seq(Q) /\ s[k] = t[k]
      /\ t[n + 1] = x
  OBVIOUS
<1>. HIDE DEF t
<1>2. PICK g : Flattens(t, n + 1, g) /\ H!FlattenSeq(t) = g[n + 1]
  BY <1>1, FlattenIs
<1>3. g[n + 1] = IF n + 1 = 1 THEN t[n + 1] ELSE g[(n + 1) - 1] \o t[n + 1]
  <2>. HIDE DEF n
  <2>1. \A k \in 1 .. n + 1 : g[k] = IF k = 1 THEN t[k] ELSE g[k - 1] \o t[k]
    BY <1>2, Zenon DEF Flattens
  <2>2. n + 1 \in 1 .. n + 1
    BY <1>1
  <2>. QED  BY <2>1, <2>2, Zenon
<1>4. CASE n = 0
  <2>1. s = <<>>
    BY <1>4
  <2>2. H!FlattenSeq(s) = <<>>
    BY <1>4, <2>1 DEF H!FlattenSeq
  <2>3. <<>> \in Seq(Q) /\ <<>> \o x = x
    OBVIOUS
  <2>. QED  BY <1>1, <1>2, <1>3, <1>4, <2>2, <2>3 DEF t
<1>5. CASE n # 0
  <2>1. PICK f : Flattens(s, n, f) /\ H!FlattenSeq(s) = f[n]
    BY <1>1, <1>5, FlattenIs
  <2>2. f[n] \in Seq(Q) /\ f[n] = g[n]
    <3>. HIDE DEF n
    <3>1. n <= n + 1 /\ n + 1 \in Nat /\ n \in 1 .. n
      BY <1>1, <1>5
    <3>2. n \in Nat /\ Agree(Q, s, t, n)
      BY <1>1 DEF Agree
    <3>3. Flattens(s, n, f) /\ Flattens(t, n + 1, g)
      BY <1>2, <2>1
    <3>4. Agree(Q, f, g, n)
      BY <3>1, <3>2, <3>3, FlattensAgree
    <3>. QED  BY <3>1, <3>4 DEF Agree
  <2>3. n + 1 # 1 /\ (n + 1) - 1 = n
    BY <1>1, <1>5
  <2>. QED  BY <1>1, <1>2, <1>3, <2>1, <2>2, <2>3 DEF t
<1>. QED  BY <1>4, <1>5

-----------------------------------------------------------------------------
(* The steps.                                                              *)

\* A step that writes the next token and goes on.
NextOK ==
  /\ WritesNext /\ pc' # "failed" /\ Len(output) + 1 <= pos'
  /\ PlaceOK(input, pos', pc', Len(output) + 1, tag', pending')
  /\ \E k : k = Len(output) + 2 /\ BaseIs(k)'

\* A step that writes nothing and goes on.
KeepOK ==
  /\ UNCHANGED <<output, offers, baseURL, newBaseURL>> /\ pc' # "failed"
  /\ PlaceOK(input, pos', pc', Len(output), tag', pending')

LEMMA PageFacts ==
  ASSUME PageInv, pc # "failed"
  PROVE  /\ input \in Documents /\ pos \in 0 .. Len(input)
         /\ Len(output) \in Nat /\ Len(output) <= pos
         /\ PlaceOK(input, pos, pc, Len(output), tag, pending)
         /\ BaseIs(Len(output) + 1)
         /\ baseURL = H!BaseBefore(Len(output) + 1)
         /\ newBaseURL = H!NewBaseBefore(Len(output) + 1)
<1>1. /\ input \in Documents /\ pos \in 0 .. Len(input)
      /\ output \in Written /\ Len(output) <= pos
      /\ PlaceOK(input, pos, pc, Len(output), tag, pending)
  BY DEF PageInv
<1>2. Len(output) \in Nat
  BY <1>1, LenProperties DEF Written
<1>3. BaseIs(Len(output) + 1)
  BY SMTT(30) DEF PageInv
<1>4. input \in Seq(H!Range(input))
  BY <1>1, Reading
<1>5. Len(output) + 1 \in Nat
  BY <1>2
<1>. QED  BY <1>1, <1>2, <1>3, <1>4, <1>5, BaseKnown

LEMMA Copied ==
  ASSUME PageInv, pc # "failed", NEW next, next # "failed",
         H!Emit(Len(output) + 1, "raw", next), H!LinkType(Len(output) + 1) = "none",
         UNCHANGED <<input, offers, baseURL, newBaseURL>>, Len(output) + 1 <= pos',
         PlaceOK(input, pos', next, Len(output) + 1, tag', pending')
  PROVE  NextOK \/ Fails
<1>1. (WritesNext /\ pc' = next) \/ Fails
  BY CopyPage
<1>2. PICK k : k = Len(output) + 1
  OBVIOUS
<1>3. /\ k \in Nat /\ k + 1 = Len(output) + 2
      /\ BaseIs(k) /\ H!LinkType(k) # "base" /\ input \in Seq(H!Range(input))
  BY <1>2, PageFacts, Reading
<1>4. BaseIs(k + 1)'
  BY <1>3, BaseStays
<1>5. \E h : h = Len(output) + 2 /\ BaseIs(h)'
  BY <1>3, <1>4
<1>. QED  BY <1>1, <1>5 DEF NextOK

\* A link other than a base.
LEMMA LinkWritten ==
  ASSUME PageInv, pc # "failed", NEW next, next # "failed",
         Len(output) + 1 \in DOMAIN input,
         NEW type, H!LinkType(Len(output) + 1) = type, type \notin {"none", "base"},
         H!RewriteAttribute(Len(output) + 1, type, next),
         UNCHANGED <<input, baseURL, newBaseURL>>, Len(output) + 1 <= pos',
         PlaceOK(input, pos', next, Len(output) + 1, tag', pending')
  PROVE  NextOK \/ Fails
<1>1. PICK k : k = Len(output) + 1
  OBVIOUS
<1>2. /\ k \in Nat /\ k + 1 = Len(output) + 2 /\ input \in Documents
      /\ BaseIs(k) /\ H!LinkType(k) # "base" /\ input \in Seq(H!Range(input))
  BY <1>1, PageFacts, Reading
<1>3. input[k].urls \in Seq(DOMAIN Answer)
  BY <1>1, <1>2, RewriteAssumption DEF H!DocumentsAssumption
<1>4. (WritesNext /\ pc' = next) \/ Fails
  BY <1>1, <1>3, PageFacts, RewritePage
<1>5. BaseIs(k + 1)'
  BY <1>2, BaseStays
<1>6. \E h : h = Len(output) + 2 /\ BaseIs(h)'
  BY <1>2, <1>5
<1>. QED  BY <1>4, <1>6 DEF NextOK

\* Reading and writing one token goes on with nothing pending.
LEMMA NothingPending ==
  ASSUME NEW n \in Nat, NEW attributes, PendingOK(n, n, attributes)
  PROVE  attributes = <<>> /\ PendingOK(n + 1, n + 1, attributes)
<1>1. attributes \in Seq(Nat) /\ Len(attributes) = 0
  BY DEF PendingOK
<1>2. \A k \in 1 .. (n + 1) - (n + 1) : attributes[k] = (n + 1) + k
  OBVIOUS
<1>. QED  BY <1>1, <1>2 DEF PendingOK

LEMMA StartTagOK ==
  ASSUME PageInv, H!StartTag
  PROVE  input' = input /\ pos' \in 0 .. Len(input) /\ (NextOK \/ Fails)
<1>. DEFINE next == IF H!Token.name = "meta" THEN "readMeta" ELSE "attributes"
<1>1. /\ pc = "html" /\ H!Type = "start" /\ pos' = pos + 1 /\ input' = input
      /\ tag' = H!Token.name /\ H!Emit(pos + 1, "raw", next)
      /\ UNCHANGED <<pending, baseURL, newBaseURL, offers>>
  BY DEF H!StartTag, H!Advance, H!Copy
<1>2. /\ pos \in Nat /\ Len(input) \in Nat /\ pos < Len(input) /\ H!Token = input[pos + 1]
      /\ input[pos + 1].type = "start"
  BY <1>1, PageFacts, Reading
<1>3. Len(output) = pos /\ PendingOK(pos, pos, pending)
  BY <1>1, PageFacts DEF PlaceOK
<1>4. H!LinkType(pos + 1) = "none"
  BY <1>2, NoLink
<1>5. Opens(input, pos + 1, pos + 1, H!Token.name)
  BY <1>2 DEF Opens
<1>6. PendingOK(pos + 1, pos + 1, pending)
  BY <1>2, <1>3, NothingPending
<1>7. PlaceOK(input, pos + 1, next, pos + 1, H!Token.name, pending)
  <2>1. CASE H!Token.name = "meta"
    BY <1>5, <1>6, <2>1 DEF PlaceOK
  <2>2. CASE H!Token.name # "meta"
    <3>1. InTag(input, pos + 1, H!Token.name)
      BY <1>2, <1>5 DEF InTag
    <3>. QED  BY <1>6, <2>2, <3>1 DEF PlaceOK
  <2>. QED  BY <2>1, <2>2
<1>8. pos + 1 \in 0 .. Len(input) /\ pos + 1 <= pos + 1
  BY <1>2
<1>9. pc # "failed" /\ next # "failed"
  BY <1>1
<1>. HIDE DEF next
<1>. QED  BY <1>1, <1>3, <1>4, <1>7, <1>8, <1>9, Copied

\* Where every token is written as it is read.
LEMMA Straight ==
  ASSUME PageInv, pc \in {"html", "attributes", "style"}, H!Type # "error", H!Advance
  PROVE  /\ pos' = pos + 1 /\ input' = input
         /\ pos \in Nat /\ Len(input) \in Nat /\ pos < Len(input)
         /\ pos + 1 \in 0 .. Len(input) /\ pos + 1 \in DOMAIN input /\ pos + 1 <= pos + 1
         /\ H!Type = input[pos + 1].type /\ H!Token = input[pos + 1]
         /\ Len(output) = pos /\ PendingOK(pos + 1, pos + 1, pending)
<1>1. pc # "failed"
  OBVIOUS
<1>2. Len(output) = pos /\ PendingOK(pos, pos, pending)
  BY <1>1, PageFacts DEF PlaceOK
<1>3. input \in Documents /\ pos \in 0 .. Len(input)
  BY <1>1, PageFacts, SMTT(30)
<1>4. /\ pos \in Nat /\ Len(input) \in Nat /\ pos < Len(input) /\ pos + 1 \in DOMAIN input
      /\ H!Type = input[pos + 1].type /\ H!Token = input[pos + 1]
  BY <1>3, Reading
<1>5. PendingOK(pos + 1, pos + 1, pending)
  BY <1>2, <1>4, NothingPending
<1>6. pos + 1 \in 0 .. Len(input) /\ pos + 1 <= pos + 1
  BY <1>4
<1>. QED  BY <1>2, <1>4, <1>5, <1>6 DEF H!Advance

LEMMA OtherTokenOK ==
  ASSUME PageInv, H!OtherToken
  PROVE  input' = input /\ pos' \in 0 .. Len(input) /\ (NextOK \/ Fails)
<1>1. /\ pc = "html" /\ H!Type \in {"text", "end"} /\ H!Advance
      /\ H!Emit(pos + 1, "raw", "html")
      /\ UNCHANGED <<tag, pending, baseURL, newBaseURL, offers>>
  BY DEF H!OtherToken, H!Copy, H!attrVars
<1>2. pc \in {"html", "attributes", "style"} /\ pc # "failed" /\ H!Type # "error"
  BY <1>1
<1>3. input[pos + 1].type \in {"text", "end"}
  BY <1>1, <1>2, Straight
<1>4. pos \in Nat /\ (pos >= 1 /\ input[pos].type = "close" =>
                        \E t : t # "style" /\ Under(input, pos, t))
  BY <1>1, <1>2, PageFacts, Straight DEF PlaceOK
<1>5. H!LinkType(pos + 1) = "none"
  BY <1>3, <1>4, NoLink, TextLink
<1>6. PlaceOK(input, pos + 1, "html", pos + 1, tag, pending)
  BY <1>1, <1>2, <1>3, Straight DEF PlaceOK
<1>. QED  BY <1>1, <1>2, <1>5, <1>6, Copied, Straight

LEMMA EndOfInputOK ==
  ASSUME PageInv, H!EndOfInput
  PROVE  input' = input /\ pos' \in 0 .. Len(input) /\ (KeepOK \/ Fails)
<1>1. /\ H!Type = "error" /\ pc' = IF pc = "html" THEN "done" ELSE "failed"
      /\ UNCHANGED <<input, pos, tag, pending, baseURL, newBaseURL, output, offers>>
      /\ pc # "failed"
  BY DEF H!EndOfInput, H!attrVars
<1>2. input \in Documents /\ pos \in 0 .. Len(input)
  BY <1>1, PageFacts, SMTT(30)
<1>3. pos = Len(input)
  BY <1>1, <1>2, Reading
<1>4. CASE pc = "html"
  <2>1. PlaceOK(input, pos, "html", Len(output), tag, pending)
    BY <1>4, PageFacts
  <2>2. PlaceOK(input, pos, "done", Len(output), tag, pending)
    BY <1>3, <2>1 DEF PlaceOK
  <2>. QED  BY <1>1, <1>2, <1>4, <2>2 DEF KeepOK
<1>5. CASE pc # "html"
  BY <1>1, <1>2, <1>5, EmptyIsASequence DEF Fails
<1>. QED  BY <1>4, <1>5

\* An attribute of a tag that is not read ahead.
LEMMA AttributeFacts ==
  ASSUME PageInv, pc = "attributes", H!Type = "attr", H!Advance
  PROVE  /\ H!LinkType(pos + 1) =
              IF tag = "base" THEN IF H!Token.name = "href" THEN "base" ELSE "none"
              ELSE IF H!Token.name = "style" THEN "css"
              ELSE IF <<tag, H!Token.name>> \in attributeHandlers THEN "unknown"
              ELSE "none"
         /\ PlaceOK(input, pos + 1, "attributes", pos + 1, tag, pending)
<1>1. pc \in {"html", "attributes", "style"} /\ pc # "failed" /\ H!Type # "error"
  OBVIOUS
<1>2. tag # "meta" /\ InTag(input, pos, tag)
  BY <1>1, PageFacts DEF PlaceOK
<1>3. /\ pos \in Nat /\ input[pos + 1].type = "attr" /\ H!Token = input[pos + 1]
      /\ PendingOK(pos + 1, pos + 1, pending)
  BY <1>1, Straight
<1>4. (pos + 1) - 1 = pos /\ pos + 1 \in Nat
  BY <1>3
<1>5. InTag(input, pos + 1, tag)
  BY <1>2, <1>3, TagOfNext
<1>6. PlaceOK(input, pos + 1, "attributes", pos + 1, tag, pending)
  BY <1>2, <1>3, <1>5 DEF PlaceOK
<1>. QED  BY <1>2, <1>3, <1>4, <1>6, AttributeLink

LEMMA PlainAttributeOK ==
  ASSUME PageInv, H!PlainAttribute
  PROVE  input' = input /\ pos' \in 0 .. Len(input) /\ (NextOK \/ Fails)
<1>1. /\ pc = "attributes" /\ H!Type = "attr" /\ H!Advance
      /\ ~H!HasHandler(tag, H!Token.name) /\ H!Emit(pos + 1, "raw", "attributes")
      /\ UNCHANGED <<tag, pending, baseURL, newBaseURL, offers>>
  BY DEF H!PlainAttribute, H!Copy, H!attrVars
<1>2. pc \in {"html", "attributes", "style"} /\ pc # "failed" /\ H!Type # "error"
  BY <1>1
<1>3. H!LinkType(pos + 1) = "none"
  BY <1>1, AttributeFacts DEF H!HasHandler
<1>4. PlaceOK(input, pos + 1, "attributes", pos + 1, tag, pending)
  BY <1>1, AttributeFacts
<1>. QED  BY <1>1, <1>2, <1>3, <1>4, Copied, Straight

LEMMA HandledAttributeOK ==
  ASSUME PageInv, H!HandledAttribute
  PROVE  input' = input /\ pos' \in 0 .. Len(input) /\ (NextOK \/ Fails)
<1>. DEFINE type == IF H!Token.name = "style" THEN "css" ELSE "unknown"
<1>1. /\ pc = "attributes" /\ H!Type = "attr" /\ H!Advance
      /\ tag # "base" /\ H!HasHandler(tag, H!Token.name)
      /\ H!RewriteAttribute(pos + 1, type, "attributes")
      /\ UNCHANGED <<tag, pending, baseURL, newBaseURL>>
  BY DEF H!HandledAttribute, H!attrVars
<1>2. pc \in {"html", "attributes", "style"} /\ pc # "failed" /\ H!Type # "error"
  BY <1>1
<1>3. H!LinkType(pos + 1) = type
  BY <1>1, AttributeFacts DEF H!HasHandler
<1>4. PlaceOK(input, pos + 1, "attributes", pos + 1, tag, pending)
  BY <1>1, AttributeFacts
<1>5. type \notin {"none", "base"}
  OBVIOUS
<1>. HIDE DEF type
<1>. QED  BY <1>1, <1>2, <1>3, <1>4, <1>5, LinkWritten, Straight

LEMMA BaseHrefOK ==
  ASSUME PageInv, H!BaseHref
  PROVE  input' = input /\ pos' \in 0 .. Len(input) /\ (NextOK \/ Fails)
<1>1. /\ pc = "attributes" /\ H!Type = "attr" /\ H!Advance
      /\ tag = "base" /\ H!Token.name = "href"
      /\ H!RewriteAttribute(pos + 1, "base", "attributes")
      /\ UNCHANGED <<tag, pending>>
  BY DEF H!BaseHref
<1>2. pc \in {"html", "attributes", "style"} /\ pc # "failed" /\ H!Type # "error"
  BY <1>1
<1>3. PICK k : k = pos + 1
  OBVIOUS
<1>4. /\ pos' = k /\ input' = input /\ k \in 0 .. Len(input) /\ k \in DOMAIN input
      /\ k \in Nat /\ k <= k /\ k + 1 = pos + 2 /\ Len(output) = pos
      /\ H!Token = input[k] /\ input[k].type = "attr"
  BY <1>1, <1>2, <1>3, Straight
<1>5. H!LinkType(k) = "base" /\ PlaceOK(input, k, "attributes", k, tag, pending)
  BY <1>1, <1>3, AttributeFacts
<1>6. input \in Documents /\ input \in Seq(H!Range(input))
  BY <1>2, PageFacts, Reading
<1>7. /\ input[k].urls \in Seq(DOMAIN Answer)
      /\ input[k].ok => input[k].urls # <<>>
  BY <1>1, <1>4, <1>6, RewriteAssumption DEF H!DocumentsAssumption
<1>8. \/ WritesNext /\ pc' = "attributes" /\ input[k].ok /\ ~H!Refused(k)
      \/ Fails
  BY <1>1, <1>3, <1>4, <1>5, <1>7, RewritePage
<1>9. CASE WritesNext /\ pc' = "attributes" /\ input[k].ok /\ ~H!Refused(k)
  <2>. DEFINE u == input[k].urls[1]
  <2>1. 1 \in DOMAIN input[k].urls /\ u \in DOMAIN Answer
    BY <1>7, <1>9
  <2>2. Answer[u] \in {"same", "new"}
    BY <1>9, <2>1, RewriteAssumption DEF H!AnswerAssumption, H!Refused
  <2>3. baseURL' = u
    BY <1>4, <1>9 DEF H!BaseHref
  <2>4. newBaseURL' = IF Answer[u] = "new" THEN <<"new", u>> ELSE u
    <3>1. CASE Answer[u] = "same"
      BY <1>4, <1>9, <3>1 DEF H!BaseHref
    <3>2. CASE Answer[u] = "new"
      BY <1>4, <1>9, <3>2 DEF H!BaseHref
    <3>. QED  BY <2>2, <3>1, <3>2
  <2>5. BaseIs(k + 1)'
    BY <1>4, <1>5, <1>6, <2>3, <2>4, BaseRenewed
  <2>6. \E h : h = Len(output) + 2 /\ BaseIs(h)'
    BY <1>4, <2>5
  <2>. QED  BY <1>1, <1>3, <1>4, <1>5, <1>9, <2>6 DEF NextOK
<1>. QED  BY <1>4, <1>8, <1>9

LEMMA EndOfTagOK ==
  ASSUME PageInv, H!EndOfTag
  PROVE  input' = input /\ pos' \in 0 .. Len(input) /\ (NextOK \/ Fails)
<1>. DEFINE next == IF tag = "style" /\ H!Type = "close" THEN "style" ELSE "html"
<1>1. /\ pc = "attributes" /\ H!Type \in {"close", "void"} /\ H!Advance
      /\ H!Emit(pos + 1, "raw", next)
      /\ UNCHANGED <<tag, pending, baseURL, newBaseURL, offers>>
  BY DEF H!EndOfTag, H!Copy, H!attrVars
<1>2. pc \in {"html", "attributes", "style"} /\ pc # "failed" /\ H!Type # "error"
  BY <1>1
<1>3. /\ pos \in Nat /\ input[pos + 1].type = H!Type
      /\ PendingOK(pos + 1, pos + 1, pending)
  BY <1>2, <1>1, Straight
<1>4. H!LinkType(pos + 1) = "none"
  BY <1>1, <1>3, NoLink
<1>5. InTag(input, pos, tag)
  BY <1>1, <1>2, PageFacts DEF PlaceOK
<1>6. Under(input, pos + 1, tag)
  BY <1>1, <1>3, <1>5, TagOfNext
<1>7. (pos + 1) - 1 = pos /\ pos + 1 >= 1
  BY <1>3
<1>8. PlaceOK(input, pos + 1, next, pos + 1, tag, pending)
  <2>1. CASE tag = "style" /\ H!Type = "close"
    BY <1>3, <1>5, <1>7, <2>1 DEF PlaceOK
  <2>2. CASE ~(tag = "style" /\ H!Type = "close")
    BY <1>1, <1>3, <1>6, <2>2 DEF PlaceOK
  <2>. QED  BY <2>1, <2>2
<1>9. next # "failed"
  OBVIOUS
<1>. HIDE DEF next
<1>. QED  BY <1>1, <1>2, <1>4, <1>8, <1>9, Copied, Straight

LEMMA EndOfStyleOK ==
  ASSUME PageInv, H!EndOfStyle
  PROVE  input' = input /\ pos' \in 0 .. Len(input) /\ (NextOK \/ Fails)
<1>1. /\ pc = "style" /\ H!Type = "end" /\ H!Advance
      /\ H!Emit(pos + 1, "raw", "html")
      /\ UNCHANGED <<tag, pending, baseURL, newBaseURL, offers>>
  BY DEF H!EndOfStyle, H!Copy, H!attrVars
<1>2. pc \in {"html", "attributes", "style"} /\ pc # "failed" /\ H!Type # "error"
  BY <1>1
<1>3. input[pos + 1].type = "end" /\ PendingOK(pos + 1, pos + 1, pending)
  BY <1>1, <1>2, Straight
<1>4. H!LinkType(pos + 1) = "none"
  BY <1>3, NoLink
<1>5. PlaceOK(input, pos + 1, "html", pos + 1, tag, pending)
  BY <1>3 DEF PlaceOK
<1>. QED  BY <1>1, <1>2, <1>4, <1>5, Copied, Straight

LEMMA StyleTextOK ==
  ASSUME PageInv, H!StyleText
  PROVE  input' = input /\ pos' \in 0 .. Len(input) /\ (NextOK \/ Fails)
<1>1. /\ pc = "style" /\ H!Type = "text" /\ H!Advance
      /\ H!RewriteAttribute(pos + 1, "css", "style")
      /\ UNCHANGED <<tag, pending, baseURL, newBaseURL>>
  BY DEF H!StyleText, H!attrVars
<1>2. pc \in {"html", "attributes", "style"} /\ pc # "failed" /\ H!Type # "error"
  BY <1>1
<1>3. /\ input[pos + 1].type = "text" /\ PendingOK(pos + 1, pos + 1, pending)
      /\ pos \in Nat /\ Len(input) \in Nat /\ pos < Len(input)
  BY <1>1, <1>2, Straight
<1>4. pos >= 1 /\ input[pos].type = "close" /\ InTag(input, pos - 1, "style")
  <2>1. \/ pos >= 1 /\ input[pos].type = "close" /\ InTag(input, pos - 1, "style")
        \/ pos >= 1 /\ input[pos].type = "text" /\
             (pos < Len(input) => input[pos + 1].type # "text")
    BY <1>1, <1>2, PageFacts DEF PlaceOK
  <2>. QED  BY <1>3, <2>1
<1>5. H!LinkType(pos + 1) = "css"
  BY <1>3, <1>4, StyleLink
<1>6. pos + 1 < Len(input) => input[pos + 2].type # "text"
  <2>1. PICK n \in 1 .. pos - 1 : Opens(input, n, pos - 1, "style")
    BY <1>4 DEF InTag
  <2>2. PICK m : m = pos - 1
    OBVIOUS
  <2>3. /\ m + 1 = pos /\ m + 2 = pos + 1 /\ m + 3 = pos + 2
        /\ pos + 1 < Len(input) <=> m + 2 < Len(input)
        /\ n <= m
    BY <1>3, <2>2
  <2>4. n \in DOMAIN input /\ m \in DOMAIN input
    <3>1. DOMAIN input = 1 .. Len(input)
      BY <1>2, PageFacts, Reading
    <3>. QED  BY <1>3, <2>2, <3>1
  <2>5. /\ input[n].type = "start" /\ input[n].name = "style"
        /\ \A h \in n + 1 .. m : input[h].type = "attr"
    BY <2>1, <2>2 DEF Opens
  <2>6. input \in Documents
    BY <1>2, PageFacts
  <2>7. input[m + 1].type = "close" /\ input[m + 2].type = "text"
    BY <1>3, <1>4, <2>3
  <2>8. m + 2 < Len(input) => input[m + 3].type # "text"
    BY <2>3, <2>4, <2>5, <2>6, <2>7, RewriteAssumption DEF H!DocumentsAssumption
  <2>. QED  BY <2>3, <2>8
<1>7. PlaceOK(input, pos + 1, "style", pos + 1, tag, pending)
  <2>1. pos + 1 >= 1 /\ (pos + 1) + 1 = pos + 2
    BY <1>3
  <2>. QED  BY <1>3, <1>6, <2>1 DEF PlaceOK
<1>. QED  BY <1>1, <1>2, <1>5, <1>7, LinkWritten, Straight

\* A meta tag is read ahead: one token more is pending, or one less.
LEMMA OneMorePending ==
  ASSUME NEW p \in Nat, NEW n \in Nat, NEW q, PendingOK(p, n, q), n <= p
  PROVE  PendingOK(p + 1, n, Append(q, p + 1))
<1>1. q \in Seq(Nat) /\ Len(q) = p - n /\ \A k \in 1 .. p - n : q[k] = n + k
  BY DEF PendingOK
<1>. DEFINE r == Append(q, p + 1)
<1>2. /\ r \in Seq(Nat) /\ Len(r) = (p - n) + 1 /\ r[(p - n) + 1] = p + 1
      /\ \A k \in 1 .. p - n : r[k] = q[k]
  BY <1>1
<1>. HIDE DEF r
<1>3. (p - n) + 1 = (p + 1) - n
  OBVIOUS
<1>4. \A k \in 1 .. (p + 1) - n : r[k] = n + k
  <2>1. \A k \in 1 .. (p + 1) - n : k \in 1 .. p - n \/ k = (p - n) + 1
    OBVIOUS
  <2>2. n + ((p - n) + 1) = p + 1
    OBVIOUS
  <2>. QED  BY <1>1, <1>2, <2>1, <2>2
<1>. QED  BY <1>2, <1>3, <1>4 DEF PendingOK, r

LEMMA OneLessPending ==
  ASSUME NEW p \in Nat, NEW n \in Nat, NEW q, PendingOK(p, n, q), n < p
  PROVE  /\ Head(q) = n + 1 /\ PendingOK(p, n + 1, Tail(q))
         /\ Len(q) = 1 <=> n + 1 = p
<1>1. /\ q \in Seq(Nat) /\ Len(q) = p - n /\ \A k \in 1 .. p - n : q[k] = n + k
      /\ q # <<>>
  BY DEF PendingOK
<1>2. Head(q) = q[1] /\ 1 \in 1 .. p - n
  BY <1>1
<1>. DEFINE r == Tail(q)
<1>3. /\ r \in Seq(Nat) /\ Len(r) = (p - n) - 1
      /\ \A k \in 1 .. (p - n) - 1 : r[k] = q[k + 1]
  BY <1>1
<1>. HIDE DEF r
<1>4. (p - n) - 1 = p - (n + 1)
  OBVIOUS
<1>5. \A k \in 1 .. p - (n + 1) : k + 1 \in 1 .. p - n /\ n + (k + 1) = (n + 1) + k
  OBVIOUS
<1>6. \A k \in 1 .. p - (n + 1) : r[k] = (n + 1) + k
  BY <1>1, <1>3, <1>4, <1>5
<1>7. PendingOK(p, n + 1, r)
  BY <1>3, <1>4, <1>6 DEF PendingOK
<1>. QED  BY <1>1, <1>2, <1>7 DEF r

LEMMA ReadMetaAttributeOK ==
  ASSUME PageInv, H!ReadMetaAttribute
  PROVE  input' = input /\ pos' \in 0 .. Len(input) /\ (KeepOK \/ Fails)
<1>1. /\ pc = "readMeta" /\ H!Type = "attr" /\ pos' = pos + 1
      /\ pending' = Append(pending, pos + 1)
      /\ UNCHANGED <<input, pc, tag, baseURL, newBaseURL, output, offers>>
      /\ pc # "failed"
  BY DEF H!ReadMetaAttribute, H!Advance
<1>2. /\ input \in Documents /\ pos \in 0 .. Len(input)
      /\ Len(output) \in Nat /\ Len(output) <= pos
  BY <1>1, PageFacts
<1>3. /\ pos \in Nat /\ Len(input) \in Nat /\ pos < Len(input)
      /\ input[pos + 1].type = "attr"
  BY <1>1, <1>2, Reading
<1>4. PendingOK(pos, Len(output), pending) /\ Opens(input, Len(output), pos, "meta")
  BY <1>1, PageFacts DEF PlaceOK
<1>. DEFINE n == Len(output)
<1>5. PendingOK(pos + 1, n, pending')
  BY <1>1, <1>2, <1>3, <1>4, OneMorePending
<1>6. Opens(input, n, pos + 1, "meta")
  <2>1. \A m \in n + 1 .. pos + 1 : m \in n + 1 .. pos \/ m = pos + 1
    BY <1>2, <1>3
  <2>2. n \in 1 .. pos
    BY <1>4 DEF Opens
  <2>3. n \in 1 .. pos + 1
    BY <1>2, <1>3, <2>2
  <2>. QED  BY <1>3, <1>4, <2>1, <2>3 DEF Opens
<1>7. PlaceOK(input, pos + 1, "readMeta", n, tag, pending')
  BY <1>5, <1>6 DEF PlaceOK
<1>8. pos + 1 \in 0 .. Len(input)
  BY <1>3
<1>. QED  BY <1>1, <1>7, <1>8 DEF KeepOK

LEMMA EndOfMetaOK ==
  ASSUME PageInv, H!EndOfMeta
  PROVE  input' = input /\ pos' \in 0 .. Len(input) /\ (KeepOK \/ Fails)
<1>1. /\ pc = "readMeta" /\ H!Type \in {"close", "void"} /\ pos' = pos + 1
      /\ pending' = Append(pending, pos + 1)
      /\ UNCHANGED <<input, tag, baseURL, newBaseURL, output, offers>>
      /\ pc' \in {"failed", "writeMeta"} /\ pc # "failed" /\ H!Type # "error"
  BY DEF H!EndOfMeta, H!Advance
<1>2. /\ input \in Documents /\ pos \in 0 .. Len(input)
      /\ Len(output) \in Nat /\ Len(output) <= pos
  BY <1>1, PageFacts, SMTT(30)
<1>3. /\ pos \in Nat /\ Len(input) \in Nat /\ pos < Len(input)
      /\ input[pos + 1].type \in {"close", "void"}
  BY <1>1, <1>2, Reading
<1>4. PendingOK(pos, Len(output), pending) /\ Opens(input, Len(output), pos, "meta")
  BY <1>1, PageFacts DEF PlaceOK
<1>. DEFINE n == Len(output)
<1>5. PendingOK(pos + 1, n, pending')
  BY <1>1, <1>2, <1>3, <1>4, OneMorePending
<1>6. n < pos + 1 /\ (pos + 1) - 1 = pos /\ pos + 1 \in 0 .. Len(input)
  BY <1>2, <1>3
<1>7. n \in 1 .. n
  <2>1. n \in 1 .. pos
    BY <1>4 DEF Opens
  <2>. QED  BY <1>2, <2>1
<1>8. PlaceOK(input, pos + 1, "writeMeta", n, tag, pending')
  BY <1>3, <1>4, <1>5, <1>6, <1>7 DEF PlaceOK
<1>9. CASE pc' = "writeMeta"
  BY <1>1, <1>6, <1>8, <1>9 DEF KeepOK
<1>10. CASE pc' = "failed"
  BY <1>1, <1>6, <1>10, EmptyIsASequence DEF Fails
<1>. QED  BY <1>1, <1>9, <1>10

LEMMA MetaContentKinds ==
  ASSUME NEW P PROVE H!MetaContent(P) \in {"unknown", "og", "none"}
BY DEF H!MetaContent

LEMMA WriteMetaAttributeOK ==
  ASSUME PageInv, H!WriteMetaAttribute
  PROVE  input' = input /\ pos' \in 0 .. Len(input) /\ (NextOK \/ Fails)
<1>. DEFINE n == Len(output)
            content == H!MetaContent(H!MetaAttributes(pos))
            next == IF Len(pending) = 1 THEN "html" ELSE "writeMeta"
<1>1. /\ pc = "writeMeta" /\ pending' = Tail(pending) /\ pc # "failed"
      /\ UNCHANGED <<input, pos, tag, baseURL, newBaseURL>>
      /\ IF input[Head(pending)].name = "content" /\ content # "none"
           THEN H!RewriteAttribute(Head(pending), content, "writeMeta")
           ELSE H!Emit(Head(pending), "raw", next) /\ UNCHANGED offers
  BY DEF H!WriteMetaAttribute
<1>2. /\ input \in Documents /\ pos \in 0 .. Len(input) /\ n \in Nat
      /\ PlaceOK(input, pos, "writeMeta", n, tag, pending)
  BY <1>1, PageFacts
<1>3. /\ pos \in Nat /\ Len(input) \in Nat /\ DOMAIN input = 1 .. Len(input)
      /\ pos <= Len(input)
  <2>. HIDE DEF content, next
  <2>1. input \in Documents /\ pos \in 0 .. Len(input)
    BY <1>2
  <2>2. pos \in Nat /\ Len(input) \in Nat /\ DOMAIN input = 1 .. Len(input)
    BY <2>1, Reading
  <2>. QED  BY <2>1, <2>2
<1>4. /\ PendingOK(pos, n, pending) /\ n < pos /\ input[pos].type \in {"close", "void"}
      /\ \E k \in 1 .. n : Opens(input, k, pos - 1, "meta")
  BY <1>2 DEF PlaceOK
<1>5. PICK k \in 1 .. n : Opens(input, k, pos - 1, "meta")
  BY <1>4
<1>6. /\ Head(pending) = n + 1 /\ PendingOK(pos, n + 1, pending')
      /\ Len(pending) = 1 <=> n + 1 = pos
  BY <1>1, <1>2, <1>3, <1>4, OneLessPending
<1>7. /\ pos \in 1 .. Len(input) /\ k \in Nat /\ k < n + 1 /\ n + 1 <= pos /\ n + 1 \in Nat
      /\ n + 1 \in DOMAIN input /\ k \in 1 .. n + 1
  BY <1>2, <1>3, <1>4, <1>5
<1>8. input[pos].name = ""
  <2>1. pos \in DOMAIN input
    BY <1>3, <1>7
  <2>. QED  BY <1>2, <1>4, <2>1, RewriteAssumption DEF H!DocumentsAssumption
<1>9. H!LinkType(n + 1) = IF input[n + 1].name = "content" THEN content ELSE "none"
  BY <1>3, <1>4, <1>5, <1>7, <1>8, MetaLink
<1>10. n + 1 # pos => PlaceOK(input, pos, "writeMeta", n + 1, tag, pending')
  <2>. SUFFICES ASSUME n + 1 # pos
       PROVE  PlaceOK(input, pos, "writeMeta", n + 1, tag, pending')
    OBVIOUS
  <2>1. n + 1 < pos
    BY <1>3, <1>7
  <2>. QED  BY <1>4, <1>5, <1>6, <1>7, <2>1 DEF PlaceOK
<1>11. n + 1 = pos => PlaceOK(input, pos, "html", n + 1, tag, pending')
  <2>. SUFFICES ASSUME n + 1 = pos
       PROVE  PlaceOK(input, pos, "html", n + 1, tag, pending')
    OBVIOUS
  <2>1. InTag(input, n, "meta") /\ input[n + 1].type # "start"
    <3>1. pos - 1 = n
      BY <1>2
    <3>. QED  BY <1>4, <1>5, <3>1 DEF InTag
  <2>2. Under(input, n + 1, "meta")
    BY <1>2, <2>1, TagOfNext
  <2>. QED  BY <1>6, <2>2 DEF PlaceOK
<1>. HIDE DEF content
<1>12. CASE input[n + 1].name = "content" /\ content # "none"
  <2>1. H!RewriteAttribute(n + 1, content, "writeMeta")
    BY <1>1, <1>6, <1>12
  <2>2. n + 1 # pos
    BY <1>8, <1>12
  <2>3. H!LinkType(n + 1) = content /\ content \notin {"none", "base"}
    BY <1>9, <1>12, MetaContentKinds DEF content
  <2>4. PlaceOK(input, pos', "writeMeta", n + 1, tag', pending')
    BY <1>1, <1>10, <2>2
  <2>5. n + 1 <= pos'
    BY <1>1, <1>7
  <2>. QED  BY <1>1, <1>2, <1>7, <2>1, <2>3, <2>4, <2>5, LinkWritten
<1>13. CASE ~(input[n + 1].name = "content" /\ content # "none")
  <2>1. H!Emit(n + 1, "raw", next) /\ UNCHANGED offers
    BY <1>1, <1>6, <1>13
  <2>2. H!LinkType(n + 1) = "none"
    BY <1>9, <1>13
  <2>3. PlaceOK(input, pos', next, n + 1, tag', pending')
    BY <1>1, <1>6, <1>10, <1>11
  <2>4. n + 1 <= pos'
    BY <1>1, <1>7
  <2>5. next # "failed"
    OBVIOUS
  <2>. HIDE DEF next
  <2>. QED  BY <1>1, <1>2, <2>1, <2>2, <2>3, <2>4, <2>5, Copied
<1>. QED  BY <1>12, <1>13

-----------------------------------------------------------------------------
(* The invariant.                                                          *)

\* The calls of the tokens of the page.
PageCalls == UNION {{H!CallsOf(k)[h] : h \in DOMAIN H!CallsOf(k)} : k \in DOMAIN input}

LEMMA CallsAreSequences ==
  ASSUME input \in Documents, NEW k \in DOMAIN input
  PROVE  H!CallsOf(k) \in Seq(PageCalls)
<1>1. input[k].urls \in Seq(DOMAIN Answer)
  BY RewriteAssumption DEF H!DocumentsAssumption
<1>2. PICK m \in Nat : DOMAIN input[k].urls = 1 .. m
  BY <1>1
<1>3. \E h \in Nat : /\ DOMAIN H!CallsOf(k) = 1 .. h
                     /\ H!CallsOf(k) = [x \in 1 .. h |-> H!CallsOf(k)[x]]
  <2>1. CASE H!LinkType(k) = "none"
    <3>1. H!CallsOf(k) = <<>>
      BY <2>1 DEF H!CallsOf
    <3>2. DOMAIN H!CallsOf(k) = 1 .. 0 /\ H!CallsOf(k) = [x \in 1 .. 0 |-> H!CallsOf(k)[x]]
      BY <3>1
    <3>. QED  BY <3>2
  <2>2. CASE H!LinkType(k) # "none"
    BY <1>2, <2>2 DEF H!CallsOf
  <2>. QED  BY <2>1, <2>2
<1>4. PICK h \in Nat : /\ DOMAIN H!CallsOf(k) = 1 .. h
                       /\ H!CallsOf(k) = [x \in 1 .. h |-> H!CallsOf(k)[x]]
  BY <1>3
<1>5. \A x \in 1 .. h : H!CallsOf(k)[x] \in PageCalls
  BY <1>4 DEF PageCalls
<1>. QED  BY <1>4, <1>5

\* The calls for what has been written, and for one token more.
CallsSoFar == [k \in DOMAIN output |-> H!CallsOf(k)]

LEMMA CallsSoFarType ==
  ASSUME input \in Documents, output \in Written, Len(output) <= Len(input)
  PROVE  CallsSoFar \in Seq(Seq(PageCalls))
<1>1. /\ Len(output) \in Nat /\ DOMAIN output = 1 .. Len(output)
  BY DEF Written
<1>2. Len(input) \in Nat /\ DOMAIN input = 1 .. Len(input)
  <2>1. input \in Seq(H!Range(input))
    BY RewriteAssumption DEF H!DocumentsAssumption
  <2>. QED  BY <2>1
<1>3. \A k \in 1 .. Len(output) : k \in DOMAIN input
  BY <1>1, <1>2
<1>4. \A k \in 1 .. Len(output) : H!CallsOf(k) \in Seq(PageCalls)
  BY <1>3, CallsAreSequences
<1>. QED  BY <1>1, <1>4 DEF CallsSoFar

LEMMA CallsGrow ==
  ASSUME output \in Written, NEW x, output' = Append(output, x), input' = input
  PROVE  CallsSoFar' = Append(CallsSoFar, H!CallsOf(Len(output) + 1))
<1>. DEFINE n == Len(output)
<1>1. n \in Nat /\ DOMAIN output = 1 .. n /\ DOMAIN output' = 1 .. n + 1
  BY DEF Written
<1>2. CallsSoFar = [k \in 1 .. n |-> H!CallsOf(k)]
  BY <1>1 DEF CallsSoFar
<1>3. CallsSoFar' = [k \in 1 .. n + 1 |-> H!CallsOf(k)]
  BY <1>1, SamePage DEF CallsSoFar
<1>. HIDE DEF n
<1>4. Len(CallsSoFar) = n
  BY <1>1, <1>2
<1>5. Append(CallsSoFar, H!CallsOf(n + 1)) =
        [k \in 1 .. n + 1 |-> IF k <= n THEN H!CallsOf(k) ELSE H!CallsOf(n + 1)]
  BY <1>1, <1>2, <1>4
<1>6. \A k \in 1 .. n + 1 : H!CallsOf(k) = IF k <= n THEN H!CallsOf(k) ELSE H!CallsOf(n + 1)
  <2>1. \A k \in 1 .. n + 1 : k <= n \/ k = n + 1
    BY <1>1
  <2>. QED  BY <2>1
<1>. QED  BY <1>3, <1>5, <1>6 DEF n

LEMMA CallsStep ==
  ASSUME PageInv, pc # "failed", input' = input,
         WritesNext => Len(output) + 1 \in DOMAIN input
  PROVE  /\ WritesNext /\ pc' # "failed" => CallsMade'
         /\ Fails => CallsMade'
<1>1. input \in Documents /\ output \in Written /\ Len(output) <= Len(input)
  <2>1. Len(output) <= pos /\ pos \in 0 .. Len(input) /\ Len(output) \in Nat
    BY PageFacts
  <2>2. Len(input) \in Nat
    BY PageFacts, Reading
  <2>. QED  BY <2>1, <2>2 DEF PageInv
<1>2. offers = H!FlattenSeq(CallsSoFar)
  BY DEF PageInv, CallsMade, CallsSoFar
<1>3. CallsSoFar \in Seq(Seq(PageCalls))
  BY <1>1, CallsSoFarType
<1>4. offers \in Seq(PageCalls)
  <2>1. <<>> \in Seq(PageCalls)
    OBVIOUS
  <2>. QED  BY <1>2, <1>3, <2>1, FlattenAppend
<1>5. ASSUME WritesNext, pc' # "failed" PROVE CallsMade'
  <2>. DEFINE k == Len(output) + 1
  <2>1. /\ output' = Append(output, [token |-> k, form |-> H!FormOf(k)])
        /\ offers' = IF H!LinkType(k) = "none" THEN offers ELSE offers \o H!CallsOf(k)
    BY <1>5 DEF WritesNext
  <2>2. CallsSoFar' = Append(CallsSoFar, H!CallsOf(k))
    BY <1>1, <2>1, CallsGrow
  <2>. HIDE DEF k
  <2>3. H!CallsOf(k) \in Seq(PageCalls)
    <3>1. CASE H!LinkType(k) = "none"
      BY <3>1 DEF H!CallsOf
    <3>2. CASE H!LinkType(k) # "none"
      <4>1. k \in DOMAIN input
        BY <1>5 DEF k
      <4>. QED  BY <1>1, <4>1, CallsAreSequences
    <3>. QED  BY <3>1, <3>2
  <2>4. H!FlattenSeq(CallsSoFar') = offers \o H!CallsOf(k)
    BY <1>2, <1>3, <2>2, <2>3, FlattenAppend
  <2>5. offers' = offers \o H!CallsOf(k)
    <3>1. CASE H!LinkType(k) = "none"
      <4>1. H!CallsOf(k) = <<>>
        BY <3>1 DEF H!CallsOf
      <4>2. offers \o <<>> = offers
        BY <1>4
      <4>. QED  BY <2>1, <3>1, <4>1, <4>2
    <3>2. CASE H!LinkType(k) # "none"
      BY <2>1, <3>2
    <3>. QED  BY <3>1, <3>2
  <2>. QED  BY <1>5, <2>4, <2>5 DEF CallsMade, CallsSoFar
<1>6. ASSUME Fails PROVE CallsMade'
  <2>1. PICK z : IsASequence(z) /\ offers' \in {offers, offers \o z}
    BY <1>6 DEF Fails
  <2>2. PICK R : z \in Seq(R)
    BY <2>1 DEF IsASequence
  <2>3. CallsSoFar' = CallsSoFar
    BY <1>6, SamePage DEF CallsSoFar, Fails
  <2>4. Len(offers) <= Len(offers')
        /\ \A h \in 1 .. Len(offers) : offers'[h] = offers[h]
    <3>1. CASE offers' = offers
      BY <1>4, <3>1
    <3>2. CASE offers' = offers \o z
      <4>1. offers \in Seq(PageCalls \cup R) /\ z \in Seq(PageCalls \cup R)
        BY <1>4, <2>2
      <4>. QED  BY <3>2, <4>1
    <3>. QED  BY <2>1, <3>1, <3>2
  <2>5. DOMAIN offers = 1 .. Len(offers)
    BY <1>4
  <2>6. H!FlattenSeq(CallsSoFar') = offers
    BY <1>2, <2>3
  <2>. QED  BY <1>6, <2>4, <2>5, <2>6 DEF CallsMade, CallsSoFar, Fails
<1>. QED  BY <1>5, <1>6

LEMMA PageInit == H!Init => PageInv
<1>. SUFFICES ASSUME H!Init PROVE PageInv
  OBVIOUS
<1>1. /\ input \in Documents /\ pos = 0 /\ pc = "html" /\ pending = <<>>
      /\ baseURL = NoURL /\ newBaseURL = NoURL /\ output = <<>> /\ offers = <<>>
  BY DEF H!Init
<1>2. Len(input) \in Nat /\ DOMAIN input = 1 .. Len(input)
  <2>1. input \in Seq(H!Range(input))
    BY <1>1, RewriteAssumption DEF H!DocumentsAssumption
  <2>. QED  BY <2>1
<1>3. output \in Written /\ Len(output) = 0 /\ DOMAIN output = {}
  BY <1>1 DEF Written
<1>4. pos \in 0 .. Len(input) /\ Len(output) <= pos
  BY <1>1, <1>2, <1>3
<1>5. H!OutputIsRewrittenPage
  BY <1>3 DEF H!OutputIsRewrittenPage
<1>6. PlaceOK(input, 0, "html", 0, tag, pending)
  <2>1. PendingOK(0, 0, pending)
    BY <1>1 DEF PendingOK
  <2>. QED  BY <2>1 DEF PlaceOK
<1>7. BaseIs(1)
  <2>1. ~H!HasBase(1)
    BY <1>2 DEF H!HasBase, H!BaseHrefs
  <2>. QED  BY <1>1, <2>1 DEF BaseIs
<1>8. CallsMade
  <2>1. [n \in DOMAIN output |-> H!CallsOf(n)] = <<>>
    BY <1>3
  <2>2. H!FlattenSeq(<<>>) = <<>>
    BY DEF H!FlattenSeq
  <2>. QED  BY <1>1, <2>1, <2>2 DEF CallsMade
<1>9. \E k : k = Len(output) + 1 /\ BaseIs(k)
  <2>1. 1 = Len(output) + 1
    BY <1>3
  <2>. QED  BY <1>7, <2>1
<1>. QED  BY <1>1, <1>3, <1>4, <1>5, <1>6, <1>8, <1>9 DEF PageInv

LEMMA Forward ==
  ASSUME pos \in Nat, H!Next PROVE pos <= pos'
<1>1. pos' = pos \/ pos' = pos + 1
  BY DEF H!Next, H!StartTag, H!OtherToken, H!EndOfInput, H!PlainAttribute,
         H!HandledAttribute, H!BaseHref, H!EndOfTag, H!ReadMetaAttribute, H!EndOfMeta,
         H!WriteMetaAttribute, H!StyleText, H!EndOfStyle, H!Advance
<1>. QED  BY <1>1

LEMMA PageStep == ASSUME PageInv, H!Next PROVE PageInv'
<1>1. pc # "failed"
  BY DEF H!Next, H!StartTag, H!OtherToken, H!EndOfInput, H!PlainAttribute,
         H!HandledAttribute, H!BaseHref, H!EndOfTag, H!ReadMetaAttribute, H!EndOfMeta,
         H!WriteMetaAttribute, H!StyleText, H!EndOfStyle
<1>2. input' = input /\ pos' \in 0 .. Len(input) /\ (NextOK \/ KeepOK \/ Fails)
  BY StartTagOK, OtherTokenOK, EndOfInputOK, PlainAttributeOK, HandledAttributeOK,
     BaseHrefOK, EndOfTagOK, ReadMetaAttributeOK, EndOfMetaOK, WriteMetaAttributeOK,
     StyleTextOK, EndOfStyleOK DEF H!Next
<1>3. /\ input \in Documents /\ pos \in 0 .. Len(input)
      /\ Len(output) \in Nat /\ Len(output) <= pos
  BY <1>1, PageFacts, SMTT(30)
<1>4. pos \in Nat /\ Len(input) \in Nat /\ DOMAIN input = 1 .. Len(input)
  BY <1>3, Reading
<1>5. pos <= pos' /\ pos' \in Nat /\ pos' <= Len(input)
  BY <1>2, <1>4, Forward
<1>6. output \in Written /\ H!OutputIsRewrittenPage /\ CallsMade
  BY DEF PageInv
<1>7. \A k : H!FormOf(k)' = H!FormOf(k) /\ H!CallsOf(k)' = H!CallsOf(k)
  BY <1>2, SamePage
<1>8. Len(output) <= pos'
  BY <1>3, <1>4, <1>5
<1>9. CASE NextOK
  <2>1. PICK k : k = Len(output) + 1
    OBVIOUS
  <2>. DEFINE x == [token |-> k, form |-> H!FormOf(k)]
  <2>2. /\ WritesNext /\ pc' # "failed" /\ k <= pos'
        /\ PlaceOK(input, pos', pc', k, tag', pending')
        /\ \E h : h = k + 1 /\ BaseIs(h)'
        /\ output' = Append(output, x)
    <3>1. Len(output) + 2 = k + 1
      BY <1>3, <2>1
    <3>. QED  BY <1>9, <2>1, <3>1 DEF NextOK, WritesNext
  <2>3. k \in Nat /\ k \in DOMAIN input
    BY <1>3, <1>4, <1>5, <2>1, <2>2
  <2>4. x.token = k /\ x.form = H!FormOf(k) /\ x \in [token : Int, form : {"raw", "rewritten"}]
    BY <2>3 DEF H!FormOf
  <2>. HIDE DEF x
  <2>5. /\ output' \in Written /\ Len(output') = k /\ DOMAIN output' = 1 .. k
        /\ DOMAIN output = 1 .. Len(output)
        /\ \A n \in 1 .. Len(output) : output'[n] = output[n]
        /\ output'[k] = x
    BY <1>6, <2>1, <2>2, <2>4 DEF Written
  <2>6. \A n \in 1 .. k : n \in 1 .. Len(output) \/ n = k
    BY <1>3, <2>1
  <2>7. H!OutputIsRewrittenPage'
    BY <1>6, <1>7, <2>4, <2>5, <2>6 DEF H!OutputIsRewrittenPage
  <2>8. CallsMade'
    BY <1>1, <1>2, <2>1, <2>2, <2>3, CallsStep
  <2>9. PlaceOK(input', pos', pc', Len(output'), tag', pending')
    BY <1>2, <2>2, <2>5
  <2>10. \E h : h = Len(output') + 1 /\ BaseIs(h)'
    BY <2>2, <2>5
  <2>11. input' \in Documents /\ pos' \in 0 .. Len(input') /\ Len(output') <= pos'
    BY <1>2, <1>3, <2>2, <2>5
  <2>. QED  BY <2>5, <2>7, <2>8, <2>9, <2>10, <2>11 DEF PageInv
<1>10. CASE KeepOK
  <2>1. /\ UNCHANGED <<output, offers, baseURL, newBaseURL>> /\ pc' # "failed"
        /\ PlaceOK(input, pos', pc', Len(output), tag', pending')
    BY <1>10 DEF KeepOK
  <2>2. H!OutputIsRewrittenPage'
    BY <1>6, <1>7, <2>1 DEF H!OutputIsRewrittenPage
  <2>3. CallsMade'
    BY <1>1, <1>6, <1>7, <2>1 DEF CallsMade
  <2>4. H!BaseHrefs' = H!BaseHrefs
    BY <1>2, SamePage DEF H!BaseHrefs
  <2>5. PICK k : k = Len(output) + 1 /\ BaseIs(k)
    BY <1>1 DEF PageInv
  <2>6. BaseIs(k)'
    BY <1>2, <2>1, <2>4, <2>5 DEF BaseIs, H!HasBase
  <2>7. \E h : h = Len(output') + 1 /\ BaseIs(h)'
    BY <2>1, <2>5, <2>6
  <2>8. PlaceOK(input', pos', pc', Len(output'), tag', pending')
    BY <1>2, <2>1
  <2>9. /\ input' \in Documents /\ pos' \in 0 .. Len(input') /\ Len(output') <= pos'
        /\ output' \in Written
    BY <1>2, <1>3, <1>6, <1>8, <2>1
  <2>. QED  BY <2>2, <2>3, <2>7, <2>8, <2>9 DEF PageInv
<1>11. CASE Fails
  <2>1. pc' = "failed" /\ UNCHANGED output
    BY <1>11 DEF Fails
  <2>2. H!OutputIsRewrittenPage'
    BY <1>6, <1>7, <2>1 DEF H!OutputIsRewrittenPage
  <2>3. ~WritesNext
    <3>1. Len(Append(output, [token |-> Len(output) + 1, form |-> H!FormOf(Len(output) + 1)]))
            = Len(output) + 1
      BY <1>6 DEF Written
    <3>2. Len(output) # Len(output) + 1
      BY <1>3
    <3>. QED  BY <2>1, <3>1, <3>2 DEF WritesNext
  <2>4. CallsMade'
    BY <1>1, <1>2, <1>11, <2>3, CallsStep
  <2>5. /\ input' \in Documents /\ pos' \in 0 .. Len(input') /\ Len(output') <= pos'
        /\ output' \in Written
    BY <1>2, <1>3, <1>6, <1>8, <2>1
  <2>. QED  BY <2>1, <2>2, <2>4, <2>5 DEF PageInv
<1>. QED  BY <1>2, <1>9, <1>10, <1>11

PageRuns == job = "text/html" => PageInv

LEMMA PageRunsHolds == Spec => []PageRuns
<1>1. Init => PageRuns
  BY PageInit DEF Init, PageRuns
<1>2. PageRuns /\ [Next]_vars => PageRuns'
  <2>. SUFFICES ASSUME PageRuns, [Next]_vars, job' = "text/html" PROVE PageInv'
    BY DEF PageRuns
  <2>1. CASE Page
    BY <2>1, PageStep DEF Page, PageRuns
  <2>2. CASE UNCHANGED vars
    <3>1. /\ PageInv
          /\ UNCHANGED <<input, pos, pc, output, tag, pending, baseURL, newBaseURL, offers>>
      BY <2>2 DEF PageRuns, vars, documentVars, pageVars
    <3>2. \A k : /\ H!FormOf(k)' = H!FormOf(k) /\ H!CallsOf(k)' = H!CallsOf(k)
                 /\ H!LinkType(k)' = H!LinkType(k)
      BY <3>1, SamePage
    <3>3. H!OutputIsRewrittenPage' = H!OutputIsRewrittenPage
      BY <3>1, <3>2 DEF H!OutputIsRewrittenPage
    <3>4. CallsMade' = CallsMade
      BY <3>1, <3>2 DEF CallsMade
    <3>5. H!BaseHrefs' = H!BaseHrefs
      BY <3>1, <3>2 DEF H!BaseHrefs
    <3>6. \A k : BaseIs(k)' = BaseIs(k)
      BY <3>1, <3>5 DEF BaseIs, H!HasBase
    <3>. QED  BY <3>1, <3>3, <3>4, <3>6 DEF PageInv
  <2>. QED  BY <2>1, <2>2 DEF Next, Sheet, String, Refuse
<1>. QED  BY <1>1, <1>2, PTL DEF Spec

\* A page is written as it was but for its links, and to its end unless there
\* is an error, of any tokens and with any writer (html.go:17-184).
THEOREM PageHolds == Spec => []PageIsRewritten
<1>1. PageRuns => PageIsRewritten
  <2>. SUFFICES ASSUME job = "text/html", PageInv
       PROVE  H!OutputIsRewrittenPage /\ H!SuccessIsWhole
    BY DEF PageRuns, PageIsRewritten
  <2>1. pc = "done" => Len(output) = Len(input)
    BY DEF PageInv, PlaceOK
  <2>. QED  BY <2>1 DEF PageInv, H!SuccessIsWhole
<1>. QED  BY <1>1, PageRunsHolds, PTL

\* Every link of what has been written is offered once and in order, those
\* outside stylesheets with the base that is in effect there (html.go:444-584).
THEOREM PageCallsHold == Spec => []PageCallsFollow
<1>1. CallsMade => H!CallsFollowThePage
  BY DEF CallsMade, H!CallsFollowThePage, H!Meets
<1>2. PageRuns => PageCallsFollow
  BY <1>1 DEF PageRuns, PageInv, PageCallsFollow
<1>. QED  BY <1>2, PageRunsHolds, PTL
-----------------------------------------------------------------------------
(* Strings.                                                                *)

\* The digits at a position are found.
LEMMA DigitsFound ==
  ASSUME NEW d, NEW i \in Nat
  PROVE  LET n == S!DigitsAt(d, i)
         IN  /\ n \in 0 .. 6
             /\ \A j \in i .. i + n - 1 : j \in DOMAIN d /\ S!isHexDigit(d[j])
             /\ n = 6 \/ i + n \notin DOMAIN d \/ ~S!isHexDigit(d[i + n])
<1>. DEFINE Ends(n) == n = 6 \/ i + n \notin DOMAIN d \/ ~S!isHexDigit(d[i + n])
            R == {n \in 0 .. 6 : Ends(n)}
<1>1. R \subseteq Nat /\ 6 \in R
  OBVIOUS
<1>2. PICK n \in R : \A m \in R : ~(m < n)
  <2>. HIDE DEF R
  <2>. QED  BY <1>1, NatLeast
<1>3. \A j \in i .. i + n - 1 : j \in DOMAIN d /\ S!isHexDigit(d[j])
  <2>. SUFFICES ASSUME NEW j \in i .. i + n - 1
       PROVE  j \in DOMAIN d /\ S!isHexDigit(d[j])
    OBVIOUS
  <2>1. j - i \in 0 .. 6 /\ j - i < n /\ i + (j - i) = j
    BY <1>2
  <2>2. ~Ends(j - i)
    <3>. HIDE DEF Ends
    <3>. QED  BY <1>2, <2>1
  <2>. QED  BY <2>1, <2>2
<1>4. n \in 0 .. 6 /\ Ends(n)
  BY <1>2
<1>. HIDE DEF R
<1>. QED  BY <1>3, <1>4 DEF S!DigitsAt

\* How many there are, if that is known.
LEMMA DigitsAre ==
  ASSUME NEW d, NEW i \in Nat, NEW n \in 0 .. 5,
         \A j \in i .. i + n - 1 : j \in DOMAIN d /\ S!isHexDigit(d[j]),
         ~S!isHexDigit(d[i + n])
  PROVE  S!DigitsAt(d, i) = n
<1>1. PICK m : m = S!DigitsAt(d, i)
  OBVIOUS
<1>2. /\ m \in 0 .. 6
      /\ \A j \in i .. i + m - 1 : j \in DOMAIN d /\ S!isHexDigit(d[j])
      /\ m = 6 \/ i + m \notin DOMAIN d \/ ~S!isHexDigit(d[i + m])
  BY <1>1, DigitsFound
<1>3. ~(m < n)
  <2>. SUFFICES ASSUME m < n PROVE FALSE
    OBVIOUS
  <2>1. i + m \in i .. i + n - 1 /\ m # 6
    BY <1>2
  <2>. QED  BY <1>2, <2>1
<1>4. ~(n < m)
  <2>. SUFFICES ASSUME n < m PROVE FALSE
    OBVIOUS
  <2>1. i + n \in i .. i + m - 1
    BY <1>2
  <2>. QED  BY <1>2, <2>1
<1>. QED  BY <1>1, <1>2, <1>3, <1>4

-----------------------------------------------------------------------------
(* A number of one or two digits.                                          *)

Number(s) == S!FoldLeft(LAMBDA v, r : 16 * v + S!DigitValue(r), 0, s)

LEMMA GreatestIs ==
  /\ S!Max({1}) = 1 /\ S!Max({2}) = 2 /\ S!Max({1, 2}) = 2
BY DEF S!Max

LEMMA OneDigit ==
  ASSUME NEW s, DOMAIN s = {1}
  PROVE  Number(s) = 16 * 0 + S!DigitValue(s[1])
<1>. DEFINE Is(f) ==
       f = [x \in SUBSET {1} |->
              IF x = {} THEN 0
              ELSE 16 * f[x \ {S!Max(x)}] + S!DigitValue(s[S!Max(x)])]
            g == [x \in SUBSET {1} |->
                    IF x = {} THEN 0 ELSE 16 * 0 + S!DigitValue(s[1])]
            h == CHOOSE f : Is(f)
<1>1. Is(g)
  <2>1. g = [x \in SUBSET {1} |->
              IF x = {} THEN 0
              ELSE 16 * g[x \ {S!Max(x)}] + S!DigitValue(s[S!Max(x)])]
    <3>1. ASSUME NEW x \in SUBSET {1}, x # {}
          PROVE  x = {1} /\ x \ {S!Max(x)} = {} /\ S!Max(x) = 1
      BY <3>1, GreatestIs
    <3>2. g[{}] = 0
      OBVIOUS
    <3>. QED  BY <3>1, <3>2, Zenon
  <2>. HIDE DEF g
  <2>. QED  BY <2>1
<1>2. Is(h)
  <2>. HIDE DEF Is
  <2>. QED  BY <1>1
<1>3. Number(s) = h[{1}]
  BY Zenon DEF Number, S!FoldLeft, S!MapThenFoldSet
<1>4. h[{1}] = 16 * h[{}] + S!DigitValue(s[1]) /\ h[{}] = 0
  <2>1. {1} \ {1} = {}
    OBVIOUS
  <2>. HIDE DEF h
  <2>. QED  BY <1>2, <2>1, GreatestIs
<1>. QED  BY <1>3, <1>4
LEMMA TwoDigits ==
  ASSUME NEW s, DOMAIN s = {1, 2}
  PROVE  Number(s) = 16 * (16 * 0 + S!DigitValue(s[1])) + S!DigitValue(s[2])
<1>. DEFINE Is(f) ==
       f = [x \in SUBSET {1, 2} |->
              IF x = {} THEN 0
              ELSE 16 * f[x \ {S!Max(x)}] + S!DigitValue(s[S!Max(x)])]
            one == 16 * 0 + S!DigitValue(s[1])
            g == [x \in SUBSET {1, 2} |->
                    IF x = {} THEN 0
                    ELSE IF x = {1} THEN one
                    ELSE IF x = {2} THEN 16 * 0 + S!DigitValue(s[2])
                    ELSE 16 * one + S!DigitValue(s[2])]
            h == CHOOSE f : Is(f)
<1>1. Is(g)
  <2>1. /\ {1} \ {1} = {} /\ {2} \ {2} = {} /\ {1, 2} \ {2} = {1}
        /\ {1} # {2} /\ {1, 2} # {1} /\ {1, 2} # {2} /\ {1} # {} /\ {2} # {} /\ {1, 2} # {}
    OBVIOUS
  <2>2. /\ g[{}] = 0 /\ g[{1}] = one
        /\ g[{2}] = 16 * 0 + S!DigitValue(s[2])
        /\ g[{1, 2}] = 16 * one + S!DigitValue(s[2])
    <3>. HIDE DEF one
    <3>1. {} \in SUBSET {1, 2} /\ {1} \in SUBSET {1, 2} /\ {2} \in SUBSET {1, 2}
          /\ {1, 2} \in SUBSET {1, 2}
      OBVIOUS
    <3>. QED  BY <2>1, <3>1, Zenon
  <2>3. ASSUME NEW x \in SUBSET {1, 2}
        PROVE  g[x] = IF x = {} THEN 0
                      ELSE 16 * g[x \ {S!Max(x)}] + S!DigitValue(s[S!Max(x)])
    <3>1. x = {} \/ x = {1} \/ x = {2} \/ x = {1, 2}
      OBVIOUS
    <3>. HIDE DEF g
    <3>2. CASE x = {}
      BY <2>2, <3>2
    <3>3. CASE x = {1}
      BY <2>1, <2>2, <3>3, GreatestIs
    <3>4. CASE x = {2}
      BY <2>1, <2>2, <3>4, GreatestIs
    <3>5. CASE x = {1, 2}
      BY <2>1, <2>2, <3>5, GreatestIs
    <3>. QED  BY <3>1, <3>2, <3>3, <3>4, <3>5
  <2>4. g = [x \in SUBSET {1, 2} |-> g[x]]
    OBVIOUS
  <2>5. g = [x \in SUBSET {1, 2} |->
               IF x = {} THEN 0
               ELSE 16 * g[x \ {S!Max(x)}] + S!DigitValue(s[S!Max(x)])]
    <3>. HIDE DEF g
    <3>. QED  BY <2>3, <2>4, Zenon
  <2>. HIDE DEF g
  <2>. QED  BY <2>5
<1>2. Is(h)
  <2>. HIDE DEF Is
  <2>. QED  BY <1>1
<1>3. Number(s) = h[{1, 2}]
  BY Zenon DEF Number, S!FoldLeft, S!MapThenFoldSet
<1>4. h[{1, 2}] = 16 * (16 * h[{}] + S!DigitValue(s[1])) + S!DigitValue(s[2]) /\ h[{}] = 0
  <2>1. /\ {1} \ {1} = {} /\ {1, 2} \ {2} = {1} /\ {1} # {} /\ {1, 2} # {}
        /\ {} \in SUBSET {1, 2} /\ {1} \in SUBSET {1, 2} /\ {1, 2} \in SUBSET {1, 2}
    OBVIOUS
  <2>2. \A x \in SUBSET {1, 2} :
          h[x] = IF x = {} THEN 0
                 ELSE 16 * h[x \ {S!Max(x)}] + S!DigitValue(s[S!Max(x)])
    <3>. HIDE DEF h
    <3>. QED  BY <1>2, Zenon
  <2>. HIDE DEF h
  <2>3. h[{}] = 0
    BY <2>1, <2>2
  <2>4. h[{1}] = 16 * h[{}] + S!DigitValue(s[1])
    <3>1. h[{1}] = 16 * h[{1} \ {S!Max({1})}] + S!DigitValue(s[S!Max({1})])
      BY <2>1, <2>2, Zenon
    <3>2. S!Max({1}) = 1 /\ {1} \ {1} = {}
      BY <2>1, GreatestIs
    <3>. QED  BY <3>1, <3>2, Zenon
  <2>5. h[{1, 2}] = 16 * h[{1}] + S!DigitValue(s[2])
    <3>1. h[{1, 2}] = 16 * h[{1, 2} \ {S!Max({1, 2})}] + S!DigitValue(s[S!Max({1, 2})])
      BY <2>1, <2>2, Zenon
    <3>2. S!Max({1, 2}) = 2 /\ {1, 2} \ {2} = {1}
      BY <2>1, GreatestIs
    <3>. QED  BY <3>1, <3>2, Zenon
  <2>. QED  BY <2>3, <2>4, <2>5
<1>. QED  BY <1>3, <1>4

-----------------------------------------------------------------------------
(* What is written for a rune, and how it is read.                         *)

PieceOf(r, q) ==
  IF r \in {S!Newline, q, S!Backslash} THEN S!Escaped(r) ELSE <<r>>

\* The four pieces that are not a rune itself.
LEMMA HexOfEscaped ==
  /\ S!Hex(10) = <<97>> /\ S!Hex(34) = <<50, 50>>
  /\ S!Hex(39) = <<50, 55>> /\ S!Hex(92) = <<53, 99>>
<1>1. /\ 34 \div 16 = 2 /\ 34 % 16 = 2 /\ 39 \div 16 = 2 /\ 39 % 16 = 7
      /\ 92 \div 16 = 5 /\ 92 % 16 = 12
  OBVIOUS
<1>2. /\ S!Digit(10) = 97 /\ S!Digit(2) = 50 /\ S!Digit(7) = 55
      /\ S!Digit(5) = 53 /\ S!Digit(12) = 99
  BY DEF S!Digit, S!Zero, S!LowerA
<1>. QED  BY <1>1, <1>2 DEF S!Hex

LEMMA Joined ==
  ASSUME NEW s \in Seq(Nat), NEW t \in Seq(Nat)
  PROVE  /\ s \o t \in Seq(Nat) /\ Len(s \o t) = Len(s) + Len(t)
         /\ \A k \in 1 .. Len(s) : (s \o t)[k] = s[k]
         /\ \A k \in 1 .. Len(t) : (s \o t)[Len(s) + k] = t[k]
OBVIOUS

\* The text t escapes a rune by the digits h.
Escapes(t, h) ==
  /\ Len(t) = Len(h) + 2 /\ t[1] = 92 /\ t[Len(h) + 2] = 32
  /\ \A k \in 1 .. Len(h) : t[k + 1] = h[k]

LEMMA EscapedIs ==
  ASSUME NEW r, NEW h \in Seq(Nat), h = S!Hex(r), NEW t, t = S!Escaped(r)
  PROVE  Escapes(t, h)
<1>1. /\ <<92>> \in Seq(Nat) /\ Len(<<92>>) = 1 /\ <<92>>[1] = 92
      /\ <<32>> \in Seq(Nat) /\ Len(<<32>>) = 1 /\ <<32>>[1] = 32
  OBVIOUS
<1>. DEFINE u == <<92>> \o h
<1>2. /\ u \in Seq(Nat) /\ Len(u) = 1 + Len(h) /\ u[1] = 92
      /\ \A k \in 1 .. Len(h) : u[1 + k] = h[k]
  BY <1>1, Joined
<1>. HIDE DEF u
<1>3. t = u \o <<32>>
  BY DEF S!Escaped, S!Backslash, S!Space, u
<1>4. /\ Len(t) = Len(u) + 1
      /\ \A k \in 1 .. Len(u) : t[k] = u[k]
      /\ t[Len(u) + 1] = 32
  <2>1. 1 \in 1 .. Len(<<32>>) /\ <<32>>[1] = 32 /\ Len(<<32>>) = 1
    OBVIOUS
  <2>. QED  BY <1>1, <1>2, <1>3, <2>1, Joined
<1>5. Len(h) \in Nat
  OBVIOUS
<1>. QED  BY <1>2, <1>4, <1>5, SMTT(30) DEF Escapes

\* The piece t stands at position p of d.
Stands(d, p, t) == \A j \in 1 .. Len(t) : p + j - 1 \in DOMAIN d /\ d[p + j - 1] = t[j]

LEMMA DigitKinds ==
  /\ \A r \in {97, 50, 55, 53, 99} : S!isHexDigit(r)
  /\ ~S!isHexDigit(32)
  /\ S!DigitValue(97) = 10 /\ S!DigitValue(50) = 2 /\ S!DigitValue(55) = 7
  /\ S!DigitValue(53) = 5 /\ S!DigitValue(99) = 12
  /\ S!isWhiteSpace(32)
BY DEF S!isHexDigit, S!isWhiteSpace, S!DigitValue, S!Zero, S!LowerA, S!UpperA, S!Space,
       S!Newline, S!Tab

LEMMA EscapeOfOne ==
  ASSUME NEW d, NEW i \in Nat \ {0}, NEW r, NEW a, S!isHexDigit(a),
         i \in DOMAIN d, d[i] = a, i + 1 \in DOMAIN d, d[i + 1] = 32,
         IsASequence(d), 16 * 0 + S!DigitValue(a) = r, r \in 1 .. 255
  PROVE  S!consumeEscape(d, i) = [runes |-> <<r>>, next |-> i + 2]
<1>1. S!DigitsAt(d, i) = 1
  <2>1. \A j \in i .. i + 1 - 1 : j \in DOMAIN d /\ S!isHexDigit(d[j])
    OBVIOUS
  <2>2. ~S!isHexDigit(d[i + 1])
    BY DigitKinds
  <2>. QED  BY <2>1, <2>2, DigitsAre
<1>. DEFINE s == SubSeq(d, i, i + 1 - 1)
<1>2. DOMAIN s = {1} /\ s[1] = a
  OBVIOUS
<1>3. Number(s) = r
  <2>. HIDE DEF s
  <2>. QED  BY <1>2, OneDigit
<1>4. S!AsRune(r) = r
  BY DEF S!AsRune
<1>5. S!isWhiteSpace(d[i + 1])
  BY DigitKinds
<1>6. 1 > 0 /\ i + 1 + 1 = i + 2
  OBVIOUS
<1>7. S!consumeEscape(d, i) =
        LET n == S!DigitsAt(d, i)
            number == Number(SubSeq(d, i, i + n - 1))
            space == i + n \in DOMAIN d /\ S!isWhiteSpace(d[i + n])
        IN  IF n > 0
            THEN [runes |-> <<S!AsRune(number)>>,
                  next |-> i + n + (IF space THEN 1 ELSE 0)]
            ELSE [runes |-> IF d[i] = S!Newline THEN <<>> ELSE <<d[i]>>, next |-> i + 1]
  BY Zenon DEF S!consumeEscape, Number
<1>8. S!consumeEscape(d, i) =
        [runes |-> <<S!AsRune(Number(s))>>, next |-> i + 1 + 1]
  BY <1>1, <1>5, <1>6, <1>7, Zenon
<1>. QED  BY <1>3, <1>4, <1>6, <1>8

LEMMA EscapeOfTwo ==
  ASSUME NEW d, NEW i \in Nat \ {0}, NEW r, NEW a, NEW b,
         S!isHexDigit(a), S!isHexDigit(b),
         i \in DOMAIN d, d[i] = a, i + 1 \in DOMAIN d, d[i + 1] = b,
         i + 2 \in DOMAIN d, d[i + 2] = 32,
         IsASequence(d), 16 * (16 * 0 + S!DigitValue(a)) + S!DigitValue(b) = r, r \in 1 .. 255
  PROVE  S!consumeEscape(d, i) = [runes |-> <<r>>, next |-> i + 3]
<1>1. S!DigitsAt(d, i) = 2
  <2>1. \A j \in i .. i + 2 - 1 : j \in DOMAIN d /\ S!isHexDigit(d[j])
    OBVIOUS
  <2>2. ~S!isHexDigit(d[i + 2])
    BY DigitKinds
  <2>. QED  BY <2>1, <2>2, DigitsAre
<1>. DEFINE s == SubSeq(d, i, i + 2 - 1)
<1>2. DOMAIN s = {1, 2} /\ s[1] = a /\ s[2] = b
  OBVIOUS
<1>3. Number(s) = r
  <2>. HIDE DEF s
  <2>. QED  BY <1>2, TwoDigits
<1>4. S!AsRune(r) = r
  BY DEF S!AsRune
<1>5. S!isWhiteSpace(d[i + 2])
  BY DigitKinds
<1>6. 2 > 0 /\ i + 2 + 1 = i + 3
  OBVIOUS
<1>7. S!consumeEscape(d, i) =
        LET n == S!DigitsAt(d, i)
            number == Number(SubSeq(d, i, i + n - 1))
            space == i + n \in DOMAIN d /\ S!isWhiteSpace(d[i + n])
        IN  IF n > 0
            THEN [runes |-> <<S!AsRune(number)>>,
                  next |-> i + n + (IF space THEN 1 ELSE 0)]
            ELSE [runes |-> IF d[i] = S!Newline THEN <<>> ELSE <<d[i]>>, next |-> i + 1]
  BY Zenon DEF S!consumeEscape, Number
<1>8. S!consumeEscape(d, i) =
        [runes |-> <<S!AsRune(Number(s))>>, next |-> i + 2 + 1]
  BY <1>1, <1>5, <1>6, <1>7, Zenon
<1>. QED  BY <1>3, <1>4, <1>6, <1>8

StandsAs(d, p, r, q) ==
  /\ Len(PieceOf(r, q)) \in Nat \ {0}
  /\ p \in DOMAIN d /\ d[p] # 10 /\ d[p] # q
  /\ d[p] = 92 => p + 1 \in DOMAIN d
  /\ (IF d[p] = 92 THEN S!consumeEscape(d, p + 1)
                  ELSE [runes |-> <<d[p]>>, next |-> p + 1])
      = [runes |-> <<r>>, next |-> p + Len(PieceOf(r, q))]

\* A piece is read as its rune, whatever follows it.
LEMMA PieceRead ==
  ASSUME NEW d, IsASequence(d), NEW q \in {34, 39}, NEW r \in 1 .. 255, NEW p \in Nat \ {0},
         Stands(d, p, PieceOf(r, q))
  PROVE  StandsAs(d, p, r, q)
<1>. DEFINE t == PieceOf(r, q)
<1>. SUFFICES
  /\ Len(PieceOf(r, q)) \in Nat \ {0}
  /\ p \in DOMAIN d /\ d[p] # 10 /\ d[p] # q
  /\ d[p] = 92 => p + 1 \in DOMAIN d
  /\ (IF d[p] = 92 THEN S!consumeEscape(d, p + 1)
                  ELSE [runes |-> <<d[p]>>, next |-> p + 1])
      = [runes |-> <<r>>, next |-> p + Len(PieceOf(r, q))]
  BY Zenon DEF StandsAs
<1>1. CASE r \notin {10, q, 92}
  <2>1. t = <<r>>
    BY <1>1 DEF PieceOf, S!Newline, S!Backslash
  <2>2. Len(t) = 1 /\ t[1] = r /\ 1 \in 1 .. Len(t) /\ p + 1 - 1 = p
    BY <2>1
  <2>3. p \in DOMAIN d /\ d[p] = r
    <3>. HIDE DEF t
    <3>1. p + 1 - 1 \in DOMAIN d /\ d[p + 1 - 1] = t[1]
      BY <2>2 DEF Stands, t
    <3>. QED  BY <2>2, <3>1
  <2>. HIDE DEF t
  <2>. QED  BY <1>1, <2>2, <2>3 DEF t
<1>2. CASE r = 10
  <2>1. t = S!Escaped(10) /\ S!Hex(10) = <<97>>
    BY <1>2, HexOfEscaped DEF PieceOf, S!Newline, S!Backslash
  <2>2. Len(t) = 3 /\ t[1] = 92 /\ t[2] = 97 /\ t[3] = 32
    <3>. DEFINE h == <<97>>
    <3>1. h \in Seq(Nat) /\ Len(h) = 1 /\ h[1] = 97
      OBVIOUS
    <3>. HIDE DEF t
    <3>2. h = S!Hex(10)
      BY <2>1
    <3>. HIDE DEF h
    <3>3. Escapes(t, h)
      BY <2>1, <3>1, <3>2, EscapedIs
    <3>. QED  BY <3>1, <3>3 DEF Escapes
  <2>. HIDE DEF t
  <2>3. /\ p \in DOMAIN d /\ d[p] = 92
        /\ p + 1 \in DOMAIN d /\ d[p + 1] = 97
        /\ p + 2 \in DOMAIN d /\ d[p + 2] = 32
    <3>1. \A j \in 1 .. 3 : p + j - 1 \in DOMAIN d /\ d[p + j - 1] = t[j]
      BY <2>2 DEF Stands, t
    <3>2. p + 1 - 1 = p /\ p + 2 - 1 = p + 1 /\ p + 3 - 1 = p + 2
      OBVIOUS
    <3>3. 1 \in 1 .. 3 /\ 2 \in 1 .. 3 /\ 3 \in 1 .. 3
      OBVIOUS
    <3>. QED  BY <2>2, <3>1, <3>2, <3>3
  <2>4. S!consumeEscape(d, p + 1) = [runes |-> <<10>>, next |-> p + 1 + 2]
    <3>1. S!isHexDigit(97) /\ 16 * 0 + S!DigitValue(97) = 10 /\ 10 \in 1 .. 255
      BY DigitKinds
    <3>2. p + 1 \in Nat \ {0} /\ (p + 1) + 1 = p + 2
      OBVIOUS
    <3>3. p + 1 + 1 \in DOMAIN d /\ d[p + 1 + 1] = 32
      BY <2>3, <3>2
    <3>. QED  BY <2>3, <3>1, <3>2, <3>3, EscapeOfOne
  <2>5. p + 1 + 2 = p + 3 /\ 92 # 10 /\ 92 # q /\ 3 \in Nat \ {0}
    OBVIOUS
  <2>6. S!consumeEscape(d, p + 1) = [runes |-> <<r>>, next |-> p + Len(t)]
    BY <1>2, <2>2, <2>4, <2>5
  <2>7. (IF d[p] = 92 THEN S!consumeEscape(d, p + 1)
                     ELSE [runes |-> <<d[p]>>, next |-> p + 1])
          = [runes |-> <<r>>, next |-> p + Len(t)]
    BY <2>3, <2>6
  <2>8. Len(t) \in Nat \ {0} /\ d[p] # 10 /\ d[p] # q
    BY <2>2, <2>3, <2>5
  <2>. QED  BY <2>3, <2>7, <2>8, Zenon DEF t
<1>3. ASSUME NEW a, NEW b, S!isHexDigit(a), S!isHexDigit(b), S!Hex(r) = <<a, b>>,
             a \in Nat, b \in Nat,
             r \in {10, q, 92}, 16 * (16 * 0 + S!DigitValue(a)) + S!DigitValue(b) = r
      PROVE  /\ Len(t) = 4
             /\ p \in DOMAIN d /\ d[p] = 92 /\ p + 1 \in DOMAIN d
             /\ S!consumeEscape(d, p + 1) = [runes |-> <<r>>, next |-> p + 4]
  <2>1. t = S!Escaped(r)
    BY <1>3 DEF PieceOf, S!Newline, S!Backslash
  <2>2. Len(t) = 4 /\ t[1] = 92 /\ t[2] = a /\ t[3] = b /\ t[4] = 32
    <3>. DEFINE h == <<a, b>>
    <3>1. h \in Seq(Nat) /\ Len(h) = 2 /\ h[1] = a /\ h[2] = b
      BY <1>3
    <3>. HIDE DEF t
    <3>2. h = S!Hex(r)
      BY <1>3
    <3>. HIDE DEF h
    <3>3. Escapes(t, h)
      BY <2>1, <3>1, <3>2, EscapedIs
    <3>. QED  BY <3>1, <3>3 DEF Escapes
  <2>. HIDE DEF t
  <2>3. /\ p \in DOMAIN d /\ d[p] = 92
        /\ p + 1 \in DOMAIN d /\ d[p + 1] = a
        /\ p + 2 \in DOMAIN d /\ d[p + 2] = b
        /\ p + 3 \in DOMAIN d /\ d[p + 3] = 32
    <3>1. \A j \in 1 .. 4 : p + j - 1 \in DOMAIN d /\ d[p + j - 1] = t[j]
      BY <2>2 DEF Stands, t
    <3>2. p + 1 - 1 = p /\ p + 2 - 1 = p + 1 /\ p + 3 - 1 = p + 2 /\ p + 4 - 1 = p + 3
      OBVIOUS
    <3>3. 1 \in 1 .. 4 /\ 2 \in 1 .. 4 /\ 3 \in 1 .. 4 /\ 4 \in 1 .. 4
      OBVIOUS
    <3>. QED  BY <2>2, <3>1, <3>2, <3>3
  <2>4. S!consumeEscape(d, p + 1) = [runes |-> <<r>>, next |-> p + 1 + 3]
    <3>1. /\ p + 1 \in Nat \ {0} /\ (p + 1) + 1 = p + 2 /\ (p + 1) + 2 = p + 3
      OBVIOUS
    <3>2. /\ p + 1 + 1 \in DOMAIN d /\ d[p + 1 + 1] = b
          /\ p + 1 + 2 \in DOMAIN d /\ d[p + 1 + 2] = 32
      BY <2>3, <3>1
    <3>. QED  BY <1>3, <2>3, <3>1, <3>2, EscapeOfTwo
  <2>5. p + 1 + 3 = p + 4
    OBVIOUS
  <2>. QED  BY <2>2, <2>3, <2>4, <2>5
<1>4. CASE r \in {34, 39, 92} /\ r \in {q, 92}
  <2>1. /\ Len(t) = 4
        /\ p \in DOMAIN d /\ d[p] = 92 /\ p + 1 \in DOMAIN d
        /\ S!consumeEscape(d, p + 1) = [runes |-> <<r>>, next |-> p + 4]
    <3>1. CASE r = 34
      <4>1. 16 * (16 * 0 + S!DigitValue(50)) + S!DigitValue(50) = r
        BY <3>1, DigitKinds
      <4>2. /\ S!isHexDigit(50) /\ S!Hex(r) = <<50, 50>> /\ r \in {10, q, 92}
            /\ 50 \in Nat
        BY <1>4, <3>1, DigitKinds, HexOfEscaped
      <4>. HIDE DEF t
      <4>. QED  BY <1>3, <4>1, <4>2
    <3>2. CASE r = 39
      <4>1. 16 * (16 * 0 + S!DigitValue(50)) + S!DigitValue(55) = r
        BY <3>2, DigitKinds
      <4>2. /\ S!isHexDigit(50) /\ S!isHexDigit(55) /\ S!Hex(r) = <<50, 55>>
            /\ r \in {10, q, 92} /\ 50 \in Nat /\ 55 \in Nat
        BY <1>4, <3>2, DigitKinds, HexOfEscaped
      <4>. HIDE DEF t
      <4>. QED  BY <1>3, <4>1, <4>2
    <3>3. CASE r = 92
      <4>1. 16 * (16 * 0 + S!DigitValue(53)) + S!DigitValue(99) = r
        BY <3>3, DigitKinds
      <4>2. /\ S!isHexDigit(53) /\ S!isHexDigit(99) /\ S!Hex(r) = <<53, 99>>
            /\ r \in {10, q, 92} /\ 53 \in Nat /\ 99 \in Nat
        BY <1>4, <3>3, DigitKinds, HexOfEscaped
      <4>. HIDE DEF t
      <4>. QED  BY <1>3, <4>1, <4>2
    <3>. QED  BY <1>4, <3>1, <3>2, <3>3
  <2>. HIDE DEF t
  <2>. QED  BY <2>1 DEF t
<1>. QED  BY <1>1, <1>2, <1>4

-----------------------------------------------------------------------------
(* Where the pieces of a text are.                                         *)

\* The first k sequences of s, one after the other.
Upto(s, k) == H!FlattenSeq(SubSeq(s, 1, k))

LEMMA UptoNext ==
  ASSUME NEW Q, NEW s \in Seq(Seq(Q)), NEW k \in Nat, k + 1 <= Len(s)
  PROVE  /\ Upto(s, k) \in Seq(Q)
         /\ Upto(s, k + 1) = Upto(s, k) \o s[k + 1]
<1>1. /\ SubSeq(s, 1, k) \in Seq(Seq(Q)) /\ s[k + 1] \in Seq(Q)
      /\ SubSeq(s, 1, k + 1) = Append(SubSeq(s, 1, k), s[k + 1])
  <2>1. Len(s) \in Nat /\ k <= Len(s) /\ k + 1 \in 1 .. Len(s)
    OBVIOUS
  <2>2. SubSeq(s, 1, k) \in Seq(Seq(Q)) /\ s[k + 1] \in Seq(Q)
    BY <2>1
  <2>3. SubSeq(s, 1, k + 1) = Append(SubSeq(s, 1, k), s[k + 1])
    BY <2>1
  <2>. QED  BY <2>2, <2>3
<1>. QED  BY <1>1, FlattenAppend DEF Upto

LEMMA UptoNone ==
  ASSUME NEW s PROVE Upto(s, 0) = <<>>
<1>1. SubSeq(s, 1, 0) = <<>>
  OBVIOUS
<1>2. H!FlattenSeq(<<>>) = <<>>
  BY DEF H!FlattenSeq
<1>. QED  BY <1>1, <1>2 DEF Upto

\* Sequence k of s stands in f behind those before it.
Laid(s, f, k) ==
  /\ Len(Upto(s, k + 1)) <= Len(f)
  /\ \A j \in 1 .. Len(s[k + 1]) : f[Len(Upto(s, k)) + j] = s[k + 1][j]

LEMMA LaidOut ==
  ASSUME NEW Q, NEW s \in Seq(Seq(Q))
  PROVE  \A n \in 0 .. Len(s) : \A k \in 0 .. n - 1 : Laid(s, Upto(s, n), k)
<1>. DEFINE R == {n \in Nat : n <= Len(s) =>
                    \A k \in 0 .. n - 1 : Laid(s, Upto(s, n), k)}
<1>1. 0 \in R
  OBVIOUS
<1>2. ASSUME NEW n \in R PROVE n + 1 \in R
  <2>0. n \in Nat
    OBVIOUS
  <2>. SUFFICES ASSUME n + 1 <= Len(s), NEW k \in 0 .. n
       PROVE  Laid(s, Upto(s, n + 1), k)
    <3>1. (n + 1) - 1 = n
      BY <2>0
    <3>. QED  BY <2>0, <3>1
  <2>1. Len(s) \in Nat /\ k \in Nat /\ n <= Len(s) /\ k + 1 <= Len(s)
    BY <2>0
  <2>. DEFINE f == Upto(s, n)
              x == s[n + 1]
              g == Upto(s, n + 1)
  <2>2. f \in Seq(Q) /\ g = f \o x /\ x \in Seq(Q)
    <3>1. s[n + 1] \in Seq(Q)
      BY <2>0, <2>1
    <3>. QED  BY <2>0, <3>1, UptoNext
  <2>3. Upto(s, k) \in Seq(Q) /\ s[k + 1] \in Seq(Q)
        /\ Upto(s, k + 1) = Upto(s, k) \o s[k + 1]
    BY <2>1, UptoNext, SMTT(30)
  <2>. HIDE DEF f, x, g
  <2>4. /\ Len(g) = Len(f) + Len(x) /\ Len(f) \in Nat /\ Len(x) \in Nat
        /\ \A j \in 1 .. Len(f) : g[j] = f[j]
        /\ \A j \in 1 .. Len(x) : g[Len(f) + j] = x[j]
    BY <2>2
  <2>5. CASE k = n
    BY <2>4, <2>5 DEF Laid, f, g, x
  <2>6. CASE k # n
    <3>1. k \in 0 .. n - 1
      BY <2>0, <2>6
    <3>2. Laid(s, f, k)
      BY <2>0, <2>1, <3>1 DEF f
    <3>. DEFINE a == Upto(s, k)
                b == Upto(s, k + 1)
                y == s[k + 1]
    <3>3. Len(b) <= Len(f) /\ \A j \in 1 .. Len(y) : f[Len(a) + j] = y[j]
      BY <3>2 DEF Laid
    <3>4. a \in Seq(Q) /\ y \in Seq(Q) /\ b = a \o y
      BY <2>3
    <3>. HIDE DEF a, b, y
    <3>5. Len(a) \in Nat /\ Len(y) \in Nat /\ Len(b) = Len(a) + Len(y)
      BY <3>4
    <3>6. \A j \in 1 .. Len(y) : g[Len(a) + j] = y[j]
      <4>1. \A j \in 1 .. Len(y) : Len(a) + j \in 1 .. Len(f)
        BY <2>4, <3>3, <3>5
      <4>. QED  BY <2>4, <3>3, <4>1
    <3>7. Len(b) <= Len(g)
      BY <2>4, <3>3, <3>5
    <3>. QED  BY <3>6, <3>7 DEF Laid, a, b, y, g
  <2>. QED  BY <2>5, <2>6 DEF g
<1>3. R = Nat
  <2>. HIDE DEF R
  <2>1. R \subseteq Nat
    BY DEF R
  <2>. QED  BY <1>1, <1>2, <2>1, NatInductionSet
<1>. QED  BY <1>3

\* Where piece k + 1 of a quoted text begins.
Begin(s, k) == 2 + Len(Upto(s, k))

\* A quoted text: its pieces stand one behind the other.
IsQuoted(s, q, d) ==
  /\ d \in Seq(Nat) /\ Len(d) \in Nat \ {0, 1}
  /\ d[1] = q /\ d[Len(d)] = q
  /\ Begin(s, 0) = 2 /\ Begin(s, Len(s)) = Len(d)
  /\ \A k \in 0 .. Len(s) - 1 :
       /\ Begin(s, k) \in Nat \ {0, 1} /\ Len(s[k + 1]) \in Nat
       /\ Begin(s, k + 1) = Begin(s, k) + Len(s[k + 1])
       /\ Begin(s, k + 1) <= Len(d)
       /\ Stands(d, Begin(s, k), s[k + 1])

LEMMA Quoted ==
  ASSUME NEW s \in Seq(Seq(Nat)), NEW q \in Nat, NEW d,
         d = <<q>> \o H!FlattenSeq(s) \o <<q>>
  PROVE  IsQuoted(s, q, d)
<1>. DEFINE f == H!FlattenSeq(s)
            one == <<q>>
            u == one \o f
<1>1. f \in Seq(Nat) /\ f = Upto(s, Len(s)) /\ Len(s) \in Nat
  <2>1. SubSeq(s, 1, Len(s)) = s /\ Len(s) \in Nat
    OBVIOUS
  <2>2. <<>> \in Seq(Nat)
    OBVIOUS
  <2>3. H!FlattenSeq(s) \in Seq(Nat)
    BY <2>2, FlattenAppend
  <2>. QED  BY <2>1, <2>3, Zenon DEF Upto
<1>2. one \in Seq(Nat) /\ Len(one) = 1 /\ one[1] = q
  OBVIOUS
<1>3. d = u \o one
  OBVIOUS
<1>. HIDE DEF f, one, u
<1>4. /\ u \in Seq(Nat) /\ Len(u) = 1 + Len(f) /\ u[1] = q
      /\ \A j \in 1 .. Len(f) : u[1 + j] = f[j]
  <2>1. /\ u \in Seq(Nat) /\ Len(u) = Len(one) + Len(f)
        /\ \A k \in 1 .. Len(one) : u[k] = one[k]
        /\ \A k \in 1 .. Len(f) : u[Len(one) + k] = f[k]
    BY <1>1, <1>2, Joined, Zenon DEF u
  <2>. QED  BY <1>2, <2>1
<1>5. /\ d \in Seq(Nat) /\ Len(d) = Len(u) + 1 /\ d[Len(u) + 1] = q
      /\ \A j \in 1 .. Len(u) : d[j] = u[j]
  <2>1. 1 \in 1 .. Len(one) /\ one[1] = q
    BY <1>2
  <2>2. /\ d \in Seq(Nat) /\ Len(d) = Len(u) + Len(one)
        /\ \A k \in 1 .. Len(u) : d[k] = u[k]
        /\ \A k \in 1 .. Len(one) : d[Len(u) + k] = one[k]
    <3>. DEFINE z == u \o one
    <3>1. /\ z \in Seq(Nat) /\ Len(z) = Len(u) + Len(one)
          /\ \A k \in 1 .. Len(u) : z[k] = u[k]
          /\ \A k \in 1 .. Len(one) : z[Len(u) + k] = one[k]
      BY <1>2, <1>4, Joined, Zenon DEF z
    <3>2. d = z
      BY <1>3 DEF z
    <3>. HIDE DEF z
    <3>. QED  BY <3>1, <3>2
  <2>. QED  BY <1>2, <2>1, <2>2
<1>6. Len(f) \in Nat /\ Len(u) \in Nat
  BY <1>1, <1>4
<1>7. /\ Len(d) = Len(f) + 2 /\ d[1] = q /\ d[Len(d)] = q
      /\ \A j \in 1 .. Len(f) : d[1 + j] = f[j]
  <2>1. Len(d) = Len(f) + 2 /\ Len(u) + 1 = Len(d) /\ 1 \in 1 .. Len(u)
    BY <1>4, <1>5, <1>6
  <2>2. d[1] = q /\ d[Len(d)] = q
    BY <1>4, <1>5, <2>1
  <2>3. ASSUME NEW j \in 1 .. Len(f) PROVE d[1 + j] = f[j]
    <3>1. 1 + j \in 1 .. Len(u)
      BY <1>4, <1>6
    <3>. QED  BY <1>4, <1>5, <3>1
  <2>. QED  BY <2>1, <2>2, <2>3
<1>8. Begin(s, 0) = 2 /\ Begin(s, Len(s)) = Len(d)
  <2>1. Len(<<>>) = 0
    OBVIOUS
  <2>. QED  BY <1>1, <1>6, <1>7, <2>1, UptoNone DEF Begin
<1>9. ASSUME NEW k \in 0 .. Len(s) - 1
      PROVE  /\ Begin(s, k) \in Nat \ {0, 1} /\ Len(s[k + 1]) \in Nat
             /\ Begin(s, k + 1) = Begin(s, k) + Len(s[k + 1])
             /\ Begin(s, k + 1) <= Len(d)
             /\ Stands(d, Begin(s, k), s[k + 1])
  <2>1. k \in Nat /\ k + 1 <= Len(s) /\ k + 1 \in 1 .. Len(s)
    BY <1>1
  <2>. DEFINE a == Upto(s, k)
              b == Upto(s, k + 1)
              y == s[k + 1]
  <2>2. a \in Seq(Nat) /\ b = a \o y /\ y \in Seq(Nat)
    BY <2>1, UptoNext
  <2>3. Laid(s, f, k)
    <3>1. Len(s) \in 0 .. Len(s)
      BY <1>1
    <3>. QED  BY <1>1, <3>1, LaidOut, Zenon
  <2>4. Len(b) <= Len(f) /\ \A j \in 1 .. Len(y) : f[Len(a) + j] = y[j]
    BY <2>3 DEF Laid
  <2>. HIDE DEF a, b, y
  <2>5. Len(a) \in Nat /\ Len(y) \in Nat /\ Len(b) = Len(a) + Len(y)
    BY <2>2
  <2>6. ASSUME NEW j \in 1 .. Len(y)
        PROVE  2 + Len(a) + j - 1 \in 1 .. Len(d) /\ d[2 + Len(a) + j - 1] = y[j]
    <3>1. Len(a) + j \in 1 .. Len(f) /\ 2 + Len(a) + j - 1 = 1 + (Len(a) + j)
      BY <1>6, <2>4, <2>5
    <3>2. 1 + (Len(a) + j) \in 1 .. Len(d)
      BY <1>6, <1>7, <3>1
    <3>3. d[1 + (Len(a) + j)] = f[Len(a) + j]
      BY <1>7, <3>1
    <3>4. f[Len(a) + j] = y[j]
      BY <2>4
    <3>. QED  BY <3>1, <3>2, <3>3, <3>4
  <2>7. DOMAIN d = 1 .. Len(d)
    BY <1>5
  <2>8. Stands(d, 2 + Len(a), y)
    BY <2>6, <2>7, Zenon DEF Stands
  <2>9. /\ 2 + Len(a) \in Nat \ {0, 1}
        /\ 2 + Len(b) = 2 + Len(a) + Len(y) /\ 2 + Len(b) <= Len(d)
    BY <1>6, <1>7, <2>4, <2>5, SMTT(30)
  <2>. QED  BY <2>5, <2>8, <2>9 DEF Begin, a, b, y
<1>10. Len(d) \in Nat \ {0, 1}
  BY <1>6, <1>7
<1>. QED  BY <1>5, <1>7, <1>8, <1>9, <1>10, Zenon DEF IsQuoted

-----------------------------------------------------------------------------
(* Reading a string: the recursion of cssUnescapeString has a solution.     *)

\* The runes at a position and where they end.
RunesAt(d, i) ==
  IF d[i] = S!Backslash THEN S!consumeEscape(d, i + 1)
                        ELSE [runes |-> <<d[i]>>, next |-> i + 1]

IsText(d) == Len(d) \in Nat /\ DOMAIN d = 1 .. Len(d)

NoRunes(d, i) ==
  i > Len(d) \/ d[i] = S!Newline \/ (i = Len(d) /\ d[i] = S!Backslash)

\* What is read from position i, if f says what is read from those behind.
ReadAt(d, i, f) ==
  IF NoRunes(d, i) THEN S!Malformed
  ELSE IF d[i] = d[1] THEN [ok |-> TRUE, value |-> <<>>, size |-> i]
  ELSE IF f[RunesAt(d, i).next].ok
       THEN [f[RunesAt(d, i).next] EXCEPT !.value = RunesAt(d, i).runes \o @]
       ELSE S!Malformed

Reads(d, lo, f) == f = [i \in lo .. Len(d) + 2 |-> ReadAt(d, i, f)]

LEMMA NextFound ==
  ASSUME NEW d, IsText(d), NEW i \in Nat, ~NoRunes(d, i)
  PROVE  RunesAt(d, i).next \in i + 1 .. Len(d) + 2
<1>0. PICK N \in Nat : N = Len(d)
  BY DEF IsText
<1>1. i <= N /\ ~(i = N /\ d[i] = S!Backslash)
  <2>1. ~(i > N) /\ ~(i = N /\ d[i] = S!Backslash)
    BY <1>0 DEF NoRunes
  <2>. QED  BY <2>1
<1>2. CASE d[i] # S!Backslash
  <2>1. RunesAt(d, i).next = i + 1
    BY <1>2 DEF RunesAt
  <2>. QED  BY <1>0, <1>1, <2>1
<1>3. CASE d[i] = S!Backslash
  <2>1. PICK n : n = S!DigitsAt(d, i + 1)
    OBVIOUS
  <2>2. /\ n \in 0 .. 6
        /\ \A j \in i + 1 .. i + 1 + n - 1 : j \in DOMAIN d
    BY <2>1, DigitsFound
  <2>3. i + 1 <= N /\ i + 1 \in Nat
    BY <1>1, <1>3
  <2>4. i + n <= N
    <3>1. CASE n = 0
      BY <1>1, <3>1
    <3>2. CASE n # 0
      <4>1. i + n \in i + 1 .. i + 1 + n - 1
        BY <2>2, <3>2
      <4>2. i + n \in 1 .. N
        BY <1>0, <2>2, <4>1 DEF IsText
      <4>. QED  BY <4>2
    <3>. QED  BY <3>1, <3>2
  <2>5. S!consumeEscape(d, i + 1).next \in {i + 1 + n, i + 1 + n + 1}
    <3>1. CASE n > 0
      <4>1. S!consumeEscape(d, i + 1).next
              = i + 1 + n + (IF i + 1 + n \in DOMAIN d /\ S!isWhiteSpace(d[i + 1 + n])
                               THEN 1 ELSE 0)
        BY <2>1, <3>1 DEF S!consumeEscape
      <4>2. i + 1 + n \in Nat /\ i + 1 + n + 0 = i + 1 + n
        BY <2>2
      <4>. QED  BY <4>1, <4>2
    <3>2. CASE ~(n > 0)
      <4>1. S!consumeEscape(d, i + 1).next = i + 1 + 1
        BY <2>1, <3>2 DEF S!consumeEscape
      <4>2. i + 1 + 1 = i + 1 + n + 1
        BY <2>2, <3>2
      <4>. QED  BY <4>1, <4>2
    <3>. QED  BY <3>1, <3>2
  <2>6. /\ i + 1 + n \in i + 1 .. N + 2
        /\ i + 1 + n + 1 \in i + 1 .. N + 2
    BY <2>2, <2>4
  <2>7. RunesAt(d, i).next = S!consumeEscape(d, i + 1).next
    BY <1>3 DEF RunesAt
  <2>. QED  BY <1>0, <2>5, <2>6, <2>7
<1>. QED  BY <1>0, <1>2, <1>3, SMTT(30)

LEMMA ReadSame ==
  ASSUME NEW d, IsText(d), NEW i \in Nat, NEW f, NEW g,
         \A n \in i + 1 .. Len(d) + 2 : f[n] = g[n]
  PROVE  ReadAt(d, i, f) = ReadAt(d, i, g)
<1>1. CASE NoRunes(d, i)
  BY <1>1 DEF ReadAt
<1>2. CASE ~NoRunes(d, i)
  <2>1. f[RunesAt(d, i).next] = g[RunesAt(d, i).next]
    BY <1>2, NextFound
  <2>. QED  BY <2>1, Zenon DEF ReadAt
<1>. QED  BY <1>1, <1>2

LEMMA ReadsExist ==
  ASSUME NEW d, IsText(d)
  PROVE  \E f : Reads(d, 2, f)
<1>0. Len(d) + 2 \in Nat \ {0, 1}
  BY DEF IsText
<1>. DEFINE N == Len(d) + 2
            R == {m \in Nat : m <= N - 1 => \E f : Reads(d, N + 1 - m, f)}
<1>1. 0 \in R
  <2>. DEFINE f == [i \in N + 1 .. N |-> 0]
  <2>1. N + 1 - 0 = N + 1 /\ N + 1 .. N = {}
    BY <1>0
  <2>2. f = [i \in N + 1 .. N |-> ReadAt(d, i, f)]
    <3>. HIDE DEF N
    <3>. QED  BY <2>1, Zenon
  <2>. HIDE DEF f
  <2>3. Reads(d, N + 1 - 0, f)
    BY <2>1, <2>2 DEF Reads
  <2>. QED  BY <2>3
<1>2. ASSUME NEW m \in R PROVE m + 1 \in R
  <2>. SUFFICES ASSUME m + 1 <= N - 1 PROVE \E f : Reads(d, N + 1 - (m + 1), f)
    BY <1>2
  <2>0. m \in Nat /\ m <= N - 1
    BY <1>2
  <2>1. PICK f : Reads(d, N + 1 - m, f)
    BY <2>0
  <2>2. PICK lo : lo = N + 1 - (m + 1)
    OBVIOUS
  <2>3. lo \in Nat /\ N + 1 - m = lo + 1 /\ lo <= N /\ N \in Nat
    BY <1>0, <2>0, <2>2
  <2>. DEFINE g == [i \in lo .. N |-> IF i = lo THEN ReadAt(d, lo, f) ELSE f[i]]
  <2>4. \A i \in lo + 1 .. N : f[i] = ReadAt(d, i, f) /\ f[i] = g[i]
    <3>1. f = [i \in lo + 1 .. N |-> ReadAt(d, i, f)]
      BY <2>1, <2>3 DEF Reads
    <3>2. \A i \in lo + 1 .. N : i \in lo .. N /\ i # lo
      BY <2>3
    <3>. HIDE DEF N
    <3>. QED  BY <3>1, <3>2, Zenon
  <2>5. ASSUME NEW i \in lo .. N PROVE g[i] = ReadAt(d, i, g)
    <3>1. i \in Nat /\ \A n \in i + 1 .. N : n \in lo + 1 .. N
      BY <2>3
    <3>2. \A n \in i + 1 .. Len(d) + 2 : f[n] = g[n]
      <4>. HIDE DEF g
      <4>. QED  BY <2>4, <3>1
    <3>3. ReadAt(d, i, f) = ReadAt(d, i, g)
      <4>. HIDE DEF g
      <4>. QED  BY <3>1, <3>2, ReadSame
    <3>4. CASE i = lo
      <4>1. g[lo] = ReadAt(d, lo, f)
        <5>. HIDE DEF N
        <5>. QED  BY <3>4, Zenon
      <4>. HIDE DEF g
      <4>. QED  BY <3>3, <3>4, <4>1
    <3>5. CASE i # lo
      <4>1. i \in lo + 1 .. N
        BY <2>3, <3>5
      <4>. HIDE DEF g
      <4>. QED  BY <2>4, <3>3, <4>1
    <3>. QED  BY <3>4, <3>5
  <2>6. g = [i \in lo .. N |-> ReadAt(d, i, g)]
    <3>1. g = [i \in lo .. N |-> g[i]]
      <4>. HIDE DEF N
      <4>. QED  OBVIOUS
    <3>. HIDE DEF g, N
    <3>. QED  BY <2>5, <3>1, Zenon
  <2>. HIDE DEF g
  <2>7. Reads(d, lo, g)
    BY <2>6 DEF Reads
  <2>. QED  BY <2>2, <2>7
<1>3. R = Nat
  <2>. HIDE DEF R
  <2>1. R \subseteq Nat
    BY DEF R
  <2>. QED  BY <1>1, <1>2, <2>1, NatInductionSet
<1>4. N - 1 \in R /\ N + 1 - (N - 1) = 2 /\ N - 1 <= N - 1 /\ N - 1 \in Nat
  <2>1. N - 1 \in Nat /\ N + 1 - (N - 1) = 2 /\ N - 1 <= N - 1
    BY <1>0
  <2>. HIDE DEF R
  <2>. QED  BY <1>3, <2>1
<1>5. \E f : Reads(d, N + 1 - (N - 1), f)
  <2>. HIDE DEF N
  <2>. QED  BY <1>4
<1>. QED  BY <1>4, <1>5

LEMMA UnescapeReads ==
  ASSUME NEW d, IsText(d), d[1] \in {S!DoubleQuote, S!Apostrophe}
  PROVE  \E f : Reads(d, 2, f) /\ S!Unescape(d) = f[2]
<1>. DEFINE f == CHOOSE f : Reads(d, 2, f)
<1>1. Reads(d, 2, f)
  BY ReadsExist
<1>2. S!Unescape(d) = f[2]
  BY Zenon DEF S!Unescape, Reads, ReadAt, RunesAt, NoRunes
<1>. QED  BY <1>1, <1>2

-----------------------------------------------------------------------------
(* What is quoted is read back.                                            *)

LEMMA PieceType ==
  ASSUME NEW r \in 1 .. 255, NEW q \in {34, 39}
  PROVE  PieceOf(r, q) \in Seq(Nat)
<1>1. CASE r \notin {10, q, 92}
  <2>1. PieceOf(r, q) = <<r>>
    BY <1>1 DEF PieceOf, S!Newline, S!Backslash
  <2>. QED  BY <2>1
<1>2. CASE r \in {10, q, 92}
  <2>1. PieceOf(r, q) = <<92>> \o S!Hex(r) \o <<32>>
    BY <1>2 DEF PieceOf, S!Escaped, S!Newline, S!Backslash, S!Space
  <2>2. S!Hex(r) \in Seq(Nat)
    <3>1. r \in {10, 34, 39, 92}
      BY <1>2
    <3>2. /\ <<97>> \in Seq(Nat) /\ <<50, 50>> \in Seq(Nat)
          /\ <<50, 55>> \in Seq(Nat) /\ <<53, 99>> \in Seq(Nat)
      OBVIOUS
    <3>3. S!Hex(r) \in {<<97>>, <<50, 50>>, <<50, 55>>, <<53, 99>>}
      <4>1. \A x \in {10, 34, 39, 92} : S!Hex(x) \in {S!Hex(10), S!Hex(34), S!Hex(39), S!Hex(92)}
        BY Zenon
      <4>2. S!Hex(r) \in {S!Hex(10), S!Hex(34), S!Hex(39), S!Hex(92)}
        BY <3>1, <4>1, Zenon
      <4>. QED  BY <4>2, HexOfEscaped, Zenon
    <3>. QED  BY <3>2, <3>3, ZenonT(40)
  <2>3. <<92>> \in Seq(Nat) /\ <<32>> \in Seq(Nat)
    OBVIOUS
  <2>. DEFINE a == <<92>>
              b == S!Hex(r)
              c == <<32>>
  <2>4. PieceOf(r, q) = a \o b \o c /\ a \in Seq(Nat) /\ b \in Seq(Nat) /\ c \in Seq(Nat)
    BY <2>1, <2>2, <2>3
  <2>. HIDE DEF a, b, c
  <2>5. a \o b \in Seq(Nat)
    BY <2>4, Joined, Zenon
  <2>6. a \o b \o c \in Seq(Nat)
    BY <2>4, <2>5, Joined, Zenon
  <2>. QED  BY <2>4, <2>6, Zenon
<1>. QED  BY <1>1, <1>2

\* One rune more in front.
LEMMA RuneBefore ==
  ASSUME NEW v \in Seq(Nat), NEW k \in Nat, k + 1 <= Len(v)
  PROVE  <<v[k + 1]>> \o SubSeq(v, k + 2, Len(v)) = SubSeq(v, k + 1, Len(v))
<1>. DEFINE x == <<v[k + 1]>>
            y == SubSeq(v, k + 2, Len(v))
            z == SubSeq(v, k + 1, Len(v))
<1>1. Len(v) \in Nat /\ v[k + 1] \in Nat
  OBVIOUS
<1>2. x \in Seq(Nat) /\ Len(x) = 1 /\ x[1] = v[k + 1]
  BY <1>1
<1>3. /\ y \in Seq(Nat) /\ Len(y) = Len(v) - k - 1
      /\ \A j \in 1 .. Len(y) : y[j] = v[k + 1 + j]
  BY <1>1
<1>4. /\ z \in Seq(Nat) /\ Len(z) = Len(v) - k
      /\ \A j \in 1 .. Len(z) : z[j] = v[k + j]
  BY <1>1
<1>. HIDE DEF x, y, z
<1>5. /\ x \o y \in Seq(Nat) /\ Len(x \o y) = Len(x) + Len(y)
      /\ \A j \in 1 .. Len(x) : (x \o y)[j] = x[j]
      /\ \A j \in 1 .. Len(y) : (x \o y)[Len(x) + j] = y[j]
  BY <1>2, <1>3, Joined, Zenon
<1>. DEFINE u == x \o y
<1>. HIDE DEF u
<1>6. /\ u \in Seq(Nat) /\ Len(u) = Len(v) - k
      /\ \A j \in 1 .. Len(u) : u[j] = v[k + j]
  <2>1. /\ u \in Seq(Nat) /\ Len(u) = 1 + Len(y) /\ u[1] = v[k + 1]
        /\ \A j \in 1 .. Len(y) : u[1 + j] = y[j]
    BY <1>2, <1>5 DEF u
  <2>2. Len(u) = Len(v) - k
    BY <1>1, <1>3, <2>1
  <2>3. ASSUME NEW j \in 1 .. Len(u) PROVE u[j] = v[k + j]
    <3>1. CASE j = 1
      BY <2>1, <3>1
    <3>2. CASE j # 1
      <4>1. j - 1 \in 1 .. Len(y) /\ 1 + (j - 1) = j /\ k + 1 + (j - 1) = k + j
        BY <1>1, <1>3, <2>2, <3>2
      <4>. QED  BY <1>3, <2>1, <4>1, ZenonT(40)
    <3>. QED  BY <3>1, <3>2
  <2>. QED  BY <2>1, <2>2, <2>3
<1>7. u = z
  <2>1. Len(u) = Len(z) /\ \A j \in 1 .. Len(u) : u[j] = z[j]
    BY <1>1, <1>4, <1>6
  <2>. QED  BY <1>4, <1>6, <2>1, SeqEqual
<1>. QED  BY <1>7 DEF u, x, y, z

ReadIs(f, p, u, w) == f[p] = [ok |-> TRUE, value |-> u, size |-> w]

LEMMA WithValue ==
  ASSUME NEW o, NEW u, NEW w, NEW x, NEW t, t = [ok |-> o, value |-> u, size |-> w]
  PROVE  [t EXCEPT !.value = x] = [ok |-> o, value |-> x, size |-> w]
OBVIOUS

\* One piece is read, and then the rest.
LEMMA ReadBack ==
  ASSUME NEW d, IsASequence(d), IsText(d), NEW q \in {34, 39}, d[1] = q,
         NEW f, NEW p \in Nat \ {0, 1}, f[p] = ReadAt(d, p, f),
         NEW r \in 1 .. 255, Stands(d, p, PieceOf(r, q)),
         NEW u, NEW w,
         ReadIs(f, p + Len(PieceOf(r, q)), u, w)
  PROVE  ReadIs(f, p, <<r>> \o u, w)
<1>. DEFINE t == [ok |-> TRUE, value |-> u, size |-> w]
            e == [runes |-> <<r>>, next |-> p + Len(PieceOf(r, q))]
<1>1. p \in Nat \ {0}
  OBVIOUS
<1>2. /\ p \in DOMAIN d /\ d[p] # 10 /\ d[p] # q
      /\ d[p] = 92 => p + 1 \in DOMAIN d
      /\ (IF d[p] = 92 THEN S!consumeEscape(d, p + 1)
                      ELSE [runes |-> <<d[p]>>, next |-> p + 1]) = e
  <2>1. StandsAs(d, p, r, q)
    BY <1>1, PieceRead, ZenonT(40)
  <2>. QED  BY <2>1, Zenon DEF StandsAs
<1>3. RunesAt(d, p) = e
  BY <1>2, Zenon DEF RunesAt, S!Backslash
<1>4. ~NoRunes(d, p)
  <2>1. PICK N \in Nat : N = Len(d) /\ DOMAIN d = 1 .. N
    BY Zenon DEF IsText
  <2>2. p \in 1 .. N /\ (d[p] = 92 => p + 1 \in 1 .. N)
    BY <1>2, <2>1
  <2>3. ~(p > N) /\ (d[p] = 92 => p # N)
    BY <2>1, <2>2
  <2>. QED  BY <1>2, <2>1, <2>3, Zenon DEF NoRunes, S!Newline, S!Backslash
<1>5. e.runes = <<r>> /\ e.next = p + Len(PieceOf(r, q))
  OBVIOUS
<1>6. f[RunesAt(d, p).next] = t /\ RunesAt(d, p).runes = <<r>>
  <2>. HIDE DEF e
  <2>. QED  BY <1>3, <1>5, Zenon DEF ReadIs
<1>7. t.ok /\ [t EXCEPT !.value = <<r>> \o @] = [ok |-> TRUE, value |-> <<r>> \o u, size |-> w]
  <2>. DEFINE x == <<r>> \o u
  <2>1. t.value = u /\ t.ok /\ x = <<r>> \o t.value
    OBVIOUS
  <2>2. [t EXCEPT !.value = x] = [ok |-> TRUE, value |-> x, size |-> w]
    <3>. HIDE DEF x
    <3>. HIDE DEF t
    <3>1. t = [ok |-> TRUE, value |-> u, size |-> w]
      BY DEF t
    <3>2. \A o : t = [ok |-> o, value |-> u, size |-> w]
            => [t EXCEPT !.value = x] = [ok |-> o, value |-> x, size |-> w]
      BY WithValue
    <3>. QED  BY <3>1, <3>2, Zenon
  <2>. HIDE DEF t
  <2>. QED  BY <2>1, <2>2, Zenon DEF x
<1>8. f[p] = [t EXCEPT !.value = <<r>> \o @]
  <2>. HIDE DEF t
  <2>1. d[p] # d[1]
    BY <1>2, Zenon
  <2>. QED  BY <1>4, <1>6, <1>7, <2>1, Zenon DEF ReadAt
<1>. QED  BY <1>7, <1>8, Zenon DEF ReadIs

LEMMA RoundTrip ==
  ASSUME NEW v \in Seq(1 .. 255), NEW q \in {34, 39}, NEW d, d = S!Escape(v, q)
  PROVE  S!Unescape(d) = [ok |-> TRUE, value |-> v, size |-> Len(d)]
<1>1. PICK n \in Nat : n = Len(v) /\ DOMAIN v = 1 .. n
  OBVIOUS
<1>2. v \in Seq(Nat)
  <2>1. 1 .. 255 \subseteq Nat
    OBVIOUS
  <2>. QED  BY <2>1, SeqMonotonic
<1>3. \A k \in 1 .. n : v[k] \in 1 .. 255
  BY <1>1
<1>. DEFINE s == [i \in 1 .. n |-> PieceOf(v[i], q)]
<1>4. \A k \in 1 .. n : PieceOf(v[k], q) \in Seq(Nat)
  BY <1>3, PieceType
<1>5. s \in Seq(Seq(Nat)) /\ Len(s) = n /\ \A k \in 1 .. n : s[k] = PieceOf(v[k], q)
  BY <1>1, <1>4
<1>6. d = <<q>> \o H!FlattenSeq(s) \o <<q>>
  <2>1. s = [i \in DOMAIN v |-> IF v[i] \in {S!Newline, q, S!Backslash}
                                  THEN S!Escaped(v[i]) ELSE <<v[i]>>]
    BY <1>1, Zenon DEF PieceOf
  <2>. HIDE DEF s
  <2>2. d = <<q>> \o S!FlattenSeq(s) \o <<q>>
    BY <2>1, Zenon DEF S!Escape
  <2>3. S!FlattenSeq(s) = H!FlattenSeq(s)
    BY DEF S!FlattenSeq, H!FlattenSeq
  <2>. QED  BY <2>2, <2>3, Zenon
<1>. HIDE DEF s
<1>7. IsQuoted(s, q, d)
  <2>1. q \in Nat
    OBVIOUS
  <2>. QED  BY <1>5, <1>6, <2>1, Quoted, Zenon
<1>8. /\ d \in Seq(Nat) /\ Len(d) \in Nat \ {0, 1}
      /\ d[1] = q /\ d[Len(d)] = q /\ Begin(s, 0) = 2 /\ Begin(s, n) = Len(d)
  BY <1>5, <1>7, Zenon DEF IsQuoted
<1>9. \A k \in 0 .. n - 1 :
        /\ Begin(s, k) \in Nat \ {0, 1} /\ Len(s[k + 1]) \in Nat
        /\ Begin(s, k + 1) = Begin(s, k) + Len(s[k + 1])
        /\ Begin(s, k + 1) <= Len(d)
        /\ Stands(d, Begin(s, k), s[k + 1])
  BY <1>5, <1>7, Zenon DEF IsQuoted
<1>10. IsText(d) /\ IsASequence(d)
  BY <1>8 DEF IsText, IsASequence
<1>11. PICK N \in Nat \ {0, 1} : N = Len(d)
  BY <1>8
<1>12. PICK f : Reads(d, 2, f) /\ S!Unescape(d) = f[2]
  <2>1. d[1] \in {S!DoubleQuote, S!Apostrophe}
    BY <1>8 DEF S!DoubleQuote, S!Apostrophe
  <2>. QED  BY <1>10, <2>1, UnescapeReads, Zenon
<1>13. \A i \in 2 .. N + 2 : f[i] = ReadAt(d, i, f)
  BY <1>11, <1>12, Zenon DEF Reads
<1>. DEFINE Result(k) == [ok |-> TRUE, value |-> SubSeq(v, k + 1, n), size |-> N]
            R == {m \in Nat : m <= n => f[Begin(s, n - m)] = Result(n - m)}
<1>14. 0 \in R
  <2>1. n - 0 = n /\ SubSeq(v, n + 1, n) = <<>>
    BY <1>1
  <2>2. N \in 2 .. N + 2 /\ ~(N > N) /\ q # 10 /\ q # 92
    BY <1>11
  <2>3. ~NoRunes(d, N)
    BY <1>8, <1>11, <2>2, Zenon DEF NoRunes, S!Newline, S!Backslash
  <2>4. f[N] = [ok |-> TRUE, value |-> <<>>, size |-> N]
    BY <1>8, <1>11, <1>13, <2>2, <2>3, ZenonT(40) DEF ReadAt
  <2>5. f[Begin(s, n)] = Result(n)
    BY <1>8, <1>11, <2>1, <2>4
  <2>. QED  BY <2>1, <2>5
<1>15. ASSUME NEW m \in R PROVE m + 1 \in R
  <2>1. m \in Nat /\ m + 1 \in Nat /\ (m <= n => f[Begin(s, n - m)] = Result(n - m))
    <3>. HIDE DEF Result
    <3>. QED  BY <1>15
  <2>2. ASSUME m + 1 <= n PROVE f[Begin(s, n - (m + 1))] = Result(n - (m + 1))
    <3>1. PICK k : k = n - (m + 1)
      OBVIOUS
    <3>2. /\ m <= n /\ k \in 0 .. n - 1 /\ n - m = k + 1 /\ k \in Nat
          /\ k + 1 \in 1 .. n /\ k + 1 <= n /\ k + 1 + 1 = k + 2
      BY <1>1, <2>1, <2>2, <3>1
    <3>3. f[Begin(s, k + 1)] = Result(k + 1)
      <4>. HIDE DEF Result
      <4>. QED  BY <2>1, <3>2, Zenon
    <3>4. PICK p : p = Begin(s, k)
      OBVIOUS
    <3>5. PICK r \in 1 .. 255 : r = v[k + 1]
      BY <1>3, <3>2
    <3>6. s[k + 1] = PieceOf(r, q)
      BY <1>5, <3>2, <3>5, Zenon
    <3>7. /\ p \in Nat \ {0, 1} /\ Begin(s, k + 1) = p + Len(PieceOf(r, q))
          /\ p + Len(PieceOf(r, q)) <= N
          /\ Stands(d, p, PieceOf(r, q)) /\ Len(PieceOf(r, q)) \in Nat
      BY <1>9, <1>11, <3>2, <3>4, <3>6, ZenonT(40)
    <3>8. p \in 2 .. N + 2
      BY <3>7
    <3>9. f[p + Len(PieceOf(r, q))]
            = [ok |-> TRUE, value |-> SubSeq(v, k + 2, n), size |-> N]
      BY <3>2, <3>3, <3>7, Zenon
    <3>10. f[p] = [ok |-> TRUE, value |-> <<r>> \o SubSeq(v, k + 2, n), size |-> N]
      <4>1. f[p] = ReadAt(d, p, f) /\ d[1] = q
        BY <1>8, <1>13, <3>8, Zenon
      <4>. DEFINE u == SubSeq(v, k + 2, n)
      <4>. HIDE DEF u
      <4>2. ReadIs(f, p + Len(PieceOf(r, q)), u, N)
        BY <3>9, Zenon DEF ReadIs, u
      <4>3. ReadIs(f, p, <<r>> \o u, N)
        BY <1>10, <3>7, <4>1, <4>2, ReadBack, ZenonT(40)
      <4>. QED  BY <4>3, Zenon DEF ReadIs, u
    <3>11. <<r>> \o SubSeq(v, k + 2, n) = SubSeq(v, k + 1, n)
      BY <1>1, <1>2, <3>2, <3>5, RuneBefore, Zenon
    <3>. QED  BY <3>1, <3>4, <3>10, <3>11, Zenon
  <2>. HIDE DEF Result
  <2>. QED  BY <2>1, <2>2
<1>. HIDE DEF Result
<1>16. R = Nat
  <2>. HIDE DEF R
  <2>1. R \subseteq Nat
    BY DEF R
  <2>. QED  BY <1>14, <1>15, <2>1, NatInductionSet
<1>17. n - n = 0 /\ n <= n
  BY <1>1
<1>18. f[Begin(s, n - n)] = Result(n - n)
  <2>1. n \in R
    <3>. HIDE DEF R
    <3>. QED  BY <1>1, <1>16
  <2>. QED  BY <1>17, <2>1
<1>19. SubSeq(v, 0 + 1, n) = v
  BY <1>1
<1>20. f[2] = Result(0)
  BY <1>8, <1>17, <1>18, Zenon
<1>. QED  BY <1>11, <1>12, <1>19, <1>20, Zenon DEF Result

-----------------------------------------------------------------------------
(* The strings of the specification.                                       *)

StringInv ==
  job = "string" =>
    /\ value \in Seq(1 .. 255) /\ quote \in {34, 39}
    /\ stage \in {"text", "read"} /\ by = "program" => text = S!Escape(value, quote)
    /\ S!QuotedIsReadBack

LEMMA StringInit ==
  Init => StringInv
<1>. SUFFICES ASSUME Init, job = "string" PROVE StringInv
  BY DEF StringInv
<1>1. S!Init
  BY DEF Init
<1>2. quote \in {34, 39} /\ stage = "value"
  BY <1>1 DEF S!Init, S!DoubleQuote, S!Apostrophe
<1>3. value \in Seq(1 .. 255)
  <2>1. Runes \subseteq 1 .. 255 /\ MaxLength \in Nat
    BY RewriteAssumption DEF S!RunesAssumption
  <2>2. PICK n \in 0 .. MaxLength : value \in [1 .. n -> Runes]
    BY <1>1 DEF S!Init
  <2>3. n \in Nat
    BY <2>1
  <2>4. value \in [1 .. n -> 1 .. 255]
    <3>1. DOMAIN value = 1 .. n /\ value = [i \in 1 .. n |-> value[i]]
          /\ \A i \in 1 .. n : value[i] \in Runes
      BY <2>2, Zenon
    <3>2. \A i \in 1 .. n : value[i] \in 1 .. 255
      BY <2>1, <3>1, Zenon
    <3>. QED  BY <3>1, <3>2, Zenon
  <2>. QED  BY <2>3, <2>4
<1>. QED  BY <1>2, <1>3 DEF StringInv, S!QuotedIsReadBack

LEMMA StringNext ==
  StringInv /\ [Next]_vars => StringInv'
<1>. SUFFICES ASSUME StringInv, [Next]_vars, job' = "string" PROVE StringInv'
  BY DEF StringInv
<1>1. CASE UNCHANGED <<job, stringVars>>
  BY <1>1 DEF StringInv, stringVars, S!QuotedIsReadBack, S!Whole
<1>2. CASE String
  <2>1. job = "string" /\ UNCHANGED job
    BY <1>2 DEF String
  <2>2. /\ value \in Seq(1 .. 255) /\ quote \in {34, 39}
        /\ stage \in {"text", "read"} /\ by = "program" => text = S!Escape(value, quote)
        /\ S!QuotedIsReadBack
    BY <2>1 DEF StringInv
  <2>3. CASE S!ProgramQuotes
    BY <2>2, <2>3 DEF S!ProgramQuotes, StringInv, S!QuotedIsReadBack
  <2>4. CASE S!AuthorQuotes
    BY <2>2, <2>4 DEF S!AuthorQuotes, StringInv, S!QuotedIsReadBack
  <2>5. CASE S!Read
    <3>1. by = "program" => text = S!Escape(value, quote)
      BY <2>2, <2>5 DEF S!Read
    <3>2. by = "program" => S!Unescape(text) = S!Whole
      BY <2>2, <3>1, RoundTrip DEF S!Whole
    <3>3. /\ stage' = "read" /\ read' = S!Unescape(text)
          /\ UNCHANGED <<value, quote, text, by>>
      BY <2>5 DEF S!Read
    <3>4. S!Whole' = S!Whole
      BY <3>3 DEF S!Whole
    <3>. QED  BY <2>2, <3>1, <3>2, <3>3, <3>4 DEF StringInv, S!QuotedIsReadBack
  <2>. QED  BY <1>2, <2>3, <2>4, <2>5 DEF String, S!Next
<1>. QED  BY <1>1, <1>2 DEF Next, Page, Sheet, Refuse, vars

\* QuotedIsReadBack: a value of any length that cssEscapeString has quoted is
\* read by cssUnescapeString as itself, and as one token (css.go:214-316).
THEOREM QuotedHolds == Spec => []QuotedIsReadBack
<1>1. StringInv => QuotedIsReadBack
  BY DEF StringInv, QuotedIsReadBack
<1>. QED  BY <1>1, StringInit, StringNext, PTL DEF Spec
=============================================================================
