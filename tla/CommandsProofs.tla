--------------------------- MODULE CommandsProofs ---------------------------
(***************************************************************************)
(* What the commands leave and print, for any repositories, any URLs and   *)
(* any flags: what files leaves in its output directory, for any mappings, *)
(* any faults and any number of runs; what list, show, diff and scrape     *)
(* promise; what is read of a cache of httrack, whatever happened to it.   *)
(***************************************************************************)
EXTENDS Commands, SequenceLemmas, FiniteSetTheorems

-----------------------------------------------------------------------------
(* Canonical and Rebase.                                                   *)

LEMMA LowerTwice ==
  ASSUME NEW s
  PROVE  /\ Lower(Lower(s)) = Lower(s)
         /\ Lower(s) = "" <=> s = ""
<1>1. Lower(s) = IF s = "HTTP" THEN "http" ELSE IF s = "HTTPS" THEN "https"
                 ELSE IF s = "HOST" THEN "host" ELSE s
  BY DEF Lower
<1>2. Lower(Lower(s)) = Lower(s)
  BY DEF Lower
<1>. QED  BY <1>1, <1>2

\* What the fields of a canonical URL are.
LEMMA CanonicalFields ==
  ASSUME NEW u, IsURL(u)
  PROVE  LET c == Canonical(u)
         IN  /\ IsURL(c)
             /\ c.scheme = Lower(u.scheme)
             /\ c.host = Lower(u.host)
             /\ c.port = IF u.port = DefaultPort(Lower(u.scheme)) THEN ""
                         ELSE u.port
             /\ c.path = IF u.scheme # "" /\ u.host # "" /\ u.path = <<>>
                           THEN <<"/">> ELSE u.path
             /\ c.query = u.query
             /\ c.fragment = u.fragment
<1>. DEFINE c == Canonical(u)
            port == IF u.port = DefaultPort(Lower(u.scheme)) THEN "" ELSE u.port
            path == IF u.scheme # "" /\ u.host # "" /\ u.path = <<>> THEN <<"/">>
                    ELSE u.path
<1>1. u = [scheme |-> u.scheme, host |-> u.host, port |-> u.port, path |-> u.path,
           query |-> u.query, fragment |-> u.fragment]
  BY DEF IsURL
<1>2. c = [u EXCEPT !.scheme = Lower(u.scheme), !.host = Lower(u.host),
                    !.port = port, !.path = path]
  BY DEF Canonical, IsAbs
<1>3. IsSequence(path)
  <2>1. CASE path = u.path
    BY <2>1 DEF IsURL
  <2>2. CASE path # u.path
    <3>1. path = <<"/">>
      BY <2>2
    <3>. QED  BY <3>1, SingletonSequence
  <2>. QED  BY <2>1, <2>2
<1>. HIDE DEF c, path, port
<1>4. c = [scheme |-> Lower(u.scheme), host |-> Lower(u.host), port |-> port,
           path |-> path, query |-> u.query, fragment |-> u.fragment]
  BY <1>1, <1>2
<1>5. /\ c.scheme = Lower(u.scheme) /\ c.host = Lower(u.host) /\ c.port = port
      /\ c.path = path /\ c.query = u.query /\ c.fragment = u.fragment
  BY <1>4
<1>6. IsURL(c)
  BY <1>3, <1>4, <1>5 DEF IsURL
<1>. QED  BY <1>5, <1>6 DEF c, path, port

\* Canonical is idempotent, and keeps a URL absolute.
LEMMA CanonicalTwice ==
  ASSUME NEW u, IsURL(u)
  PROVE  /\ Canonical(Canonical(u)) = Canonical(u)
         /\ IsAbs(Canonical(u)) <=> IsAbs(u)
<1>. DEFINE c == Canonical(u)
            cc == Canonical(c)
<1>1. /\ IsURL(c)
      /\ c.scheme = Lower(u.scheme)
      /\ c.host = Lower(u.host)
      /\ c.port = IF u.port = DefaultPort(Lower(u.scheme)) THEN "" ELSE u.port
      /\ c.path = IF u.scheme # "" /\ u.host # "" /\ u.path = <<>>
                    THEN <<"/">> ELSE u.path
  BY CanonicalFields
<1>. HIDE DEF c
<1>2. /\ IsURL(cc)
      /\ cc.scheme = Lower(c.scheme)
      /\ cc.host = Lower(c.host)
      /\ cc.port = IF c.port = DefaultPort(Lower(c.scheme)) THEN "" ELSE c.port
      /\ cc.path = IF c.scheme # "" /\ c.host # "" /\ c.path = <<>>
                     THEN <<"/">> ELSE c.path
      /\ cc.query = c.query
      /\ cc.fragment = c.fragment
  BY <1>1, CanonicalFields
<1>. HIDE DEF cc
<1>3. /\ cc.scheme = c.scheme /\ cc.host = c.host
      /\ c.scheme = "" <=> u.scheme = ""
      /\ c.host = "" <=> u.host = ""
  BY <1>1, <1>2, LowerTwice
<1>4. cc.port = c.port
  BY <1>1, <1>2, <1>3
<1>5. cc.path = c.path
  BY <1>1, <1>2, <1>3
<1>6. cc = c
  BY <1>1, <1>2, <1>3, <1>4, <1>5 DEF IsURL
<1>. QED  BY <1>3, <1>6 DEF IsAbs, c, cc

\* The path u, with w in place of its prefix o.
Exchange(u, o, w) == w \o SubSeq(u, Len(o) + 1, Len(u))

\* The path that is put in front comes off again, and the other one back.
LEMMA PathBack ==
  ASSUME NEW Z, NEW o \in Seq(Z), NEW w \in Seq(Z), NEW u \in Seq(Z),
         IsPrefix(o, u),
         NEW t, t = Exchange(u, o, w)
  PROVE  /\ t \in Seq(Z)
         /\ IsPrefix(w, t)
         /\ Exchange(t, w, o) = u
<1>. DEFINE rest == SubSeq(u, Len(o) + 1, Len(u))
<1>1. /\ Len(o) \in Nat /\ Len(u) \in Nat /\ Len(w) \in Nat
      /\ Len(o) <= Len(u)
      /\ SubSeq(o, 1, Len(o)) = SubSeq(u, 1, Len(o))
  BY DEF IsPrefix
<1>2. /\ rest \in Seq(Z) /\ Len(rest) = Len(u) - Len(o)
      /\ \A n \in 1 .. Len(u) - Len(o) : rest[n] = u[Len(o) + n]
  <2>1. /\ rest \in Seq(Z)
        /\ Len(rest) = IF Len(o) + 1 <= Len(u) THEN Len(u) - (Len(o) + 1) + 1 ELSE 0
        /\ \A n \in 1 .. Len(u) - (Len(o) + 1) + 1 : rest[n] = u[Len(o) + 1 + n - 1]
    BY <1>1
  <2>. HIDE DEF rest
  <2>2. Len(rest) = Len(u) - Len(o)
    BY <1>1, <2>1
  <2>3. ASSUME NEW n \in 1 .. Len(u) - Len(o)
        PROVE  rest[n] = u[Len(o) + n]
    <3>1. n \in 1 .. Len(u) - (Len(o) + 1) + 1 /\ Len(o) + 1 + n - 1 = Len(o) + n
      BY <1>1
    <3>. QED  BY <2>1, <3>1
  <2>. QED  BY <2>1, <2>2, <2>3
<1>. HIDE DEF rest
<1>3. /\ t \in Seq(Z) /\ Len(t) = Len(w) + Len(rest)
      /\ \A n \in 1 .. Len(t) : t[n] = IF n <= Len(w) THEN w[n] ELSE rest[n - Len(w)]
  BY <1>2, ConcatProperties DEF rest, Exchange
<1>4. SubSeq(w, 1, Len(w)) = SubSeq(t, 1, Len(w))
  BY <1>1, <1>2, <1>3
<1>. DEFINE back == SubSeq(t, Len(w) + 1, Len(t))
<1>5. back = rest
  <2>1. Len(w) + 1 \in 1 .. Len(t) + 1 /\ Len(t) \in Nat
    BY <1>1, <1>2, <1>3
  <2>2. /\ back \in Seq(Z)
        /\ Len(back) = IF Len(w) + 1 <= Len(t) THEN Len(t) - (Len(w) + 1) + 1 ELSE 0
        /\ \A n \in 1 .. Len(t) - (Len(w) + 1) + 1 : back[n] = t[Len(w) + 1 + n - 1]
    <3>1. t \in Seq(Z)
      BY <1>3
    <3>2. SubSeq(t, Len(w) + 1, Len(t)) \in Seq(Z)
      BY <1>1, <2>1, <3>1, SubSeqProperties
    <3>. QED  BY <1>1, <2>1, <3>1, <3>2, SubSeqProperties
  <2>. HIDE DEF back
  <2>3. Len(back) = Len(rest)
    BY <1>1, <1>2, <1>3, <2>1, <2>2
  <2>4. \A n \in 1 .. Len(rest) : back[n] = rest[n]
    <3>. SUFFICES ASSUME NEW n \in 1 .. Len(rest) PROVE back[n] = rest[n]
      OBVIOUS
    <3>1. /\ n \in 1 .. Len(t) - (Len(w) + 1) + 1
          /\ Len(w) + 1 + n - 1 = Len(w) + n
          /\ Len(w) + n \in 1 .. Len(t) /\ ~(Len(w) + n <= Len(w))
          /\ Len(w) + n - Len(w) = n
      BY <1>1, <1>2, <1>3
    <3>2. back[n] = t[Len(w) + n]
      BY <2>2, <3>1
    <3>. QED  BY <1>3, <3>1, <3>2
  <2>. QED  BY <1>2, <2>2, <2>3, <2>4, SeqEqual
<1>. HIDE DEF back
<1>6. o \o rest = u
  <2>1. /\ o \o rest \in Seq(Z) /\ Len(o \o rest) = Len(u)
        /\ \A n \in 1 .. Len(u) :
              (o \o rest)[n] = IF n <= Len(o) THEN o[n] ELSE rest[n - Len(o)]
    BY <1>1, <1>2, ConcatProperties
  <2>2. \A n \in 1 .. Len(o) : o[n] = u[n]
    <3>1. /\ \A n \in 1 .. Len(o) : SubSeq(o, 1, Len(o))[n] = o[n]
          /\ \A n \in 1 .. Len(o) : SubSeq(u, 1, Len(o))[n] = u[n]
      BY <1>1
    <3>. QED  BY <1>1, <3>1
  <2>3. \A n \in 1 .. Len(u) : (o \o rest)[n] = u[n]
    BY <1>1, <1>2, <2>1, <2>2
  <2>. QED  BY <2>1, <2>3, SeqEqual
<1>7. Len(w) <= Len(t)
  BY <1>1, <1>2, <1>3
<1>8. Exchange(t, w, o) = u
  BY <1>5, <1>6 DEF Exchange, back
<1>. QED  BY <1>3, <1>4, <1>7, <1>8 DEF IsPrefix

\* The cases of Rebase, for canonical URLs.
SameSite(u, o) == u.scheme = o.scheme /\ u.host = o.host /\ u.port = o.port

OnSite(u, site, path) ==
  [u EXCEPT !.scheme = site.scheme, !.host = site.host, !.port = site.port,
            !.path = path]

LEMMA RebaseCases ==
  ASSUME NEW u, NEW o, NEW w
  PROVE  LET r == RebaseCanonical(u, o, w)
         IN  /\ ~SameSite(u, o) => r = NoBase
             /\ SameSite(u, o) /\ ~EndsInSlash(o.path) =>
                  r = IF u.path = o.path THEN Moved(OnSite(u, w, w.path)) ELSE NoBase
             /\ SameSite(u, o) /\ EndsInSlash(o.path) =>
                  r = IF ~IsPrefix(o.path, u.path) THEN NoBase
                      ELSE IF ~EndsInSlash(w.path) THEN BadBase
                      ELSE Moved(OnSite(u, w, Exchange(u.path, o.path, w.path)))
<1>1. SameSite(u, o) <=> <<u.scheme, u.host, u.port>> = <<o.scheme, o.host, o.port>>
  BY DEF SameSite
<1>. DEFINE r == RebaseCanonical(u, o, w)
            at(path) == Moved(OnSite(u, w, path))
            Same == <<u.scheme, u.host, u.port>> = <<o.scheme, o.host, o.port>>
<1>2. ~Same => r = NoBase
  BY DEF RebaseCanonical
<1>3. Same /\ ~EndsInSlash(o.path) =>
        r = IF u.path = o.path THEN at(w.path) ELSE NoBase
  BY DEF RebaseCanonical, OnSite
<1>4. Same /\ EndsInSlash(o.path) /\ ~IsPrefix(o.path, u.path) => r = NoBase
  BY DEF RebaseCanonical
<1>5. /\ Same /\ EndsInSlash(o.path) /\ IsPrefix(o.path, u.path)
      /\ ~EndsInSlash(w.path)
      => r = BadBase
  BY DEF RebaseCanonical
<1>6. /\ Same /\ EndsInSlash(o.path) /\ IsPrefix(o.path, u.path)
      /\ EndsInSlash(w.path)
      => r = at(Exchange(u.path, o.path, w.path))
  BY DEF RebaseCanonical, OnSite, Exchange
<1>. HIDE DEF r, at, Same
<1>7. SameSite(u, o) <=> Same
  BY <1>1 DEF Same
<1>. QED  BY <1>2, <1>3, <1>4, <1>5, <1>6, <1>7, Zenon DEF r, at

LEMMA MovedIsMoved ==
  ASSUME NEW u, NEW v
  PROVE  /\ Moved(u).result = "url" /\ Moved(u).url = u
         /\ Moved(u) = Moved(v) => u = v
         /\ Moved(u) # NoBase /\ Moved(u) # BadBase /\ NoBase # BadBase
         /\ NoBase.result = "no base" /\ BadBase.result = "error"
<1>1. /\ Moved(u).result = "url" /\ Moved(u).url = u
      /\ Moved(v).url = v
      /\ NoBase.result = "no base" /\ BadBase.result = "error"
  BY DEF Moved, NoBase, BadBase
<1>. QED  BY <1>1

LEMMA OnSiteFields ==
  ASSUME NEW u, IsURL(u), NEW w, NEW path, IsSequence(path)
  PROVE  LET t == OnSite(u, w, path)
         IN  /\ IsURL(t)
             /\ t.scheme = w.scheme /\ t.host = w.host /\ t.port = w.port
             /\ t.path = path /\ t.query = u.query /\ t.fragment = u.fragment
<1>1. u = [scheme |-> u.scheme, host |-> u.host, port |-> u.port, path |-> u.path,
           query |-> u.query, fragment |-> u.fragment]
  BY DEF IsURL
<1>. DEFINE t == OnSite(u, w, path)
<1>2. t = [u EXCEPT !.scheme = w.scheme, !.host = w.host, !.port = w.port,
                    !.path = path]
  BY DEF OnSite
<1>. HIDE DEF t
<1>3. t =
        [scheme |-> w.scheme, host |-> w.host, port |-> w.port, path |-> path,
         query |-> u.query, fragment |-> u.fragment]
  BY <1>1, <1>2
<1>. QED  BY <1>3 DEF IsURL, t

\* A URL with the site and the path of a canonical one is canonical.
LEMMA OnSiteCanonical ==
  ASSUME NEW u, IsURL(u), NEW new, IsURL(new), NEW path, IsSequence(path),
         path = <<>> => Canonical(new).path = <<>>
  PROVE  LET t == OnSite(u, Canonical(new), path)
         IN  Canonical(t) = t
<1>. DEFINE w == Canonical(new)
            t == OnSite(u, w, path)
            c == Canonical(t)
            ww == Canonical(w)
<1>1. IsURL(w) /\ ww = w
  BY CanonicalFields, CanonicalTwice
<1>. HIDE DEF w
<1>2. /\ IsURL(t)
      /\ t.scheme = w.scheme /\ t.host = w.host /\ t.port = w.port
      /\ t.path = path
  BY OnSiteFields
<1>. HIDE DEF t
<1>3. /\ IsURL(c)
      /\ c.scheme = Lower(t.scheme)
      /\ c.host = Lower(t.host)
      /\ c.port = IF t.port = DefaultPort(Lower(t.scheme)) THEN "" ELSE t.port
      /\ c.path = IF t.scheme # "" /\ t.host # "" /\ t.path = <<>>
                    THEN <<"/">> ELSE t.path
      /\ c.query = t.query /\ c.fragment = t.fragment
  BY <1>2, CanonicalFields
<1>4. /\ ww.scheme = Lower(w.scheme)
      /\ ww.host = Lower(w.host)
      /\ ww.port = IF w.port = DefaultPort(Lower(w.scheme)) THEN "" ELSE w.port
      /\ ww.path = IF w.scheme # "" /\ w.host # "" /\ w.path = <<>>
                    THEN <<"/">> ELSE w.path
  BY <1>1, CanonicalFields
<1>. HIDE DEF c, ww
<1>5. c.scheme = t.scheme /\ c.host = t.host /\ c.port = t.port
  BY <1>1, <1>2, <1>3, <1>4
<1>6. c.path = t.path
  <2>1. CASE path = <<>>
    <3>1. w.path = <<>>
      BY <2>1 DEF w
    <3>2. ~(w.scheme # "" /\ w.host # "")
      <4>1. <<"/">> # <<>>
        OBVIOUS
      <4>. QED  BY <1>1, <1>4, <3>1, <4>1
    <3>. QED  BY <1>2, <1>3, <3>2
  <2>2. CASE path # <<>>
    BY <1>2, <1>3, <2>2
  <2>. QED  BY <2>1, <2>2
<1>7. c = t
  BY <1>2, <1>3, <1>5, <1>6 DEF IsURL
<1>. QED  BY <1>7 DEF c, t, w

\* What Rebase moves to another base, it moves back, unless the new base is a
\* directory and the old one is not: that it refuses.
LEMMA RebaseBack ==
  ASSUME NEW link, IsURL(link), NEW old, IsURL(old),
         NEW new, IsURL(new), IsAbs(new),
         NEW to, Rebase(link, old, new) = Moved(to)
  PROVE  LET o == Canonical(old)
             w == Canonical(new)
         IN  Rebase(to, w, o) = IF EndsInSlash(w.path) /\ ~EndsInSlash(o.path)
                                  THEN BadBase ELSE Moved(Canonical(link))
<1>. DEFINE u == Canonical(link)
            o == Canonical(old)
            w == Canonical(new)
            path == IF EndsInSlash(o.path)
                      THEN Exchange(u.path, o.path, w.path)
                      ELSE w.path
<1>1. /\ IsURL(u) /\ IsURL(o) /\ IsURL(w)
      /\ Canonical(u) = u /\ Canonical(o) = o /\ Canonical(w) = w
      /\ IsAbs(w)
  BY CanonicalFields, CanonicalTwice
<1>2. Rebase(link, old, new) = RebaseCanonical(u, o, w)
  BY MovedIsMoved DEF Rebase
<1>3. PICK Z : u.path \in Seq(Z) /\ o.path \in Seq(Z) /\ w.path \in Seq(Z)
  <2>1. PICK A : u.path \in Seq(A) /\ o.path \in Seq(A)
    BY <1>1, CommonSet DEF IsURL
  <2>. DEFINE B == {w.path[n] : n \in DOMAIN w.path}
  <2>2. w.path \in Seq(B)
    BY <1>1 DEF IsURL, IsSequence
  <2>. HIDE DEF B, u, o, w
  <2>3. u.path \in Seq(A \cup B) /\ o.path \in Seq(A \cup B) /\ w.path \in Seq(A \cup B)
    BY <2>1, <2>2
  <2>. QED  BY <2>3
<1>. HIDE DEF u, o, w
<1>4. /\ SameSite(u, o)
      /\ EndsInSlash(o.path) => IsPrefix(o.path, u.path) /\ EndsInSlash(w.path)
      /\ ~EndsInSlash(o.path) => u.path = o.path
      /\ to = OnSite(u, w, path)
  <2>1. RebaseCanonical(u, o, w) = Moved(to)
    BY <1>2
  <2>2. SameSite(u, o)
    <3>1. ~SameSite(u, o) => RebaseCanonical(u, o, w) = NoBase
      BY RebaseCases
    <3>2. Moved(to) # NoBase
      BY MovedIsMoved
    <3>. QED  BY <2>1, <3>1, <3>2
  <2>3. CASE EndsInSlash(o.path)
    <3>1. IsPrefix(o.path, u.path)
      BY <2>1, <2>2, <2>3, RebaseCases, MovedIsMoved, ZenonT(30)
    <3>2. EndsInSlash(w.path)
      BY <2>1, <2>2, <2>3, <3>1, RebaseCases, MovedIsMoved
    <3>3. Moved(to) = Moved(OnSite(u, w, path))
      BY <2>1, <2>2, <2>3, <3>1, <3>2, RebaseCases
    <3>. QED  BY <2>2, <2>3, <3>1, <3>2, <3>3, MovedIsMoved
  <2>4. CASE ~EndsInSlash(o.path)
    <3>1. u.path = o.path
      <4>1. u.path # o.path => RebaseCanonical(u, o, w) = NoBase
        BY <2>2, <2>4, RebaseCases, SMTT(30)
      <4>2. Moved(to) # NoBase
        BY MovedIsMoved
      <4>. QED  BY <2>1, <4>1, <4>2
    <3>2. Moved(to) = Moved(OnSite(u, w, path))
      BY <2>1, <2>2, <2>4, <3>1, RebaseCases
    <3>. QED  BY <2>2, <2>4, <3>1, <3>2, MovedIsMoved
  <2>. QED  BY <2>3, <2>4
<1>5. /\ path \in Seq(Z)
      /\ EndsInSlash(o.path) =>
           /\ IsPrefix(w.path, path)
           /\ Exchange(path, w.path, o.path) = u.path
  <2>1. CASE EndsInSlash(o.path)
    <3>1. path = Exchange(u.path, o.path, w.path) /\ IsPrefix(o.path, u.path)
      BY <1>4, <2>1
    <3>. HIDE DEF path
    <3>2. /\ path \in Seq(Z)
          /\ IsPrefix(w.path, path)
          /\ Exchange(path, w.path, o.path) = u.path
      <4>1. \A a, b, c \in Seq(Z) : IsPrefix(a, c) =>
              /\ Exchange(c, a, b) \in Seq(Z)
              /\ IsPrefix(b, Exchange(c, a, b))
              /\ Exchange(Exchange(c, a, b), b, a) = c
        BY PathBack
      <4>. QED  BY <1>3, <3>1, <4>1
    <3>. QED  BY <3>2
  <2>2. CASE ~EndsInSlash(o.path)
    BY <1>3, <2>2
  <2>. QED  BY <2>1, <2>2
<1>6. path = <<>> => w.path = <<>>
  <2>. SUFFICES ASSUME EndsInSlash(o.path), path = <<>> PROVE w.path = <<>>
    OBVIOUS
  <2>1. /\ w.path \in Seq(Z)
        /\ Len(w.path) <= 0
    BY <1>3, <1>5 DEF IsPrefix
  <2>. QED  BY <2>1, EmptySeq, LenProperties
<1>7. IsSequence(path)
  <2>. HIDE DEF path
  <2>1. path \in Seq({path[n] : n \in DOMAIN path})
    BY <1>5
  <2>. QED  BY <2>1 DEF IsSequence
<1>. HIDE DEF path
<1>8. /\ IsURL(to) /\ SameSite(to, w) /\ to.path = path
      /\ to.query = u.query /\ to.fragment = u.fragment
      /\ Canonical(to) = to
  <2>1. Canonical(OnSite(u, w, path)) = OnSite(u, w, path)
    BY <1>1, <1>6, <1>7, OnSiteCanonical DEF w
  <2>. QED  BY <1>1, <1>4, <1>7, <2>1, OnSiteFields DEF SameSite
<1>9. Rebase(to, w, o) = RebaseCanonical(to, w, o)
  BY <1>1, <1>8 DEF Rebase, IsAbs, SameSite
<1>10. OnSite(to, o, u.path) = u
  <2>. DEFINE b == OnSite(to, o, u.path)
  <2>1. /\ IsURL(b)
        /\ b.scheme = o.scheme /\ b.host = o.host /\ b.port = o.port
        /\ b.path = u.path /\ b.query = to.query /\ b.fragment = to.fragment
    BY <1>1, <1>8, OnSiteFields DEF IsURL
  <2>. HIDE DEF b
  <2>2. b = u
    BY <1>1, <1>4, <1>8, <2>1 DEF IsURL, SameSite
  <2>. QED  BY <2>2 DEF b
<1>11. CASE EndsInSlash(o.path)
  <2>1. IsPrefix(w.path, to.path) /\ EndsInSlash(w.path)
    BY <1>4, <1>5, <1>8, <1>11
  <2>2. Exchange(to.path, w.path, o.path) = u.path
    BY <1>5, <1>8, <1>11
  <2>3. RebaseCanonical(to, w, o) = Moved(OnSite(to, o, u.path))
    <3>1. RebaseCanonical(to, w, o) =
            Moved(OnSite(to, o, Exchange(to.path, w.path, o.path)))
      BY <1>8, <1>11, <2>1, RebaseCases
    <3>. QED  BY <2>2, <3>1
  <2>. QED  BY <1>9, <1>10, <1>11, <2>3 DEF u, o, w
<1>12. CASE ~EndsInSlash(o.path)
  <2>1. to.path = w.path /\ o.path = u.path
    BY <1>4, <1>8, <1>12 DEF path
  <2>2. CASE EndsInSlash(w.path)
    <3>1. IsPrefix(w.path, to.path)
      BY <2>1, <1>3 DEF IsPrefix
    <3>2. RebaseCanonical(to, w, o) = BadBase
      BY <1>8, <1>12, <2>2, <3>1, RebaseCases
    <3>. QED  BY <1>9, <1>12, <2>2, <3>2 DEF o, w
  <2>3. CASE ~EndsInSlash(w.path)
    <3>1. RebaseCanonical(to, w, o) = Moved(OnSite(to, o, o.path))
      BY <1>8, <2>1, <2>3, RebaseCases
    <3>. QED  BY <1>9, <1>10, <2>1, <2>3, <3>1 DEF u, o, w
  <2>. QED  BY <2>2, <2>3
<1>. QED  BY <1>11, <1>12

-----------------------------------------------------------------------------
(* The invariant.  It holds whichever command runs: of the others' runs,   *)
(* that the variables of files are idle.                                   *)

Path(k) == F!OutputPath(entries[k])

FilesType ==
  /\ entries \in Repositories /\ mappings \in Mappings
  /\ e \in Nat \ {0} /\ chunk \in Nat \ {0} /\ runs \in Nat \ {0}
  /\ filespc \in {"start", "next", "copy", "ok", "error", "killed"}
  /\ files = [p \in DOMAIN files |-> files[p]]
  /\ times = [p \in DOMAIN files |-> times[p]]
  /\ \A p \in DOMAIN files : IsSequence(files[p])

\* Cell n of a file is chunk n of the body of its entry, rewritten.
IsCopy(cell, n) ==
  /\ cell.entry \in DOMAIN entries
  /\ n \in DOMAIN entries[cell.entry].body
  /\ LET d == entries[cell.entry]
         new == F!NewChunk(d.body[n], d)
     IN  new.result = "url" /\ new.url = cell.holds

CellsInv ==
  \A p \in DOMAIN files : \A n \in DOMAIN files[p] : IsCopy(files[p][n], n)

\* While a run writes, all there is is its own: it found no directory.
RunInv ==
  /\ \A p, r \in DOMAIN files : \A m \in DOMAIN files[p], n \in DOMAIN files[r] :
       files[p][m].run = files[r][n].run
  /\ OutDir \notin dirs => DOMAIN files = {}
  /\ filespc \in {"next", "copy"} =>
       /\ OutDir \in dirs
       /\ \A p \in DOMAIN files : \A n \in DOMAIN files[p] : files[p][n].run = runs

\* The file that is being written has no gap before the next chunk.
CopyInv ==
  filespc = "copy" =>
    /\ e \in DOMAIN entries /\ F!HasFile(e)
    /\ Path(e) \in DOMAIN files
    /\ chunk <= Len(files[Path(e)]) + 1
    /\ chunk <= Len(entries[e].body) + 1

\* Every file is that of a document; in the first run, of one that has had
\* its turn.
OwnersInv ==
  \A p \in DOMAIN files :
    \E k \in DOMAIN entries :
      /\ F!HasFile(k) /\ Path(k) = p
      /\ runs = 1 => k < e \/ (k = e /\ filespc # "next")

Written(k) ==
  /\ Path(k) \in DOMAIN files
  /\ Len(files[Path(k)]) = Len(entries[k].body)
  /\ \A n \in DOMAIN files[Path(k)] : files[Path(k)][n].entry = k
  /\ times[Path(k)] = k

\* The first run: what has been written, and what is being written.
FirstRunInv ==
  runs = 1 =>
    /\ filespc = "start" => OutDir \notin dirs /\ e = 1
    /\ filespc \in {"ok", "error"} /\ OutDir \in dirs => e > Len(entries)
    /\ filespc \in {"next", "copy", "ok", "error"} =>
         \A k \in DOMAIN entries \ skipped :
           k < e /\ F!HasFile(k) /\ F!Uncontested(k) => Written(k)
    /\ filespc = "copy" /\ F!Uncontested(e) =>
         /\ Len(files[Path(e)]) = chunk - 1
         /\ \A n \in DOMAIN files[Path(e)] : files[Path(e)][n].entry = e

FInv ==
  /\ FilesType /\ CellsInv /\ RunInv /\ CopyInv /\ OwnersInv /\ FirstRunInv

FilesInv == IF command = "files" THEN FInv ELSE FilesIdle

LEMMA EntriesFacts ==
  ASSUME FilesType
  PROVE  /\ Len(entries) \in Nat /\ DOMAIN entries = 1 .. Len(entries)
         /\ \A k \in DOMAIN entries :
              /\ Len(entries[k].body) \in Nat
              /\ DOMAIN entries[k].body = 1 .. Len(entries[k].body)
<1>1. IsSequence(entries) /\ \A k \in DOMAIN entries : IsSequence(entries[k].body)
  BY FilesAssumption DEF FilesType
<1>. QED  BY <1>1, SequenceFacts

\* The output directory is none of those above it.
LEMMA OutDirIsNew == OutDir \notin F!Prefixes(F!Front(OutDir))
<1>1. Len(OutDir) \in Nat \ {0} /\ DOMAIN OutDir = 1 .. Len(OutDir)
  <2>1. IsSequence(OutDir) /\ OutDir # <<>>
    BY FilesAssumption
  <2>. QED  BY <2>1 DEF IsSequence
<1>2. PICK R : OutDir \in Seq(R)
  BY FilesAssumption DEF IsSequence
<1>3. F!Front(OutDir) \in Seq(R) /\ Len(F!Front(OutDir)) = Len(OutDir) - 1
  BY <1>1, <1>2 DEF F!Front
<1>4. ASSUME NEW n \in 0 .. Len(F!Front(OutDir))
      PROVE  SubSeq(F!Front(OutDir), 1, n) # OutDir
  <2>1. PICK m : m = SubSeq(F!Front(OutDir), 1, n)
    OBVIOUS
  <2>2. Len(m) = n
    BY <1>3, <2>1
  <2>3. PICK h : h = Len(F!Front(OutDir))
    OBVIOUS
  <2>4. PICK k : k = Len(OutDir)
    OBVIOUS
  <2>5. k \in Nat /\ h = k - 1 /\ n \in 0 .. h
    <3>1. k \in Nat /\ h = k - 1
      BY <1>1, <1>3, <2>3, <2>4
    <3>2. n \in 0 .. h
      BY <2>3
    <3>. QED  BY <3>1, <3>2
  <2>6. n # k
    BY ONLY <2>5
  <2>. QED  BY <2>1, <2>2, <2>4, <2>6
<1>. QED  BY <1>4 DEF F!Prefixes

LEMMA FilesInit == F!Init => FInv
<1>. SUFFICES ASSUME F!Init PROVE FInv
  OBVIOUS
<1>1. DOMAIN files = {} /\ DOMAIN times = {}
  BY DEF F!Init
<1>2. files = [p \in {} |-> files[p]] /\ times = [p \in {} |-> times[p]]
  BY DEF F!Init
<1>3. FilesType
  BY <1>1, <1>2 DEF FilesType, F!Init
<1>4. CellsInv /\ RunInv /\ CopyInv /\ OwnersInv
  BY <1>1 DEF CellsInv, RunInv, CopyInv, OwnersInv, F!Init
<1>5. FirstRunInv
  BY <1>1, <1>3, EntriesFacts, OutDirIsNew DEF FirstRunInv, F!Init
<1>. QED  BY <1>3, <1>4, <1>5 DEF FInv

LEMMA NewChunkKept ==
  ASSUME UNCHANGED mappings
  PROVE  \A c, d : F!NewChunk(c, d)' = F!NewChunk(c, d)
<1>1. \A u : F!Applicable(u)' = F!Applicable(u)
  BY DEF F!Applicable
<1>2. ASSUME NEW u PROVE F!Rewritten(u)' = F!Rewritten(u)
  <2>. DEFINE A == F!Applicable(u)
              least(T) == CHOOSE k \in T : \A j_1 \in T : k <= j_1
              to(T) == IF T = {} THEN F!Moved(u)
                       ELSE F!Rebase(u, mappings[least(T)].old, mappings[least(T)].new)
  <2>1. F!Rewritten(u) = to(A)
    BY DEF F!Rewritten
  <2>2. F!Rewritten(u)' = to(A')
    BY DEF F!Rewritten
  <2>3. A' = A
    BY <1>1
  <2>4. \A B : B = A => to(B) = to(A)
    OBVIOUS
  <2>. HIDE DEF A, to
  <2>. QED  BY <2>1, <2>2, <2>3, <2>4
<1>. QED  BY <1>2 DEF F!NewChunk

\* What depends on the files only, and on the input.
LEMMA FilesKept ==
  ASSUME FInv, UNCHANGED <<entries, mappings, files, runs>>
  PROVE  /\ CellsInv'
         /\ \A p, r \in DOMAIN files' : \A m \in DOMAIN files'[p], n \in DOMAIN files'[r] :
              files'[p][m].run = files'[r][n].run
         /\ \A k : /\ Path(k)' = Path(k) /\ F!HasFile(k)' = F!HasFile(k)
                   /\ F!Uncontested(k)' = F!Uncontested(k)
<1>1. \A k : Path(k)' = Path(k) /\ F!HasFile(k)' = F!HasFile(k)
  BY DEF Path, F!HasFile
<1>2. \A k : F!Uncontested(k)' = F!Uncontested(k)
  BY DEF F!Uncontested, F!HasFile
<1>3. CellsInv'
  BY NewChunkKept DEF FInv, CellsInv, IsCopy
<1>. QED  BY <1>1, <1>2, <1>3 DEF FInv, RunInv

\* An entry is done with and no file has changed.
LEMMA EntryPassed ==
  ASSUME FInv, UNCHANGED <<entries, mappings, files, times, chunk, runs>>,
         filespc \in {"next", "copy"}, filespc' = "next",
         e \in DOMAIN entries, e' = e + 1,
         dirs \subseteq dirs',
         \/ skipped' = skipped \cup {e}
         \/ skipped' = skipped /\ ~F!HasFile(e)
  PROVE  FInv'
<1>1. FilesType'
  BY DEF FInv, FilesType
<1>2. /\ CellsInv'
      /\ \A p, r \in DOMAIN files' : \A m \in DOMAIN files'[p], n \in DOMAIN files'[r] :
           files'[p][m].run = files'[r][n].run
      /\ \A k : /\ Path(k)' = Path(k) /\ F!HasFile(k)' = F!HasFile(k)
                /\ F!Uncontested(k)' = F!Uncontested(k)
  BY FilesKept
<1>3. RunInv'
  BY <1>2 DEF FInv, RunInv
<1>4. CopyInv'
  BY DEF CopyInv
<1>5. e \in Nat
  BY DEF FInv, FilesType
<1>6. \A k \in DOMAIN entries : k \in Nat
  BY EntriesFacts DEF FInv
<1>7. OwnersInv'
  <2>. SUFFICES ASSUME NEW p \in DOMAIN files
                PROVE  \E k \in DOMAIN entries :
                         /\ F!HasFile(k) /\ Path(k) = p
                         /\ runs = 1 => k < e + 1
    BY <1>2 DEF OwnersInv
  <2>1. PICK k \in DOMAIN entries :
          /\ F!HasFile(k) /\ Path(k) = p
          /\ runs = 1 => k < e \/ (k = e /\ filespc # "next")
    BY DEF FInv, OwnersInv
  <2>. QED  BY <1>5, <1>6, <2>1
<1>8. FirstRunInv'
  <2>. SUFFICES ASSUME runs = 1, NEW k \in DOMAIN entries, k \notin skipped',
                       k < e + 1, F!HasFile(k), F!Uncontested(k)
                PROVE  Written(k)'
    BY <1>2 DEF FirstRunInv
  <2>1. k \notin skipped /\ k < e
    BY <1>5, <1>6
  <2>2. Written(k)
    BY <2>1 DEF FInv, FirstRunInv
  <2>. QED  BY <1>2, <2>2 DEF Written
<1>. QED  BY <1>1, <1>3, <1>2, <1>4, <1>7, <1>8 DEF FInv

LEMMA BeginStep == ASSUME FInv, F!Begin PROVE FInv'
<1>1. FilesType'
  BY DEF FInv, FilesType, F!Begin, F!inputVars
<1>2. /\ CellsInv'
      /\ \A p, r \in DOMAIN files' : \A m \in DOMAIN files'[p], n \in DOMAIN files'[r] :
           files'[p][m].run = files'[r][n].run
      /\ \A k : /\ Path(k)' = Path(k) /\ F!HasFile(k)' = F!HasFile(k)
                /\ F!Uncontested(k)' = F!Uncontested(k)
  BY FilesKept DEF F!Begin, F!inputVars
<1>3. RunInv'
  BY <1>2 DEF FInv, RunInv, F!Begin
<1>4. CopyInv'
  BY DEF CopyInv, F!Begin
<1>5. runs = 1 => DOMAIN files = {} /\ e = 1 /\ OutDir \notin dirs
  BY DEF FInv, FirstRunInv, RunInv, F!Begin
<1>6. OwnersInv'
  <2>1. CASE runs = 1
    BY <1>5, <2>1 DEF OwnersInv, F!Begin
  <2>2. CASE runs # 1
    BY <1>2, <2>2 DEF FInv, OwnersInv, F!Begin, F!inputVars
  <2>. QED  BY <2>1, <2>2
<1>7. FirstRunInv'
  <2>. SUFFICES ASSUME runs = 1 PROVE FirstRunInv'
    BY DEF FirstRunInv, F!Begin
  <2>1. \A k \in DOMAIN entries : ~(k < e)
    BY <1>5, EntriesFacts DEF FInv
  <2>. QED  BY <1>5, <2>1 DEF FirstRunInv, F!Begin, F!inputVars
<1>. QED  BY <1>1, <1>2, <1>3, <1>4, <1>6, <1>7 DEF FInv

LEMMA PassingSteps ==
  ASSUME FInv, F!NoFile \/ F!CannotOpenEntry
  PROVE  FInv'
<1>1. e \in DOMAIN entries
  BY EntriesFacts DEF FInv, FilesType, F!NoFile, F!CannotOpenEntry
<1>. QED
  BY <1>1, EntryPassed
     DEF F!NoFile, F!CannotOpenEntry, F!Skip, F!Pass, F!inputVars, F!treeVars, F!HasFile

LEMMA EndSteps == ASSUME FInv, F!End \/ F!Kill PROVE FInv'
<1>1. UNCHANGED <<entries, mappings, files, times, dirs, chunk, runs, e, skipped>>
  BY DEF F!End, F!Kill, F!inputVars, F!treeVars
<1>2. /\ filespc \in {"next", "copy"} /\ filespc' \in {"ok", "error", "killed"}
      /\ filespc' \in {"ok", "error"} => filespc = "next" /\ e > Len(entries)
  BY DEF F!End, F!Kill
<1>3. FilesType'
  BY <1>1, <1>2 DEF FInv, FilesType
<1>4. /\ CellsInv'
      /\ \A p, r \in DOMAIN files' : \A m \in DOMAIN files'[p], n \in DOMAIN files'[r] :
           files'[p][m].run = files'[r][n].run
      /\ \A k : /\ Path(k)' = Path(k) /\ F!HasFile(k)' = F!HasFile(k)
                /\ F!Uncontested(k)' = F!Uncontested(k)
  BY <1>1, FilesKept
<1>5. RunInv' /\ CopyInv'
  BY <1>1, <1>2, <1>4 DEF FInv, RunInv, CopyInv
<1>6. OwnersInv'
  BY <1>1, <1>2, <1>4 DEF FInv, OwnersInv
<1>7. FirstRunInv'
  <2>1. \A k : Written(k)' = Written(k)
    BY <1>1, <1>4 DEF Written
  <2>. QED  BY <1>1, <1>2, <1>4, <2>1 DEF FInv, FirstRunInv
<1>. QED  BY <1>3, <1>4, <1>5, <1>6, <1>7 DEF FInv

LEMMA RunAgainStep == ASSUME FInv, F!RunAgain PROVE FInv'
<1>1. /\ UNCHANGED <<entries, mappings, files, times, dirs>>
      /\ runs \in Nat \ {0} /\ runs' = runs + 1 /\ runs' # 1
      /\ filespc' = "start" /\ e' = 1 /\ chunk' = 1
  BY DEF FInv, FilesType, F!RunAgain, F!inputVars, F!treeVars
<1>2. FilesType'
  BY <1>1 DEF FInv, FilesType
<1>3. \A k : Path(k)' = Path(k) /\ F!HasFile(k)' = F!HasFile(k)
  BY <1>1 DEF Path, F!HasFile
<1>4. CellsInv'
  BY <1>1, NewChunkKept DEF FInv, CellsInv, IsCopy
<1>5. RunInv' /\ CopyInv'
  BY <1>1 DEF FInv, RunInv, CopyInv
<1>6. OwnersInv' /\ FirstRunInv'
  BY <1>1, <1>3 DEF FInv, OwnersInv, FirstRunInv
<1>. QED  BY <1>2, <1>4, <1>5, <1>6 DEF FInv

LEMMA OpenFileStep == ASSUME FInv, F!OpenFile PROVE FInv'
<1>. DEFINE path == Path(e)
<1>1. /\ UNCHANGED <<entries, mappings, runs>>
      /\ filespc = "next" /\ e \in DOMAIN entries /\ F!HasFile(e)
  BY EntriesFacts DEF FInv, FilesType, F!OpenFile, F!inputVars, F!HasFile
<1>2. \/ /\ F!Skip /\ UNCHANGED <<chunk, files, times>>
         /\ dirs \subseteq dirs'
      \/ /\ files' = [p \in DOMAIN files \cup {path} |->
                        IF p \in DOMAIN files THEN files[p] ELSE <<>>]
         /\ times' = [p \in DOMAIN files' |->
                        IF p \in DOMAIN files THEN times[p] ELSE Nobody]
         /\ chunk' = 1 /\ filespc' = "copy"
         /\ UNCHANGED <<e, skipped>>
         /\ dirs \subseteq dirs'
  BY DEF F!OpenFile, Path
<1>3. CASE F!Skip /\ UNCHANGED <<chunk, files, times>> /\ dirs \subseteq dirs'
  BY <1>1, <1>3, EntryPassed DEF F!Skip
<1>4. CASE /\ files' = [p \in DOMAIN files \cup {path} |->
                          IF p \in DOMAIN files THEN files[p] ELSE <<>>]
           /\ times' = [p \in DOMAIN files' |->
                          IF p \in DOMAIN files THEN times[p] ELSE Nobody]
           /\ chunk' = 1 /\ filespc' = "copy"
           /\ UNCHANGED <<e, skipped>>
           /\ dirs \subseteq dirs'
  <2>1. /\ DOMAIN files' = DOMAIN files \cup {path}
        /\ \A p \in DOMAIN files : files'[p] = files[p] /\ times'[p] = times[p]
        /\ path \notin DOMAIN files => files'[path] = <<>>
        /\ files' = [p \in DOMAIN files' |-> files'[p]]
        /\ times' = [p \in DOMAIN files' |-> times'[p]]
    BY <1>4
  <2>2. /\ \A p \in DOMAIN files' \ DOMAIN files : files'[p] = <<>>
        /\ \A p \in DOMAIN files' : \A n \in DOMAIN files'[p] : p \in DOMAIN files
    BY <2>1, EmptySequence
  <2>3. \A k : /\ Path(k)' = Path(k) /\ F!HasFile(k)' = F!HasFile(k)
               /\ F!Uncontested(k)' = F!Uncontested(k)
    BY <1>1 DEF Path, F!HasFile, F!Uncontested
  <2>. HIDE DEF path
  <2>4. FilesType'
    <3>1. \A p \in DOMAIN files' : IsSequence(files'[p])
      BY <2>1, <2>2, EmptySequence DEF FInv, FilesType
    <3>2. chunk' = 1 /\ filespc' = "copy" /\ e' = e
      BY <1>4
    <3>3. /\ files' = [p \in DOMAIN files' |-> files'[p]]
          /\ times' = [p \in DOMAIN files' |-> times'[p]]
      BY <2>1
    <3>. QED  BY <1>1, <3>1, <3>2, <3>3 DEF FInv, FilesType
  <2>5. CellsInv'
    <3>1. \A p \in DOMAIN files' : \A n \in DOMAIN files'[p] :
            p \in DOMAIN files /\ n \in DOMAIN files[p] /\ files'[p][n] = files[p][n]
      BY <2>1, <2>2
    <3>2. CellsInv
      BY DEF FInv
    <3>. QED  BY <1>1, <3>1, <3>2, NewChunkKept DEF CellsInv, IsCopy
  <2>6. RunInv'
    BY <1>1, <1>4, <2>1, <2>2 DEF FInv, RunInv
  <2>7. Len(files'[path]) \in Nat /\ Len(entries[e].body) \in Nat
    BY <1>1, <2>1, <2>4, EntriesFacts, SequenceFacts DEF FilesType, FInv
  <2>8. path = Path(e)' /\ path = Path(e)
    BY <1>1, <1>4 DEF path, Path
  <2>9. CopyInv'
    BY <1>1, <1>4, <2>1, <2>3, <2>7, <2>8 DEF CopyInv
  <2>10. OwnersInv'
    <3>. SUFFICES ASSUME NEW p \in DOMAIN files'
                  PROVE  \E k \in DOMAIN entries :
                           /\ F!HasFile(k) /\ Path(k) = p
                           /\ runs = 1 => k < e \/ k = e
      BY <1>1, <1>4, <2>3 DEF OwnersInv
    <3>1. CASE p \in DOMAIN files
      BY <3>1 DEF FInv, OwnersInv
    <3>2. CASE p \notin DOMAIN files
      BY <1>1, <2>1, <2>8, <3>2
    <3>. QED  BY <3>1, <3>2
  <2>11. FirstRunInv'
    <3>. SUFFICES ASSUME runs = 1 PROVE FirstRunInv'
      BY <1>1 DEF FirstRunInv
    <3>1. ASSUME NEW k \in DOMAIN entries \ skipped,
                 k < e, F!HasFile(k), F!Uncontested(k)
          PROVE  Written(k)'
      <4>1. Written(k)
        BY <1>1, <3>1 DEF FInv, FirstRunInv
      <4>. QED  BY <1>1, <2>1, <2>3, <4>1 DEF Written
    <3>2. ASSUME F!Uncontested(e) PROVE files'[path] = <<>>
      <4>1. ASSUME path \in DOMAIN files PROVE FALSE
        <5>1. PICK k \in DOMAIN entries :
                F!HasFile(k) /\ Path(k) = path /\ k < e
          BY <1>1, <4>1 DEF FInv, OwnersInv
        <5>2. e \in Nat /\ k \in Nat
          BY <1>1, EntriesFacts DEF FInv
        <5>. QED  BY <2>8, <3>2, <5>1, <5>2 DEF F!Uncontested, Path
      <4>. QED  BY <2>1, <4>1
    <3>. QED
      BY <1>1, <1>4, <2>3, <2>8, <3>1, <3>2, EmptySequence DEF FirstRunInv
  <2>. QED  BY <2>4, <2>5, <2>6, <2>9, <2>10, <2>11 DEF FInv
<1>. QED  BY <1>2, <1>3, <1>4

LEMMA FinishFileStep == ASSUME FInv, F!FinishFile PROVE FInv'
<1>1. /\ UNCHANGED <<entries, mappings, runs, chunk, files, dirs>>
      /\ filespc = "copy" /\ chunk > Len(entries[e].body)
      /\ e \in DOMAIN entries /\ F!HasFile(e) /\ Path(e) \in DOMAIN files
  BY DEF FInv, CopyInv, F!FinishFile, F!inputVars
<1>2. CASE F!Skip /\ UNCHANGED times
  BY <1>1, <1>2, EntryPassed DEF F!Skip
<1>3. CASE F!Pass /\ times' = [times EXCEPT ![Path(e)] = e]
  <2>1. /\ times = [p \in DOMAIN files |-> times[p]]
        /\ e \in Nat \ {0}
    BY DEF FInv, FilesType
  <2>2. /\ times' = [p \in DOMAIN files |-> times'[p]]
        /\ times'[Path(e)] = e
        /\ \A p \in DOMAIN files : p # Path(e) => times'[p] = times[p]
    BY <1>1, <1>3, <2>1
  <2>3. filespc' = "next" /\ e' = e + 1 /\ skipped' = skipped
    BY <1>3 DEF F!Pass
  <2>4. FilesType'
    BY <1>1, <2>1, <2>2, <2>3 DEF FInv, FilesType
  <2>5. /\ CellsInv'
        /\ \A p, r \in DOMAIN files' : \A m \in DOMAIN files'[p], n \in DOMAIN files'[r] :
             files'[p][m].run = files'[r][n].run
        /\ \A k : /\ Path(k)' = Path(k) /\ F!HasFile(k)' = F!HasFile(k)
                  /\ F!Uncontested(k)' = F!Uncontested(k)
    BY <1>1, FilesKept
  <2>6. RunInv' /\ CopyInv'
    BY <1>1, <2>3, <2>5 DEF FInv, RunInv, CopyInv
  <2>7. \A k \in DOMAIN entries : k \in Nat
    BY EntriesFacts DEF FInv
  <2>8. OwnersInv'
    <3>. SUFFICES ASSUME NEW p \in DOMAIN files
                  PROVE  \E k \in DOMAIN entries :
                           F!HasFile(k) /\ Path(k) = p /\ (runs = 1 => k < e + 1)
      BY <1>1, <2>3, <2>5 DEF OwnersInv
    <3>1. PICK k \in DOMAIN entries :
            F!HasFile(k) /\ Path(k) = p /\ (runs = 1 => k < e \/ k = e)
      BY DEF FInv, OwnersInv
    <3>. QED  BY <2>1, <2>7, <3>1
  <2>9. FirstRunInv'
    <3>. SUFFICES ASSUME runs = 1, NEW k \in DOMAIN entries \ skipped,
                         k < e + 1, F!HasFile(k), F!Uncontested(k)
                  PROVE  Written(k)'
      BY <1>1, <2>3, <2>5 DEF FirstRunInv
    <3>1. CASE k = e
      <4>1. /\ Len(files[Path(e)]) = chunk - 1
            /\ \A n \in DOMAIN files[Path(e)] : files[Path(e)][n].entry = e
            /\ chunk <= Len(entries[e].body) + 1
        BY <1>1, <3>1 DEF FInv, FirstRunInv, CopyInv
      <4>2. Len(entries[e].body) \in Nat /\ chunk \in Nat
        BY <1>1, EntriesFacts DEF FInv, FilesType
      <4>. QED  BY <1>1, <2>2, <2>5, <3>1, <4>1, <4>2 DEF Written
    <3>2. CASE k # e
      <4>1. k < e
        BY <2>1, <2>7, <3>2
      <4>2. Written(k)
        BY <1>1, <4>1 DEF FInv, FirstRunInv
      <4>3. Path(k) # Path(e)
        BY <1>1, <3>2 DEF F!Uncontested, Path
      <4>. QED  BY <1>1, <2>2, <2>5, <4>2, <4>3 DEF Written
    <3>. QED  BY <3>1, <3>2
  <2>. QED  BY <2>4, <2>5, <2>6, <2>8, <2>9 DEF FInv
<1>. QED  BY <1>2, <1>3 DEF F!FinishFile, Path

LEMMA CopyChunkStep == ASSUME FInv, F!CopyChunk PROVE FInv'
<1>. DEFINE path == Path(e)
            d == entries[e]
            new == F!NewChunk(d.body[chunk], d)
            cell == [entry |-> e, run |-> runs, holds |-> new.url]
            len == IF chunk > Len(files[path]) THEN chunk ELSE Len(files[path])
            text == [n \in 1 .. len |-> IF n = chunk THEN cell ELSE files[path][n]]
<1>1. /\ UNCHANGED <<entries, mappings, dirs, times, runs>>
      /\ filespc = "copy" /\ chunk <= Len(entries[e].body)
      /\ e \in DOMAIN entries /\ F!HasFile(e) /\ path \in DOMAIN files
      /\ chunk <= Len(files[path]) + 1
  BY DEF FInv, CopyInv, F!CopyChunk, F!inputVars
<1>2. CASE F!Skip /\ UNCHANGED <<chunk, files>>
  BY <1>1, <1>2, EntryPassed DEF F!Skip
<1>3. CASE /\ new.result = "url"
           /\ files' = [files EXCEPT ![path] = text]
           /\ chunk' = chunk + 1
           /\ UNCHANGED <<e, skipped, filespc>>
  <2>1. /\ chunk \in Nat \ {0} /\ runs \in Nat \ {0}
        /\ files = [p \in DOMAIN files |-> files[p]]
        /\ Len(files[path]) \in Nat
        /\ DOMAIN files[path] = 1 .. Len(files[path])
        /\ Len(entries[e].body) \in Nat
        /\ chunk \in DOMAIN entries[e].body
    BY <1>1, SequenceFacts, EntriesFacts DEF FInv, FilesType
  <2>2. /\ DOMAIN files' = DOMAIN files
        /\ files' = [p \in DOMAIN files' |-> files'[p]]
        /\ files'[path] = text
        /\ \A p \in DOMAIN files : p # path => files'[p] = files[p]
    BY <1>1, <1>3, <2>1
  <2>3. len \in Nat /\ len >= chunk /\ len >= Len(files[path])
        /\ \A n \in 1 .. len : n # chunk => n \in DOMAIN files[path]
    BY <1>1, <2>1
  <2>4. IsSequence(text) /\ Len(text) = len /\ DOMAIN text = 1 .. len
    <3>. HIDE DEF len, cell, path
    <3>1. text = [n \in 1 .. len |-> text[n]]
      OBVIOUS
    <3>. HIDE DEF text
    <3>. QED  BY <2>3, <3>1, FunctionSequence
  <2>5. /\ text[chunk] = cell
        /\ \A n \in DOMAIN text : n # chunk =>
             n \in DOMAIN files[path] /\ text[n] = files[path][n]
    <3>. HIDE DEF len, cell, path
    <3>. QED  BY <2>1, <2>3
  <2>6. cell.entry = e /\ cell.run = runs /\ cell.holds = new.url
    OBVIOUS
  <2>7. \A k : /\ Path(k)' = Path(k) /\ F!HasFile(k)' = F!HasFile(k)
               /\ F!Uncontested(k)' = F!Uncontested(k)
    BY <1>1 DEF Path, F!HasFile, F!Uncontested
  <2>8. path = Path(e)' /\ new.result = "url"
    BY <1>1, <1>3 DEF Path
  <2>9. Len(text) = len /\ (chunk > Len(files[path]) => len = chunk)
    BY <2>4
  <2>. HIDE DEF text, len, cell, path
  <2>10. FilesType'
    <3>1. \A p \in DOMAIN files' : IsSequence(files'[p])
      BY <2>2, <2>4 DEF FInv, FilesType
    <3>2. chunk' \in Nat \ {0} /\ e' = e /\ filespc' = filespc
      BY <1>3, <2>1
    <3>. QED  BY <1>1, <2>2, <3>1, <3>2 DEF FInv, FilesType
  <2>11. \A p \in DOMAIN files' : \A n \in DOMAIN files'[p] :
           \/ p = path /\ n = chunk /\ files'[p][n] = cell
           \/ /\ p \in DOMAIN files /\ n \in DOMAIN files[p]
              /\ files'[p][n] = files[p][n]
    BY <2>2, <2>5
  <2>12. CellsInv'
    <3>1. IsCopy(cell, chunk)
      BY <1>1, <2>1, <2>6, <2>8 DEF IsCopy
    <3>2. \A p \in DOMAIN files' : \A n \in DOMAIN files'[p] : IsCopy(files'[p][n], n)
      BY <2>11, <3>1 DEF FInv, CellsInv
    <3>. QED  BY <1>1, <3>2, NewChunkKept DEF CellsInv, IsCopy
  <2>13. RunInv'
    <3>1. /\ OutDir \in dirs
          /\ \A p \in DOMAIN files : \A n \in DOMAIN files[p] : files[p][n].run = runs
      BY <1>1 DEF FInv, RunInv
    <3>2. \A p \in DOMAIN files' : \A n \in DOMAIN files'[p] : files'[p][n].run = runs
      BY <2>6, <2>11, <3>1
    <3>. QED  BY <1>1, <3>1, <3>2 DEF RunInv
  <2>14. CopyInv'
    BY <1>1, <1>3, <2>1, <2>2, <2>3, <2>7, <2>8, <2>9 DEF CopyInv
  <2>15. OwnersInv'
    BY <1>1, <1>3, <2>2, <2>7 DEF FInv, OwnersInv
  <2>16. FirstRunInv'
    <3>. SUFFICES ASSUME runs = 1 PROVE FirstRunInv'
      BY <1>1 DEF FirstRunInv
    <3>1. ASSUME NEW k \in DOMAIN entries \ skipped,
                 k < e, F!HasFile(k), F!Uncontested(k)
          PROVE  Written(k)'
      <4>1. Written(k)
        BY <1>1, <3>1 DEF FInv, FirstRunInv
      <4>2. k # e
        BY <1>1, <3>1, EntriesFacts DEF FInv
      <4>3. Path(k) # path
        BY <1>1, <3>1, <4>2 DEF F!Uncontested, Path, path
      <4>. QED  BY <1>1, <2>2, <2>7, <4>1, <4>3 DEF Written
    <3>2. ASSUME F!Uncontested(e)
          PROVE  /\ Len(files'[path]) = chunk' - 1
                 /\ \A n \in DOMAIN files'[path] : files'[path][n].entry = e
      <4>1. /\ Len(files[path]) = chunk - 1
            /\ \A n \in DOMAIN files[path] : files[path][n].entry = e
        BY <1>1, <3>2 DEF FInv, FirstRunInv, path
      <4>2. len = chunk
        BY <2>1, <2>9, <4>1
      <4>3. Len(files'[path]) = chunk' - 1
        BY <1>3, <2>1, <2>2, <2>4, <4>2
      <4>. QED  BY <2>2, <2>5, <2>6, <4>1, <4>3
    <3>. QED  BY <1>1, <1>3, <2>7, <2>8, <3>1, <3>2 DEF FirstRunInv
  <2>. QED  BY <2>10, <2>12, <2>13, <2>14, <2>15, <2>16 DEF FInv
<1>. QED  BY <1>2, <1>3 DEF F!CopyChunk, Path

LEMMA FilesStep == ASSUME FInv, F!Next PROVE FInv'
BY BeginStep, PassingSteps, OpenFileStep, CopyChunkStep, FinishFileStep, EndSteps,
   RunAgainStep
   DEF F!Next

LEMMA FilesInvInit == Init => FilesInv
BY FilesInit DEF Init, FilesInv, FilesIdle

LEMMA FilesInvStep == FilesInv /\ [Next]_vars => FilesInv'
<1>1. CASE command = "files" /\ F!Next /\ UNCHANGED command
  BY <1>1, FilesStep DEF FilesInv
<1>2. CASE UNCHANGED <<command, filesVars>>
  <2>1. UNCHANGED <<command, entries, mappings, e, chunk, dirs, files, times,
                    skipped, filespc, runs>>
    BY <1>2 DEF filesVars
  <2>2. CASE command = "files"
    <3>. SUFFICES ASSUME FInv PROVE FInv'
      BY <2>1, <2>2 DEF FilesInv
    <3>1. \A k : /\ Path(k)' = Path(k) /\ F!HasFile(k)' = F!HasFile(k)
                 /\ F!Uncontested(k)' = F!Uncontested(k)
      BY <2>1, FilesKept
    <3>2. FilesType' /\ CellsInv'
      BY <2>1, FilesKept DEF FInv, FilesType
    <3>3. RunInv' /\ CopyInv' /\ OwnersInv'
      BY <2>1, <3>1 DEF FInv, RunInv, CopyInv, OwnersInv
    <3>4. FirstRunInv'
      <4>1. \A k : Written(k)' = Written(k)
        BY <2>1, <3>1 DEF Written
      <4>. QED  BY <2>1, <3>1, <4>1 DEF FInv, FirstRunInv
    <3>. QED  BY <3>2, <3>3, <3>4 DEF FInv
  <2>3. CASE command # "files"
    BY <2>1, <2>3 DEF FilesInv, FilesIdle
  <2>. QED  BY <2>2, <2>3
<1>. QED  BY <1>1, <1>2 DEF Next, vars

LEMMA FilesInvHolds == Spec => []FilesInv
BY FilesInvInit, FilesInvStep, PTL DEF Spec

-----------------------------------------------------------------------------
(* What the properties follow from.                                        *)

\* Each set of numbers has a smallest one.
LEMMA LeastOf ==
  ASSUME NEW Z, Z \subseteq Nat, Z # {}
  PROVE  \E x \in Z : \A y \in Z : x <= y
<1>1. PICK x \in Z : \A y \in Z : ~(y < x)
  BY NatLeast
<1>. QED  BY <1>1

\* The operators on URLs are those of the module URLs.
LEMMA SameOperators ==
  /\ \A u : F!Canonical(u) = Canonical(u)
  /\ \A u, old, new : F!Rebase(u, old, new) = Rebase(u, old, new)
  /\ \A path : F!EndsInSlash(path) = EndsInSlash(path)
  /\ F!NoBase = NoBase /\ F!BadBase = BadBase
  /\ \A u : F!Moved(u) = Moved(u)
<1>1. \A u : F!Canonical(u) = Canonical(u)
  BY DEF F!Canonical, Canonical, F!Lower, Lower, F!DefaultPort, DefaultPort,
         F!IsAbs, IsAbs
<1>2. \A path : F!EndsInSlash(path) = EndsInSlash(path)
  BY DEF F!EndsInSlash, EndsInSlash, F!Last, Last
<1>3. /\ F!NoBase = NoBase /\ F!BadBase = BadBase
      /\ \A u : F!Moved(u) = Moved(u)
  BY DEF F!NoBase, NoBase, F!BadBase, BadBase, F!Moved, Moved
<1>4. \A s, t : F!IsPrefix(s, t) = IsPrefix(s, t)
  BY DEF F!IsPrefix, IsPrefix
<1>5. \A u, old, new : F!RebaseCanonical(u, old, new) = RebaseCanonical(u, old, new)
  BY <1>2, <1>3, <1>4 DEF F!RebaseCanonical, RebaseCanonical
<1>6. \A u, old, new : F!Rebase(u, old, new) = Rebase(u, old, new)
  BY <1>1, <1>3, <1>5 DEF F!Rebase, Rebase, F!IsAbs, IsAbs
<1>. QED  BY <1>1, <1>2, <1>3, <1>6

\* Rebase returns a URL, no base, or an error.
LEMMA RebaseForms ==
  ASSUME NEW u, NEW old, NEW new
  PROVE  LET r == Rebase(u, old, new)
         IN  r = NoBase \/ r = BadBase \/ \E v : r = Moved(v)
<1>1. ASSUME NEW x, NEW o, NEW w
      PROVE  LET r == RebaseCanonical(x, o, w)
             IN  r = NoBase \/ r = BadBase \/ \E v : r = Moved(v)
  <2>. DEFINE r == RebaseCanonical(x, o, w)
              Form == r = NoBase \/ r = BadBase \/ \E v : r = Moved(v)
  <2>1. CASE ~SameSite(x, o)
    BY <2>1, RebaseCases
  <2>2. CASE SameSite(x, o) /\ ~EndsInSlash(o.path)
    <3>1. r = IF x.path = o.path THEN Moved(OnSite(x, w, w.path)) ELSE NoBase
      BY <2>2, RebaseCases
    <3>. QED  BY <3>1
  <2>3. CASE SameSite(x, o) /\ EndsInSlash(o.path)
    <3>1. r = IF ~IsPrefix(o.path, x.path) THEN NoBase
              ELSE IF ~EndsInSlash(w.path) THEN BadBase
              ELSE Moved(OnSite(x, w, Exchange(x.path, o.path, w.path)))
      BY <2>3, RebaseCases
    <3>. QED  BY <3>1
  <2>. QED  BY <2>1, <2>2, <2>3
<1>2. CASE ~IsAbs(u)
  BY <1>2 DEF Rebase
<1>3. CASE IsAbs(u)
  <2>1. Rebase(u, old, new) =
          RebaseCanonical(Canonical(u), Canonical(old), Canonical(new))
    BY <1>3 DEF Rebase
  <2>. QED  BY <1>1, <2>1
<1>. QED  BY <1>2, <1>3

\* A chunk that was copied traces back to the document's.
LEMMA CopiesTraceBack ==
  ASSUME FInv, NEW cell, NEW n, IsCopy(cell, n)
  PROVE  LET d == entries[cell.entry]
             link == d.body[n]
             to == cell.holds
             applies(k) == Rebase(link, mappings[k].old, mappings[k].new) # NoBase
         IN  IF \/ link = Plain
                \/ d.type \notin {"html", "css"}
                \/ \A k \in DOMAIN mappings : ~applies(k)
               THEN to = link
               ELSE \E k \in DOMAIN mappings :
                      LET old == Canonical(mappings[k].old)
                          new == Canonical(mappings[k].new)
                      IN  /\ applies(k) /\ \A m \in 1 .. k - 1 : ~applies(m)
                          /\ Rebase(to, new, old) =
                               IF EndsInSlash(new.path) /\ ~EndsInSlash(old.path)
                                 THEN BadBase ELSE Moved(Canonical(link))
<1>. DEFINE d == entries[cell.entry]
            link == d.body[n]
            to == cell.holds
            r(k) == Rebase(link, mappings[k].old, mappings[k].new)
            A == F!Applicable(link)
            new == F!NewChunk(link, d)
<1>1. /\ cell.entry \in DOMAIN entries /\ n \in DOMAIN d.body
      /\ new.result = "url" /\ new.url = to
  BY DEF IsCopy
<1>2. /\ link = Plain \/ IsURL(link)
      /\ IsSequence(mappings)
      /\ \A k \in DOMAIN mappings :
           IsURL(mappings[k].old) /\ IsURL(mappings[k].new) /\ IsAbs(mappings[k].new)
  BY <1>1, FilesAssumption DEF FInv, FilesType
<1>3. DOMAIN mappings = 1 .. Len(mappings) /\ Len(mappings) \in Nat
  BY <1>2, SequenceFacts
<1>4. \A k : r(k) = NoBase \/ r(k) = BadBase \/ \E v : r(k) = Moved(v)
  BY RebaseForms
<1>5. \A k : r(k).result # "no base" <=> r(k) # NoBase
  <2>. SUFFICES ASSUME NEW k PROVE r(k).result # "no base" <=> r(k) # NoBase
    OBVIOUS
  <2>. DEFINE x == r(k)
  <2>1. x = NoBase \/ x = BadBase \/ \E v : x = Moved(v)
    BY <1>4
  <2>. HIDE DEF x
  <2>2. /\ NoBase.result = "no base" /\ BadBase.result = "error" /\ NoBase # BadBase
        /\ \A v : Moved(v).result = "url" /\ Moved(v) # NoBase
    BY MovedIsMoved
  <2>3. x.result # "no base" <=> x # NoBase
    BY <2>1, <2>2, ZenonT(30)
  <2>. QED  BY <2>3 DEF x
<1>6. A = {k \in DOMAIN mappings : r(k) # NoBase}
  <2>1. A = {k \in DOMAIN mappings : r(k).result # "no base"}
    BY SameOperators DEF F!Applicable
  <2>. HIDE DEF A, r
  <2>. QED  BY <1>5, <2>1
<1>7. new = IF link = Plain \/ mappings = <<>> \/ d.type \notin {"html", "css"}
              THEN Moved(link) ELSE F!Rewritten(link)
  BY SameOperators DEF F!NewChunk
<1>8. CASE \/ link = Plain
           \/ d.type \notin {"html", "css"}
           \/ A = {}
  <2>1. new = Moved(link)
    BY <1>7, <1>8, SameOperators, Zenon DEF F!Rewritten
  <2>2. to = link
    BY <1>1, <2>1, MovedIsMoved
  <2>. HIDE DEF A, r, new, to, link, d
  <2>3. \/ link = Plain
        \/ d.type \notin {"html", "css"}
        \/ \A k \in DOMAIN mappings : ~(r(k) # NoBase)
    BY <1>6, <1>8
  <2>. QED  BY <2>2, <2>3 DEF r, to, link, d
<1>9. CASE ~(\/ link = Plain
             \/ d.type \notin {"html", "css"}
             \/ A = {})
  <2>. DEFINE k == CHOOSE i_1 \in A : \A j_1 \in A : i_1 <= j_1
  <2>1. k \in A /\ \A m \in A : k <= m
    <3>1. \E i_1 \in A : \A j_1 \in A : i_1 <= j_1
      <4>1. A \subseteq Nat
        BY <1>3, <1>6
      <4>. HIDE DEF A
      <4>. QED  BY <1>9, <4>1, LeastOf
    <3>. HIDE DEF A
    <3>. QED  BY <3>1
  <2>2. mappings # <<>>
    <3>. HIDE DEF A, k, r
    <3>1. k \in 1 .. Len(mappings)
      BY <1>3, <1>6, <2>1, SMTT(30)
    <3>. QED  BY <3>1
  <2>3. new = r(k)
    BY <1>7, <1>9, <2>2, SameOperators, Zenon DEF F!Rewritten
  <2>. HIDE DEF A, k
  <2>4. k \in DOMAIN mappings /\ r(k) # NoBase
    BY <1>6, <2>1
  <2>5. \A m \in 1 .. k - 1 : r(m) = NoBase
    <3>. SUFFICES ASSUME NEW m \in 1 .. k - 1, m \in A PROVE FALSE
      BY <1>3, <1>6, <2>4
    <3>. QED  BY <1>3, <2>1, <2>4
  <2>6. r(k) = Moved(to)
    <3>1. r(k).result = "url" /\ r(k).url = to
      BY <1>1, <2>3
    <3>2. r(k) # NoBase /\ r(k) # BadBase
      BY <3>1, MovedIsMoved
    <3>3. PICK v : r(k) = Moved(v)
      BY <1>4, <3>2
    <3>. QED  BY <3>1, <3>3, MovedIsMoved
  <2>7. IsURL(link) /\ IsURL(mappings[k].old) /\ IsURL(mappings[k].new)
        /\ IsAbs(mappings[k].new)
    BY <1>2, <1>9, <2>4
  <2>8. LET o == Canonical(mappings[k].old)
            w == Canonical(mappings[k].new)
        IN  Rebase(to, w, o) = IF EndsInSlash(w.path) /\ ~EndsInSlash(o.path)
                                 THEN BadBase ELSE Moved(Canonical(link))
    BY <2>6, <2>7, RebaseBack
  <2>. HIDE DEF to, link, d, new
  <2>9. ~(\/ link = Plain
          \/ d.type \notin {"html", "css"}
          \/ \A m \in DOMAIN mappings : ~(r(m) # NoBase))
    BY <1>9, <2>4
  <2>. QED  BY <2>4, <2>5, <2>8, <2>9 DEF r, to, link, d
<1>. QED  BY <1>8, <1>9

LEMMA IdleFiles ==
  ASSUME FilesIdle
  PROVE  DocumentsAreGenerated /\ OneRunPerDirectory /\ LinksCanBeTracedBack
BY DEF FilesIdle, DocumentsAreGenerated, F!DocumentsAreGenerated,
       OneRunPerDirectory, F!OneRunPerDirectory,
       LinksCanBeTracedBack, F!LinksCanBeTracedBack

\* Generate makes the output directory and refuses one that is there
\* (files.go:29-32): whatever fails, however often the command is killed and
\* run again, all that is in the directory was written by one run.
THEOREM OneRunHolds == Spec => []OneRunPerDirectory
<1>1. FInv => OneRunPerDirectory
  BY DEF FInv, RunInv, OneRunPerDirectory, F!OneRunPerDirectory
<1>2. FilesInv => OneRunPerDirectory
  BY <1>1, IdleFiles DEF FilesInv
<1>. QED  BY <1>2, FilesInvHolds, PTL

\* When Generate has returned (files.go:24-137), every document that was not
\* counted as skipped is in its file, whole and with its time, if that is in the
\* output directory and no other document goes there; and every file is that of
\* a document.
THEOREM GeneratedHolds == Spec => []DocumentsAreGenerated
<1>1. ASSUME FInv PROVE DocumentsAreGenerated
  <2>1. ASSUME filespc \in {"ok", "error"}, runs = 1, OutDir \in dirs,
               NEW k \in DOMAIN entries \ skipped, F!HasFile(k), F!Uncontested(k)
        PROVE  Written(k)
    <3>1. e > Len(entries) /\ e \in Nat
      BY <1>1, <2>1 DEF FInv, FirstRunInv, FilesType
    <3>2. k < e
      BY <1>1, <2>1, <3>1, EntriesFacts DEF FInv
    <3>. QED  BY <1>1, <2>1, <3>2 DEF FInv, FirstRunInv
  <2>2. \A p \in DOMAIN files :
          \E k \in DOMAIN entries : F!HasFile(k) /\ F!OutputPath(entries[k]) = p
    BY <1>1 DEF FInv, OwnersInv, Path
  <2>. QED
    BY <2>1, <2>2
       DEF DocumentsAreGenerated, F!DocumentsAreGenerated, F!FileOf, Written, Path
<1>2. FilesInv => DocumentsAreGenerated
  BY <1>1, IdleFiles DEF FilesInv
<1>. QED  BY <1>2, FilesInvHolds, PTL

\* A link in a file leads where the first mapping that applies says, and the
\* reverse mapping leads back to the link of the original document, or is one
\* that Rebase refuses (main.go:708-724, rebase.go:18-52).
THEOREM TracedBackHolds == Spec => []LinksCanBeTracedBack
<1>1. ASSUME FInv PROVE LinksCanBeTracedBack
  <2>1. \A p \in DOMAIN files : \A n \in DOMAIN files[p] : IsCopy(files[p][n], n)
    BY <1>1 DEF FInv, CellsInv
  <2>. QED
    BY <1>1, <2>1, CopiesTraceBack, SameOperators
       DEF LinksCanBeTracedBack, F!LinksCanBeTracedBack
<1>2. FilesInv => LinksCanBeTracedBack
  BY <1>1, IdleFiles DEF FilesInv
<1>. QED  BY <1>2, FilesInvHolds, PTL

-----------------------------------------------------------------------------
(* list and show.                                                          *)

LEMMA LookupOperators ==
  /\ \A u : L!Canonical(u) = Canonical(u)
  /\ \A u : L!IsAbs(u) <=> IsAbs(u)
  /\ \A u : L!Key(u) = Key(u)
<1>1. \A u : L!Canonical(u) = Canonical(u)
  BY DEF L!Canonical, Canonical, L!Lower, Lower, L!DefaultPort, DefaultPort,
         L!IsAbs, IsAbs
<1>2. \A q : L!Parameters(q) = Parameters(q)
  <2>1. \A s : L!FlattenSeq(s) = FlattenSeq(s)
    BY DEF L!FlattenSeq, FlattenSeq
  <2>. QED  BY <2>1 DEF L!Parameters, Parameters, L!Tracking, Tracking
<1>3. \A u : L!Key(u) = Key(u)
  BY <1>1, <1>2 DEF L!Key, Key
<1>. QED  BY <1>1, <1>3 DEF L!IsAbs, IsAbs

LEMMA AppendSequence ==
  ASSUME NEW s, IsSequence(s), NEW x
  PROVE  LET t == Append(s, x)
         IN  /\ IsSequence(t) /\ Len(t) = Len(s) + 1
             /\ DOMAIN t = 1 .. Len(s) + 1
             /\ \A n \in 1 .. Len(s) : t[n] = s[n]
             /\ t[Len(s) + 1] = x
<1>. DEFINE A == {s[n] : n \in DOMAIN s}
            B == A \cup {x}
            t == Append(s, x)
            T == {t[n] : n \in DOMAIN t}
<1>1. s \in Seq(A)
  BY DEF IsSequence
<1>. HIDE DEF A
<1>2. s \in Seq(B) /\ x \in B
  BY <1>1
<1>. HIDE DEF B
<1>3. /\ t \in Seq(B) /\ Len(t) = Len(s) + 1 /\ Len(s) \in Nat
      /\ \A n \in 1 .. Len(s) : t[n] = s[n]
      /\ t[Len(s) + 1] = x
  BY <1>2
<1>. HIDE DEF t
<1>4. DOMAIN t = 1 .. Len(t) /\ \A n \in DOMAIN t : t[n] \in T
  BY <1>3
<1>5. t \in Seq(T)
  <2>. HIDE DEF T
  <2>. QED  BY <1>3, <1>4
<1>. QED  BY <1>3, <1>4, <1>5 DEF IsSequence, t

\* The key of a URL is that of its canonical form.
LEMMA KeyOfCanonical ==
  ASSUME NEW u, IsURL(u)
  PROVE  Key(Canonical(u)) = Key(u)
BY CanonicalTwice DEF Key

\* What show answers: of a URL, the documents with its key; of a place in the
\* list, the document there.
Answered(a) ==
  \/ a.of = IF L!IsAbs(a.asked) THEN L!Load(a.asked) ELSE {}
  \/ \E n \in DOMAIN docs :
       a.asked = docs[n].url /\ a.of = IF docs[n].whole THEN {n} ELSE {}

LInv ==
  /\ docs \in Holdings
  /\ lpc \in {"listing", "listed", "failed"}
  /\ IsSequence(printed) /\ Len(printed) <= Len(docs)
  /\ \A n \in DOMAIN printed :
       docs[n].whole /\ printed[n] = L!Printed(docs[n].url)
  /\ \A k \in DOMAIN answer : Answered(answer[k])
  /\ lpc = "listed" /\ format = "native" => Len(printed) = Len(docs)

LookupInv == IF command = "lookup" THEN LInv ELSE LookupIdle

LEMMA LookupInit == L!Init => LInv
<1>. SUFFICES ASSUME L!Init PROVE LInv
  OBVIOUS
<1>1. /\ docs \in Holdings /\ lpc = "listing" /\ printed = <<>> /\ answer = <<>>
  BY DEF L!Init
<1>2. Len(docs) \in Nat
  BY <1>1, LookupAssumption, SequenceFacts
<1>. QED  BY <1>1, <1>2, EmptySequence DEF LInv

LEMMA LookupStep == ASSUME LInv, L!Next PROVE LInv'
<1>1. UNCHANGED <<docs, format, canonical>>
  BY DEF L!Next, L!PrintNext, L!ListFails, L!ListEnds, L!Show, L!ShowFile
<1>2. /\ \A u : L!Printed(u)' = L!Printed(u)
      /\ \A u : L!Load(u)' = L!Load(u)
      /\ \A a : Answered(a)' <=> Answered(a)
  BY <1>1 DEF L!Printed, L!Load, Answered
<1>3. /\ Len(printed) \in Nat /\ DOMAIN printed = 1 .. Len(printed)
      /\ Len(docs) \in Nat /\ DOMAIN docs = 1 .. Len(docs)
  BY LookupAssumption, SequenceFacts DEF LInv
<1>4. CASE L!PrintNext
  <2>1. /\ lpc = "listing" /\ Len(printed) < Len(docs)
        /\ docs[Len(printed) + 1].whole
        /\ printed' = Append(printed, L!Printed(docs[Len(printed) + 1].url))
        /\ lpc' = lpc /\ answer' = answer
    BY <1>4 DEF L!PrintNext
  <2>2. /\ IsSequence(printed') /\ Len(printed') = Len(printed) + 1
        /\ DOMAIN printed' = 1 .. Len(printed) + 1
        /\ \A n \in 1 .. Len(printed) : printed'[n] = printed[n]
        /\ printed'[Len(printed) + 1] = L!Printed(docs[Len(printed) + 1].url)
    BY <2>1, AppendSequence DEF LInv
  <2>3. ASSUME NEW n \in DOMAIN printed'
        PROVE  docs[n].whole /\ printed'[n] = L!Printed(docs[n].url)
    <3>1. CASE n = Len(printed) + 1
      BY <2>1, <2>2, <3>1
    <3>2. CASE n # Len(printed) + 1
      <4>1. n \in 1 .. Len(printed) /\ n \in DOMAIN printed
        BY <1>3, <2>2, <3>2
      <4>. QED  BY <2>2, <4>1 DEF LInv
    <3>. QED  BY <3>1, <3>2
  <2>. QED  BY <1>1, <1>2, <1>3, <2>1, <2>2, <2>3 DEF LInv
<1>5. CASE L!ListFails \/ L!ListEnds
  <2>1. /\ UNCHANGED <<printed, answer>> /\ lpc = "listing"
        /\ \/ lpc' = "failed"
           \/ lpc' = "listed" /\ (format = "native" => Len(printed) = Len(docs))
    BY <1>5 DEF L!ListFails, L!ListEnds
  <2>. QED  BY <1>1, <1>2, <2>1 DEF LInv
<1>6. ASSUME NEW u, L!Show(u) PROVE LInv'
  <2>1. /\ answer' = <<[asked |-> u, of |-> IF L!IsAbs(u) THEN L!Load(u) ELSE {}]>>
        /\ UNCHANGED <<printed, lpc>>
    BY <1>6 DEF L!Show
  <2>2. \A k \in DOMAIN answer' : Answered(answer'[k])
    <3>1. DOMAIN answer' = {1} /\ answer'[1].of = (IF L!IsAbs(u) THEN L!Load(u) ELSE {})
          /\ answer'[1].asked = u
      BY <2>1
    <3>. QED  BY <3>1 DEF Answered
  <2>. QED  BY <1>1, <1>2, <2>1, <2>2 DEF LInv
<1>7. ASSUME NEW n \in DOMAIN docs, L!ShowFile(n) PROVE LInv'
  <2>1. /\ answer' = <<[asked |-> docs[n].url, of |-> IF docs[n].whole THEN {n} ELSE {}]>>
        /\ UNCHANGED <<printed, lpc>>
    BY <1>7 DEF L!ShowFile
  <2>2. \A k \in DOMAIN answer' : Answered(answer'[k])
    <3>1. DOMAIN answer' = {1} /\ answer'[1].of = (IF docs[n].whole THEN {n} ELSE {})
          /\ answer'[1].asked = docs[n].url
      BY <2>1
    <3>. QED  BY <3>1 DEF Answered
  <2>. QED  BY <1>1, <1>2, <2>1, <2>2 DEF LInv
<1>. QED  BY <1>4, <1>5, <1>6, <1>7 DEF L!Next

LEMMA LookupInvHolds == Spec => []LookupInv
<1>1. Init => LookupInv
  BY LookupInit DEF Init, LookupInv
<1>2. LookupInv /\ [Next]_vars => LookupInv'
  <2>. SUFFICES ASSUME LookupInv, [Next]_vars PROVE LookupInv'
    OBVIOUS
  <2>1. CASE command = "lookup" /\ L!Next /\ command' = command
    BY <2>1, LookupStep DEF LookupInv
  <2>2. CASE UNCHANGED <<command, lookupVars>>
    BY <2>2 DEF LookupInv, LInv, LookupIdle, Answered, L!Load, L!Printed, lookupVars
  <2>. QED  BY <2>1, <2>2 DEF Next, vars
<1>. QED  BY <1>1, <1>2, PTL DEF Spec

\* show finds the document of each URL that list prints, and list prints them
\* all, whatever the spelling of the URLs (main.go:261-297, 599-613).
THEOREM PrintedHolds == Spec => []PrintedIsFound
<1>1. ASSUME LInv PROVE PrintedIsFound
  <2>1. /\ IsSequence(docs)
        /\ \A m \in DOMAIN docs :
             /\ IsURL(docs[m].url) /\ IsAbs(docs[m].url)
             /\ \A n \in DOMAIN docs :
                  Key(docs[m].url) = Key(docs[n].url) => m = n
    BY <1>1, LookupAssumption DEF LInv
  <2>2. /\ Len(printed) \in Nat /\ DOMAIN printed = 1 .. Len(printed)
        /\ Len(docs) \in Nat /\ DOMAIN docs = 1 .. Len(docs)
        /\ Len(printed) <= Len(docs)
    BY <1>1, <2>1, SequenceFacts DEF LInv
  <2>3. ASSUME NEW n \in DOMAIN printed, NEW k \in DOMAIN answer,
               answer[k].asked = printed[n]
        PROVE  answer[k].of = {n}
    <3>. DEFINE u == docs[n].url
    <3>1. n \in DOMAIN docs /\ docs[n].whole
      <4>1. n \in DOMAIN docs
        BY <2>2
      <4>. QED  BY <1>1, <4>1 DEF LInv
    <3>2. printed[n] = u \/ printed[n] = Canonical(u)
      BY <1>1, LookupOperators DEF LInv, L!Printed
    <3>3. IsAbs(printed[n]) /\ Key(printed[n]) = Key(u)
      BY <2>1, <3>1, <3>2, KeyOfCanonical, CanonicalTwice
    <3>4. CASE answer[k].of = IF L!IsAbs(printed[n]) THEN L!Load(printed[n]) ELSE {}
      <4>1. L!Load(printed[n]) = {m \in DOMAIN docs : Key(docs[m].url) = Key(u) /\ docs[m].whole}
        BY <3>3, LookupOperators DEF L!Load
      <4>. HIDE DEF u
      <4>2. L!Load(printed[n]) = {n}
        BY <2>1, <3>1, <4>1 DEF u
      <4>. QED  BY <3>3, <3>4, <4>2, LookupOperators
    <3>5. ASSUME NEW m \in DOMAIN docs, printed[n] = docs[m].url,
                 answer[k].of = IF docs[m].whole THEN {m} ELSE {}
          PROVE  answer[k].of = {n}
      BY <2>1, <3>1, <3>3, <3>5
    <3>. QED  BY <1>1, <2>3, <3>4, <3>5 DEF LInv, Answered
  <2>4. lpc = "listed" /\ format = "native" =>
          Len(printed) = Len(docs) /\ \A n \in DOMAIN docs : docs[n].whole
    <3>. SUFFICES ASSUME lpc = "listed", format = "native"
                  PROVE  Len(printed) = Len(docs) /\ \A n \in DOMAIN docs : docs[n].whole
      OBVIOUS
    <3>1. Len(printed) = Len(docs)
      BY <1>1 DEF LInv
    <3>. QED  BY <1>1, <2>2, <3>1 DEF LInv
  <2>. QED  BY <2>3, <2>4 DEF PrintedIsFound, L!PrintedIsFound
<1>2. LookupIdle => PrintedIsFound
  BY DEF LookupIdle, PrintedIsFound, L!PrintedIsFound
<1>3. LookupInv => PrintedIsFound
  BY <1>1, <1>2 DEF LookupInv
<1>. QED  BY <1>3, LookupInvHolds, PTL

-----------------------------------------------------------------------------
(* The flags of scrape.                                                    *)

LEMMA ScopeOperators ==
  /\ \A s : S!Lower(s) = Lower(s) /\ S!DefaultPort(s) = DefaultPort(s)
  /\ \A u : S!Canonical(u) = Canonical(u)
  /\ \A u : S!Key(u) = Key(u)
  /\ \A s, t : S!IsPrefix(s, t) <=> IsPrefix(s, t)
<1>1. \A s : S!Lower(s) = Lower(s) /\ S!DefaultPort(s) = DefaultPort(s)
  BY DEF S!Lower, Lower, S!DefaultPort, DefaultPort
<1>2. \A u : S!Canonical(u) = Canonical(u)
  BY <1>1, Zenon DEF S!Canonical, Canonical, S!IsAbs, IsAbs
<1>3. \A q : S!Parameters(q) = Parameters(q)
  <2>1. \A s : S!FlattenSeq(s) = FlattenSeq(s)
    BY DEF S!FlattenSeq, FlattenSeq
  <2>. QED  BY <2>1 DEF S!Parameters, Parameters, S!Tracking, Tracking
<1>4. \A u : S!Key(u) = Key(u)
  BY <1>2, <1>3 DEF S!Key, Key
<1>5. \A s, t : S!IsPrefix(s, t) <=> IsPrefix(s, t)
  BY DEF S!IsPrefix, IsPrefix
<1>. QED  BY <1>1, <1>2, <1>4, <1>5

\* The key keeps the site and the path of the canonical URL.
LEMMA KeyFields ==
  ASSUME NEW u, IsURL(u)
  PROVE  /\ Key(u).scheme = Canonical(u).scheme
         /\ Key(u).host = Canonical(u).host
         /\ Key(u).port = Canonical(u).port
         /\ Key(u).path = Canonical(u).path
         /\ Key(u).query = Parameters(u.query)
<1>. DEFINE c == Canonical(u)
            k == [c EXCEPT !.query = Parameters(c.query), !.fragment = ""]
<1>1. c = [scheme |-> c.scheme, host |-> c.host, port |-> c.port, path |-> c.path,
           query |-> c.query, fragment |-> c.fragment]
  BY CanonicalFields DEF IsURL
<1>2. Key(u) = k
  BY DEF Key
<1>3. c.query = u.query
  BY CanonicalFields DEF IsURL
<1>. HIDE DEF c
<1>4. /\ k.scheme = c.scheme /\ k.host = c.host /\ k.port = c.port /\ k.path = c.path
      /\ k.query = Parameters(c.query)
  BY <1>1
<1>. QED  BY <1>2, <1>3, <1>4 DEF c

\* What has been made of the URL that came up.
SInv ==
  /\ roots \in RootLists /\ strip \in BOOLEAN
  /\ \/ request = <<>> /\ wire = <<>>
     \/ \E u \in Requests :
          /\ request = <<u>>
          /\ wire = IF S!FollowURL(u) THEN <<S!Exchange(u)>> ELSE <<>>

ScopeInv == IF command = "scrape" THEN SInv ELSE ScopeIdle

LEMMA ScopeInvHolds == Spec => []ScopeInv
<1>1. Init => ScopeInv
  BY DEF Init, ScopeInv, S!Init, SInv
<1>2. LET Unchanged == UNCHANGED <<roots, remaps, strip>>
      IN  Unchanged => \A u : /\ S!FollowURL(u)' <=> S!FollowURL(u)
                              /\ S!Exchange(u)' = S!Exchange(u)
  BY DEF S!FollowURL, S!Exchange, S!Dialled, S!Sent
<1>3. ASSUME SInv, S!Next PROVE SInv'
  <2>1. PICK u \in Requests : S!Link(u)
    BY <1>3 DEF S!Next
  <2>2. /\ request' = <<u>> /\ UNCHANGED <<roots, remaps, strip>>
        /\ wire' = IF S!FollowURL(u) THEN <<S!Exchange(u)>> ELSE <<>>
    BY <2>1 DEF S!Link
  <2>. QED  BY <1>2, <1>3, <2>2 DEF SInv
<1>4. ASSUME SInv, UNCHANGED scopeVars PROVE SInv'
  BY <1>2, <1>4 DEF SInv, scopeVars
<1>5. ScopeInv /\ [Next]_vars => ScopeInv'
  BY <1>3, <1>4 DEF ScopeInv, Next, vars, ScopeIdle, scopeVars
<1>. QED  BY <1>1, <1>5, PTL DEF Spec

\* Where a request goes is decided by the key of its URL.
LEMMA ExchangeOfKey ==
  ASSUME NEW u, IsURL(u), NEW v, IsURL(v), Key(u) = Key(v), strip \in BOOLEAN,
         strip => u.port # "443" /\ v.port # "443"
  PROVE  S!Exchange(u) = S!Exchange(v)
<1>. DEFINE scheme(x) == IF strip /\ Lower(x.scheme) = "https" THEN "http" ELSE x.scheme
            port(x) == IF x.port = "" THEN DefaultPort(Lower(scheme(x))) ELSE x.port
<1>1. /\ Lower(u.scheme) = Lower(v.scheme) /\ Lower(u.host) = Lower(v.host)
      /\ (IF u.port = DefaultPort(Lower(u.scheme)) THEN "" ELSE u.port)
           = IF v.port = DefaultPort(Lower(v.scheme)) THEN "" ELSE v.port
  <2>1. /\ Canonical(u).scheme = Canonical(v).scheme
        /\ Canonical(u).host = Canonical(v).host
        /\ Canonical(u).port = Canonical(v).port
    BY KeyFields
  <2>2. \A x : IsURL(x) =>
          /\ Canonical(x).scheme = Lower(x.scheme)
          /\ Canonical(x).host = Lower(x.host)
          /\ Canonical(x).port =
               IF x.port = DefaultPort(Lower(x.scheme)) THEN "" ELSE x.port
    BY CanonicalFields
  <2>. QED  BY <2>1, <2>2
<1>2. ASSUME NEW x, IsURL(x)
      PROVE  /\ S!Sent(x).scheme = scheme(x) /\ S!Sent(x).host = x.host
             /\ S!Sent(x).port = x.port
  <2>1. x = [scheme |-> x.scheme, host |-> x.host, port |-> x.port, path |-> x.path,
             query |-> x.query, fragment |-> x.fragment]
    BY <1>2 DEF IsURL
  <2>2. S!Sent(x) = IF strip /\ Lower(x.scheme) = "https"
                      THEN [x EXCEPT !.scheme = "http"] ELSE x
    BY ScopeOperators DEF S!Sent
  <2>. QED  BY <2>1, <2>2
<1>3. ASSUME NEW x, IsURL(x)
      PROVE  S!LowerAddress(S!Address(S!Sent(x))) = [host |-> Lower(x.host), port |-> port(x)]
  <2>. DEFINE a == S!Address(S!Sent(x))
  <2>1. a = [host |-> x.host, port |-> port(x)]
    <3>. HIDE DEF scheme
    <3>. QED  BY <1>2, <1>3, ScopeOperators DEF S!Address
  <2>. HIDE DEF a, port
  <2>2. S!LowerAddress(a) = [a EXCEPT !.host = Lower(a.host)]
    BY ScopeOperators DEF S!LowerAddress
  <2>. QED  BY <2>1, <2>2 DEF a
<1>4. Lower(scheme(u)) = Lower(scheme(v))
  BY <1>1
<1>5. port(u) = port(v)
  <2>1. CASE strip /\ Lower(u.scheme) = "https"
    BY <1>1, <2>1 DEF DefaultPort
  <2>2. CASE ~(strip /\ Lower(u.scheme) = "https")
    BY <1>1, <2>2 DEF DefaultPort
  <2>. QED  BY <2>1, <2>2
<1>6. S!Dialled(S!Address(S!Sent(u))) = S!Dialled(S!Address(S!Sent(v)))
  <2>1. S!LowerAddress(S!Address(S!Sent(u))) = S!LowerAddress(S!Address(S!Sent(v)))
    <3>. HIDE DEF port
    <3>. QED  BY <1>1, <1>3, <1>5
  <2>. QED  BY <2>1 DEF S!Dialled
<1>. QED  BY <1>2, <1>4, <1>6, ScopeOperators DEF S!Exchange

\* Which of the URLs of one document comes up first does not decide which
\* server it is asked of, nor how (main.go:189-206, 237-253).
THEOREM OneServerHolds == Spec => []OneServerPerKey
<1>1. ASSUME SInv PROVE OneServerPerKey
  <2>. SUFFICES ASSUME request # <<>>, wire # <<>>, NEW v \in Requests,
                       S!Key(v) = S!Key(request[1]),
                       strip => {v.port, request[1].port} \cap {"443"} = {}
                PROVE  S!Exchange(v) = wire[1]
    BY DEF OneServerPerKey, S!OneServerPerKey
  <2>1. PICK u \in Requests : request = <<u>> /\ wire = <<S!Exchange(u)>>
    BY <1>1 DEF SInv
  <2>2. IsURL(u) /\ IsURL(v) /\ Key(u) = Key(v)
    BY <2>1, ScopeAssumption, ScopeOperators DEF Sited
  <2>3. strip => u.port # "443" /\ v.port # "443"
    BY <2>1
  <2>4. S!Exchange(u) = S!Exchange(v)
    BY <1>1, <2>2, <2>3, ExchangeOfKey DEF SInv
  <2>. QED  BY <2>1, <2>4
<1>2. ScopeIdle => OneServerPerKey
  BY DEF ScopeIdle, OneServerPerKey, S!OneServerPerKey
<1>3. ScopeInv => OneServerPerKey
  BY <1>1, <1>2 DEF ScopeInv
<1>. QED  BY <1>3, ScopeInvHolds, PTL

\* The names and the port of a host.
Names(u) == LabelsOf[u.host]
PortPieces(u) == IF u.port = "" THEN <<>> ELSE <<":", u.port>>

LEMMA HostPortPieces ==
  ASSUME NEW u, u.host \in DOMAIN LabelsOf
  PROVE  LET h == S!HostPort(u)
             k == Size(Names(u))
         IN  /\ IsSequence(h) /\ IsSequence(Names(u)) /\ k \in Nat
             /\ \A n \in 1 .. k : h[n] = Names(u)[n] /\ h[n] \notin {":", "/"}
             /\ Size(h) = IF u.port = "" THEN k ELSE k + 2
             /\ u.port # "" => h[k + 1] = ":" /\ h[k + 2] = u.port
<1>. DEFINE h == S!HostPort(u)
            k == Size(Names(u))
            p == PortPieces(u)
<1>1. /\ IsSequence(Names(u)) /\ k \in Nat
      /\ \A n \in 1 .. k : Names(u)[n] \notin {":", "/"}
  <2>1. IsSequence(Names(u)) /\ \A n \in DOMAIN Names(u) : Names(u)[n] \notin {":", "/"}
    BY ScopeAssumption, Zenon DEF Names
  <2>2. k \in Nat /\ DOMAIN Names(u) = 1 .. k
    BY <2>1, SizeOfSequence
  <2>. QED  BY <2>1, <2>2, Zenon
<1>2. /\ IsSequence(p) /\ Size(p) = IF u.port = "" THEN 0 ELSE 2
      /\ u.port # "" => p[1] = ":" /\ p[2] = u.port
  BY ShortSequences DEF PortPieces
<1>3. h = Together(Names(u), p)
  BY DEF S!HostPort, Names, PortPieces, Together
<1>. HIDE DEF h, p
<1>4. /\ IsSequence(h) /\ Size(h) = k + Size(p)
      /\ \A n \in 1 .. k : h[n] = Names(u)[n]
  BY <1>1, <1>2, <1>3, ConcatByPlace
<1>5. ASSUME Size(p) = 2
      PROVE  h[k + 1] = p[1] /\ h[k + 2] = p[2]
  <2>1. 1 \in 1 .. Size(p) /\ 2 \in 1 .. Size(p)
    BY <1>5
  <2>2. IsSequence(Names(u)) /\ IsSequence(p)
    BY <1>1, <1>2
  <2>3. Together(Names(u), p)[k + 1] = p[1]
    BY <2>1, <2>2, ConcatSecond
  <2>4. Together(Names(u), p)[k + 2] = p[2]
    BY <2>1, <2>2, ConcatSecond
  <2>. QED  BY <1>3, <2>3, <2>4
<1>. HIDE DEF k
<1>6. Size(h) = IF u.port = "" THEN k ELSE k + 2
  <2>1. Size(h) = k + Size(p) /\ k \in Nat
    BY <1>1, <1>4 DEF k
  <2>2. Size(p) = IF u.port = "" THEN 0 ELSE 2
    BY <1>2
  <2>3. k + 0 = k
    BY <2>1
  <2>. QED  BY <2>1, <2>2, <2>3, Zenon
<1>. QED  BY <1>1, <1>2, <1>4, <1>5, <1>6 DEF h, k

Hosted(u) ==
  /\ u.scheme # "" /\ u.host # ""
  /\ u.host \in DOMAIN LabelsOf
  /\ IsSequence(S!Rest(u)) /\ S!Rest(u) # <<>> /\ S!Rest(u)[1] = "/"

\* The pieces of a URL with a scheme and a host.
LEMMA StringPieces ==
  ASSUME NEW u, Hosted(u)
  PROVE  LET s == S!String(u)
             h == S!HostPort(u)
         IN  /\ IsSequence(s) /\ IsSequence(h) /\ IsSequence(S!Rest(u))
             /\ Size(s) = 3 + Size(h) + Size(S!Rest(u))
             /\ s[1] = u.scheme /\ s[2] = ":" /\ s[3] = "//"
             /\ \A n \in 1 .. Size(h) : s[3 + n] = h[n]
             /\ \A n \in 1 .. Size(S!Rest(u)) : s[3 + Size(h) + n] = S!Rest(u)[n]
<1>. DEFINE h == S!HostPort(u)
            a == <<u.scheme, ":">>
            b == <<"//">>
            bh == Together(b, h)
            ab == Together(a, bh)
            path == S!Rest(u)
            s == Together(ab, path)
<1>1. S!String(u) = s
  BY DEF S!String, Together, Hosted
<1>2. a[1] = u.scheme /\ a[2] = ":" /\ b[1] = "//"
  BY ShortSequences
<1>3. IsSequence(a) /\ IsSequence(b) /\ Size(a) = 2 /\ Size(b) = 1
  BY ShortSequences
<1>4. /\ IsSequence(h) /\ Size(h) \in Nat
      /\ IsSequence(path) /\ Size(path) \in Nat
  BY HostPortPieces, SizeOfSequence DEF Hosted
<1>. HIDE DEF h, a, b, path
<1>5. IsSequence(bh) /\ Size(bh) = 1 + Size(h)
  BY <1>3, <1>4, ConcatByPlace
<1>6. bh[1] = b[1] /\ \A n \in 1 .. Size(h) : bh[1 + n] = h[n]
  <2>1. 1 \in 1 .. Size(b)
    BY <1>3
  <2>2. bh[1] = b[1]
    BY <1>3, <1>4, <2>1, ConcatByPlace
  <2>3. ASSUME NEW n \in 1 .. Size(h) PROVE bh[1 + n] = h[n]
    <3>1. 1 + n = Size(b) + n
      BY <1>3
    <3>. QED  BY <1>3, <1>4, <3>1, ConcatSecond
  <2>. QED  BY <2>2, <2>3
<1>. HIDE DEF bh
<1>7. IsSequence(ab) /\ Size(ab) = 3 + Size(h)
  BY <1>3, <1>4, <1>5, ConcatByPlace
<1>8. /\ ab[1] = a[1] /\ ab[2] = a[2] /\ ab[3] = bh[1]
      /\ \A n \in 1 .. Size(h) : ab[3 + n] = bh[1 + n]
  <2>1. 1 \in 1 .. Size(a) /\ 2 \in 1 .. Size(a)
    BY <1>3
  <2>2. ab[1] = a[1] /\ ab[2] = a[2]
    <3>1. \A n \in 1 .. Size(a) : ab[n] = a[n]
      BY <1>3, <1>5, ConcatByPlace
    <3>. QED  BY <2>1, <3>1
  <2>3. ab[3] = bh[1]
    <3>1. 1 \in 1 .. Size(bh) /\ 3 = Size(a) + 1
      BY <1>3, <1>4, <1>5
    <3>. QED  BY <1>3, <1>5, <3>1, ConcatSecond
  <2>4. ASSUME NEW n \in 1 .. Size(h) PROVE ab[3 + n] = bh[1 + n]
    <3>1. 1 + n \in 1 .. Size(bh) /\ 3 + n = Size(a) + (1 + n)
      BY <1>3, <1>4, <1>5
    <3>. QED  BY <1>3, <1>5, <3>1, ConcatSecond
  <2>. QED  BY <2>2, <2>3, <2>4
<1>. HIDE DEF ab
<1>9. /\ IsSequence(s) /\ Size(s) = 3 + Size(h) + Size(path)
      /\ \A n \in 1 .. Size(ab) : s[n] = ab[n]
  BY <1>4, <1>7, ConcatByPlace
<1>10. \A n \in 1 .. Size(path) : s[3 + Size(h) + n] = path[n]
  <2>. SUFFICES ASSUME NEW n \in 1 .. Size(path)
                PROVE  s[3 + Size(h) + n] = path[n]
    OBVIOUS
  <2>1. 3 + Size(h) + n = Size(ab) + n
    BY <1>4, <1>7
  <2>. QED  BY <1>4, <1>7, <2>1, ConcatSecond
<1>11. /\ s[1] = ab[1] /\ s[2] = ab[2] /\ s[3] = ab[3]
       /\ \A n \in 1 .. Size(h) : s[3 + n] = ab[3 + n]
  <2>1. /\ 1 \in 1 .. Size(ab) /\ 2 \in 1 .. Size(ab) /\ 3 \in 1 .. Size(ab)
        /\ \A n \in 1 .. Size(h) : 3 + n \in 1 .. Size(ab)
    BY <1>4, <1>7
  <2>. QED  BY <1>9, <2>1
<1>. HIDE DEF s
<1>. QED  BY <1>1, <1>2, <1>4, <1>6, <1>8, <1>9, <1>10, <1>11 DEF h, path

\* A URL with a scheme and a host that is a prefix of another has the
\* same site: its host ends where the other one's does.
LEMMA PrefixHasSite ==
  ASSUME NEW r, Hosted(r), NEW u, Hosted(u)
  PROVE  IsPrefix(S!String(r), S!String(u)) <=>
           SameSite(r, u) /\ IsPrefix(S!Rest(r), S!Rest(u))
<1>. DEFINE s == S!String(r)
            t == S!String(u)
            h == S!HostPort(r)
            g == S!HostPort(u)
            p == S!Rest(r)
            q == S!Rest(u)
            k == Size(Names(r))
            l == Size(Names(u))
            plain == r.port = ""
            plainer == u.port = ""
<1>1. /\ IsSequence(s) /\ IsSequence(h) /\ IsSequence(p)
      /\ Size(s) = 3 + Size(h) + Size(p)
      /\ s[1] = r.scheme /\ s[2] = ":" /\ s[3] = "//"
      /\ \A n \in 1 .. Size(h) : s[3 + n] = h[n]
      /\ \A n \in 1 .. Size(p) : s[3 + Size(h) + n] = p[n]
  BY StringPieces
<1>2. /\ IsSequence(t) /\ IsSequence(g) /\ IsSequence(q)
      /\ Size(t) = 3 + Size(g) + Size(q)
      /\ t[1] = u.scheme /\ t[2] = ":" /\ t[3] = "//"
      /\ \A n \in 1 .. Size(g) : t[3 + n] = g[n]
      /\ \A n \in 1 .. Size(q) : t[3 + Size(g) + n] = q[n]
  BY StringPieces
<1>3. /\ k \in Nat /\ IsSequence(Names(r))
      /\ \A n \in 1 .. k : h[n] = Names(r)[n] /\ h[n] \notin {":", "/"}
      /\ plain => Size(h) = k
      /\ ~plain => /\ Size(h) = k + 2
                 /\ h[k + 1] = ":" /\ h[k + 2] = r.port
  BY HostPortPieces DEF Hosted
<1>4. /\ l \in Nat /\ IsSequence(Names(u))
      /\ \A n \in 1 .. l : g[n] = Names(u)[n] /\ g[n] \notin {":", "/"}
      /\ plainer => Size(g) = l
      /\ ~plainer => /\ Size(g) = l + 2
                 /\ g[l + 1] = ":" /\ g[l + 2] = u.port
  BY HostPortPieces DEF Hosted
<1>5. /\ Size(h) \in Nat /\ Size(g) \in Nat
      /\ Size(p) \in Nat /\ Size(q) \in Nat
      /\ 1 \in 1 .. Size(p) /\ 1 \in 1 .. Size(q)
      /\ p[1] = "/" /\ q[1] = "/"
  <2>1. ASSUME NEW x, IsSequence(x), x # <<>>
        PROVE  1 \in 1 .. Size(x)
    BY <2>1 DEF IsSequence, Size
  <2>. QED  BY <1>1, <1>2, <2>1, SizeOfSequence DEF Hosted
<1>6. IsPrefix(s, t) <=> Size(s) <= Size(t) /\ \A n \in 1 .. Size(s) : s[n] = t[n]
  BY <1>1, <1>2, PrefixByPlace
<1>7. IsPrefix(p, q) <=> Size(p) <= Size(q) /\ \A n \in 1 .. Size(p) : p[n] = q[n]
  BY <1>1, <1>2, PrefixByPlace
<1>. HIDE DEF s, t, h, g, p, q, k, l, plain, plainer
<1>a. /\ k \in Nat /\ l \in Nat
      /\ Size(s) = 3 + Size(h) + Size(p) /\ Size(t) = 3 + Size(g) + Size(q)
      /\ Size(h) \in Nat /\ Size(g) \in Nat /\ Size(p) \in Nat /\ Size(q) \in Nat
      /\ 1 <= Size(p) /\ 1 <= Size(q)
  BY <1>1, <1>2, <1>3, <1>4, <1>5
<1>b. Size(h) = IF plain THEN k ELSE k + 2
  BY <1>3
<1>c. Size(g) = IF plainer THEN l ELSE l + 2
  BY <1>4
\* What is behind the names.
<1>8. /\ s[3 + (k + 1)] = IF plain THEN "/" ELSE ":"
      /\ 3 + (k + 1) \in 1 .. Size(s)
  <2>1. CASE plain
    <3>1. Size(h) = k /\ 3 + Size(h) + 1 = 3 + (k + 1)
      BY <1>a, <1>b, <2>1
    <3>2. s[3 + Size(h) + 1] = p[1]
      BY <1>1, <1>5
    <3>3. 3 + (k + 1) \in 1 .. Size(s)
      BY <1>a, <1>b, <3>1
    <3>. QED  BY <1>5, <2>1, <3>1, <3>2, <3>3
  <2>2. CASE ~plain
    <3>1. Size(h) = k + 2
      BY <1>b, <2>2
    <3>2. k + 1 \in 1 .. Size(h)
      BY <1>a, <3>1
    <3>3. s[3 + (k + 1)] = h[k + 1]
      BY <1>1, <3>2
    <3>4. 3 + (k + 1) \in 1 .. Size(s)
      BY <1>a, <1>b, <3>1
    <3>. QED  BY <1>3, <2>2, <3>3, <3>4
  <2>. QED  BY <2>1, <2>2
<1>9. /\ t[3 + (l + 1)] = IF plainer THEN "/" ELSE ":"
      /\ 3 + (l + 1) \in 1 .. Size(t)
  <2>1. CASE plainer
    <3>1. Size(g) = l /\ 3 + Size(g) + 1 = 3 + (l + 1)
      BY <1>a, <1>c, <2>1
    <3>2. t[3 + Size(g) + 1] = q[1]
      BY <1>2, <1>5
    <3>3. 3 + (l + 1) \in 1 .. Size(t)
      BY <1>a, <1>c, <3>1
    <3>. QED  BY <1>5, <2>1, <3>1, <3>2, <3>3
  <2>2. CASE ~plainer
    <3>1. Size(g) = l + 2
      BY <1>c, <2>2
    <3>2. l + 1 \in 1 .. Size(g)
      BY <1>a, <3>1
    <3>3. t[3 + (l + 1)] = g[l + 1]
      BY <1>2, <3>2
    <3>4. 3 + (l + 1) \in 1 .. Size(t)
      BY <1>a, <1>c, <3>1
    <3>. QED  BY <1>4, <2>2, <3>3, <3>4
  <2>. QED  BY <2>1, <2>2
\* The names themselves.
<1>10. /\ \A n \in 1 .. k : s[3 + n] = Names(r)[n] /\ s[3 + n] \notin {":", "/"}
       /\ \A n \in 1 .. k : 3 + n \in 1 .. Size(s)
  <2>. SUFFICES ASSUME NEW n \in 1 .. k
                PROVE  /\ s[3 + n] = Names(r)[n] /\ s[3 + n] \notin {":", "/"}
                       /\ 3 + n \in 1 .. Size(s)
    OBVIOUS
  <2>1. n \in 1 .. Size(h) /\ 3 + n \in 1 .. Size(s)
    BY <1>a, <1>b
  <2>2. s[3 + n] = h[n]
    BY <1>1, <2>1
  <2>3. h[n] = Names(r)[n] /\ h[n] \notin {":", "/"}
    BY <1>3
  <2>. QED  BY <2>1, <2>2, <2>3
<1>11. /\ \A n \in 1 .. l : t[3 + n] = Names(u)[n] /\ t[3 + n] \notin {":", "/"}
       /\ \A n \in 1 .. l : 3 + n \in 1 .. Size(t)
  <2>. SUFFICES ASSUME NEW n \in 1 .. l
                PROVE  /\ t[3 + n] = Names(u)[n] /\ t[3 + n] \notin {":", "/"}
                       /\ 3 + n \in 1 .. Size(t)
    OBVIOUS
  <2>1. n \in 1 .. Size(g) /\ 3 + n \in 1 .. Size(t)
    BY <1>a, <1>c
  <2>2. t[3 + n] = g[n]
    BY <1>2, <2>1
  <2>3. g[n] = Names(u)[n] /\ g[n] \notin {":", "/"}
    BY <1>4
  <2>. QED  BY <2>1, <2>2, <2>3
<1>12. ASSUME IsPrefix(s, t) PROVE SameSite(r, u) /\ IsPrefix(p, q)
  <2>1. Size(s) <= Size(t) /\ \A n \in 1 .. Size(s) : s[n] = t[n]
    BY <1>6, <1>12
  <2>2. k = l
    <3>1. CASE k < l
      <4>1. k + 1 \in 1 .. l
        BY <1>a, <3>1
      <4>2. t[3 + (k + 1)] \notin {":", "/"}
        BY <1>11, <4>1
      <4>3. s[3 + (k + 1)] = t[3 + (k + 1)]
        BY <1>8, <2>1
      <4>. QED  BY <1>8, <4>2, <4>3
    <3>2. CASE l < k
      <4>1. l + 1 \in 1 .. k
        BY <1>a, <3>2
      <4>2. s[3 + (l + 1)] \notin {":", "/"}
        BY <1>10, <4>1
      <4>3. s[3 + (l + 1)] = t[3 + (l + 1)]
        BY <1>10, <2>1, <4>1
      <4>. QED  BY <1>9, <4>2, <4>3
    <3>. QED  BY <1>a, <3>1, <3>2
  <2>3. r.host = u.host
    <3>1. \A n \in 1 .. k : Names(r)[n] = Names(u)[n]
      BY <1>10, <1>11, <2>1, <2>2
    <3>2. Names(r) = Names(u)
      BY <1>3, <1>4, <2>2, <3>1, SameBySize DEF k, l
    <3>. QED  BY <3>2, ScopeAssumption DEF Names, Hosted
  <2>4. plain <=> plainer
    BY <1>8, <1>9, <2>1, <2>2
  <2>5. r.port = u.port
    <3>1. CASE plain
      BY <2>4, <3>1 DEF plain, plainer
    <3>2. CASE ~plain
      <4>1. Size(h) = k + 2 /\ Size(g) = k + 2
        BY <1>b, <1>c, <2>2, <2>4, <3>2
      <4>2. /\ k + 2 \in 1 .. Size(h) /\ k + 2 \in 1 .. Size(g)
            /\ 3 + (k + 2) \in 1 .. Size(s)
        BY <1>a, <4>1
      <4>3. s[3 + (k + 2)] = h[k + 2] /\ t[3 + (k + 2)] = g[k + 2]
        BY <1>1, <1>2, <4>2
      <4>4. s[3 + (k + 2)] = t[3 + (k + 2)]
        BY <2>1, <4>2
      <4>5. h[k + 2] = r.port /\ g[k + 2] = u.port
        BY <1>3, <1>4, <2>2, <2>4, <3>2
      <4>. QED  BY <4>3, <4>4, <4>5
    <3>. QED  BY <3>1, <3>2
  <2>6. r.scheme = u.scheme
    <3>1. 1 \in 1 .. Size(s)
      BY <1>a
    <3>2. s[1] = t[1]
      BY <2>1, <3>1
    <3>. QED  BY <1>1, <1>2, <3>2
  <2>7. Size(h) = Size(g)
    BY <1>b, <1>c, <2>2, <2>4
  <2>8. Size(p) <= Size(q)
    BY <1>a, <2>1, <2>7
  <2>9. ASSUME NEW n \in 1 .. Size(p) PROVE p[n] = q[n]
    <3>1. n \in 1 .. Size(q) /\ 3 + Size(h) + n \in 1 .. Size(s)
      BY <1>a, <2>8
    <3>2. s[3 + Size(h) + n] = p[n]
      BY <1>1
    <3>3. t[3 + Size(h) + n] = q[n]
      BY <1>2, <2>7, <3>1
    <3>. QED  BY <2>1, <3>1, <3>2, <3>3
  <2>. QED  BY <1>7, <2>3, <2>5, <2>6, <2>8, <2>9 DEF SameSite
<1>13. ASSUME SameSite(r, u), IsPrefix(p, q) PROVE IsPrefix(s, t)
  <2>1. Size(p) <= Size(q) /\ \A n \in 1 .. Size(p) : p[n] = q[n]
    BY <1>7, <1>13
  <2>2. h = g
    BY <1>13 DEF SameSite, S!HostPort, h, g
  <2>3. Size(s) <= Size(t)
    BY <1>a, <2>1, <2>2
  <2>4. s[1] = t[1] /\ s[2] = t[2] /\ s[3] = t[3]
    BY <1>1, <1>2, <1>13 DEF SameSite
  <2>5. \A n \in 1 .. Size(h) : s[3 + n] = t[3 + n]
    BY <1>1, <1>2, <2>2
  <2>6. ASSUME NEW n \in 1 .. Size(p)
        PROVE  s[3 + Size(h) + n] = t[3 + Size(h) + n]
    <3>1. n \in 1 .. Size(q)
      BY <1>a, <2>1
    <3>2. s[3 + Size(h) + n] = p[n]
      BY <1>1
    <3>3. t[3 + Size(h) + n] = q[n]
      BY <1>2, <2>2, <3>1
    <3>. QED  BY <2>1, <3>2, <3>3
  <2>7. ASSUME NEW n \in 1 .. Size(s) PROVE s[n] = t[n]
    <3>1. CASE n <= 3
      <4>1. n = 1 \/ n = 2 \/ n = 3
        BY <3>1
      <4>. QED  BY <2>4, <4>1
    <3>2. CASE 3 < n /\ n <= 3 + Size(h)
      <4>1. n - 3 \in 1 .. Size(h) /\ 3 + (n - 3) = n
        BY <1>a, <3>2
      <4>. QED  BY <2>5, <4>1
    <3>3. CASE 3 + Size(h) < n
      <4>1. /\ n - (3 + Size(h)) \in 1 .. Size(p)
            /\ 3 + Size(h) + (n - (3 + Size(h))) = n
        BY <1>a, <3>3
      <4>. QED  BY <2>6, <4>1
    <3>. QED  BY <1>a, <3>1, <3>2, <3>3
  <2>. QED  BY <1>6, <2>3, <2>7
<1>. QED  BY <1>12, <1>13 DEF s, t, p, q

\* What the string of a URL without a scheme begins with.
LEMMA RelativeString ==
  ASSUME NEW u, u.scheme = "", IsSequence(S!Rest(u)),
         u.host = "" => S!Rest(u) # <<>>,
         u.host # "" => u.host \in DOMAIN LabelsOf
  PROVE  LET s == S!String(u)
         IN  /\ IsSequence(s) /\ 1 <= Size(s)
             /\ s[1] = IF u.host = "" THEN S!Rest(u)[1] ELSE "//"
<1>. DEFINE s == S!String(u)
            h == S!HostPort(u)
            path == S!Rest(u)
            Local(x) == Together(Together(<<>>, x), path)
<1>1. IsSequence(<<>>) /\ Size(<<>>) = 0
  BY ShortSequences
<1>2. IsSequence(path)
  OBVIOUS
<1>3. CASE u.host = ""
  <2>1. s = Local(<<>>)
    BY <1>3 DEF S!String, Together
  <2>2. 1 <= Size(path)
    BY <1>2, <1>3, FirstPlace
  <2>. DEFINE q == Together(<<>>, <<>>)
  <2>3. IsSequence(q) /\ Size(q) = 0
    BY <1>1, TogetherFirst
  <2>. HIDE DEF q, path
  <2>4. /\ IsSequence(Together(q, path)) /\ 1 <= Size(Together(q, path))
        /\ Together(q, path)[1] = path[1]
    BY <1>2, <2>2, <2>3, TogetherFirst
  <2>5. /\ IsSequence(s) /\ 1 <= Size(s) /\ s[1] = path[1]
    BY <2>1, <2>4 DEF q
  <2>. QED  BY <1>3, <2>5 DEF path
<1>4. CASE u.host # ""
  <2>. DEFINE a == <<"//">>
              b == Together(a, h)
              q == Together(<<>>, b)
  <2>1. s = Local(b)
    BY <1>4 DEF S!String, Together
  <2>2. IsSequence(a) /\ a # <<>> /\ a[1] = "//"
    BY ShortSequences
  <2>3. IsSequence(h)
    BY <1>4, HostPortPieces
  <2>a. 1 <= Size(a)
    BY <2>2, FirstPlace
  <2>. HIDE DEF a, h, path
  <2>4. IsSequence(b) /\ 1 <= Size(b) /\ b[1] = a[1]
    BY <2>2, <2>3, <2>a, TogetherFirst
  <2>. HIDE DEF b
  <2>5. IsSequence(q) /\ 1 <= Size(q) /\ q[1] = b[1]
    BY <1>1, <2>4, TogetherFirst
  <2>. HIDE DEF q
  <2>6. /\ IsSequence(Together(q, path)) /\ 1 <= Size(Together(q, path))
        /\ Together(q, path)[1] = q[1]
    BY <1>2, <2>5, TogetherFirst
  <2>7. IsSequence(s) /\ 1 <= Size(s) /\ s[1] = "//"
    BY <2>1, <2>2, <2>4, <2>5, <2>6 DEF q
  <2>. QED  BY <1>4, <2>7
<1>. QED  BY <1>3, <1>4

\* The parameters of a key have values that the query has.
LEMMA ParametersAre ==
  ASSUME NEW query, IsSequence(query), NEW name \in DOMAIN Parameters(query)
  PROVE  LET v == Parameters(query)[name]
         IN  /\ IsSequence(v)
             /\ \A k \in DOMAIN v : \E n \in DOMAIN query : v[k] = query[n].value
<1>. DEFINE Part(n) == IF query[n].name = name THEN <<query[n].value>> ELSE <<>>
            q == [n \in DOMAIN query |-> Part(n)]
            v == FlattenSeq(q)
<1>1. Parameters(query)[name] = v
  BY DEF Parameters
<1>2. Len(query) \in Nat /\ DOMAIN query = 1 .. Len(query)
  BY SequenceFacts
<1>3. ASSUME NEW n
      PROVE  /\ IsSequence(Part(n))
             /\ \A k \in 1 .. Len(Part(n)) : Part(n)[k] = query[n].value
  <2>1. CASE query[n].name = name
    <3>1. Part(n) = <<query[n].value>>
      BY <2>1
    <3>. HIDE DEF Part
    <3>. QED  BY <3>1, SingletonSequence
  <2>2. CASE query[n].name # name
    <3>1. Part(n) = <<>>
      BY <2>2
    <3>. HIDE DEF Part
    <3>. QED  BY <3>1, EmptySequence
  <2>. QED  BY <2>1, <2>2
<1>. HIDE DEF Part
<1>4. IsSequence(q) /\ Len(q) = Len(query) /\ \A n \in 1 .. Len(query) : q[n] = Part(n)
  BY <1>2, FunctionSequence
<1>. HIDE DEF q
<1>5. IsParts(q, v)
  BY <1>3, <1>4, PartsStand
<1>. HIDE DEF v
<1>6. IsSequence(v) /\ \A k \in 1 .. Len(v) : \E n \in 1 .. Len(q) : \E m \in 1 .. Len(q[n]) : v[k] = q[n][m]
  BY <1>5 DEF IsParts
<1>7. DOMAIN v = 1 .. Len(v)
  BY <1>6, SequenceFacts
<1>8. \A k \in DOMAIN v : \E n \in DOMAIN query : v[k] = query[n].value
  <2>1. ASSUME NEW k \in DOMAIN v PROVE \E n \in DOMAIN query : v[k] = query[n].value
    <3>1. PICK n \in 1 .. Len(q) : \E m \in 1 .. Len(q[n]) : v[k] = q[n][m]
      BY <1>6, <1>7
    <3>2. n \in DOMAIN query /\ q[n] = Part(n)
      BY <1>2, <1>4
    <3>3. v[k] = query[n].value
      BY <1>3, <3>1, <3>2, Zenon
    <3>. QED  BY <3>2, <3>3
  <2>. QED  BY <2>1
<1>. QED  BY <1>1, <1>6, <1>8

LEMMA QueryStringIs ==
  ASSUME NEW query,
         \A name \in DOMAIN query :
           /\ IsSequence(query[name])
           /\ \A k \in DOMAIN query[name] : query[name][k] \in DOMAIN LabelsOf
  PROVE  LET s == S!QueryString(query)
         IN  IsSequence(s) /\ (s # <<>> => s[1] = "?")
<1>. DEFINE V(name) == IF name \in DOMAIN query THEN query[name] ELSE <<>>
            One(name, x) == <<"&", name, "=">> \o LabelsOf[x]
            Parts(name, v) == [n \in DOMAIN v |-> One(name, v[n])]
            P(k) == FlattenSeq(Parts(ParameterOrder[k], V(ParameterOrder[k])))
            q == [k \in DOMAIN ParameterOrder |-> P(k)]
            all == FlattenSeq(q)
            s == IF all = <<>> THEN <<>> ELSE <<"?">> \o Tail(all)
<1>1. S!QueryString(query) = s
  <2>1. \A x : S!FlattenSeq(x) = FlattenSeq(x)
    BY DEF S!FlattenSeq, FlattenSeq
  <2>. QED  BY <2>1 DEF S!QueryString
<1>2. ASSUME NEW name, NEW x \in DOMAIN LabelsOf PROVE IsSequence(One(name, x))
  <2>1. IsSequence(LabelsOf[x])
    BY ScopeAssumption
  <2>2. IsSequence(<<"&", name, "=">>)
    <3>1. <<"&", name, "=">> \in Seq({"&", name, "="})
      OBVIOUS
    <3>. QED  BY <3>1, SequenceIs
  <2>. QED  BY <2>1, <2>2, ConcatByPlace DEF Together
<1>. HIDE DEF One
<1>3. ASSUME NEW name PROVE IsSequence(FlattenSeq(Parts(name, V(name))))
  <2>1. IsSequence(V(name)) /\ \A k \in DOMAIN V(name) : V(name)[k] \in DOMAIN LabelsOf
    <3>1. CASE name \in DOMAIN query
      BY <3>1
    <3>2. CASE name \notin DOMAIN query
      BY <3>2, EmptySequence
    <3>. QED  BY <3>1, <3>2
  <2>. DEFINE v == V(name)
              g == Parts(name, v)
  <2>. HIDE DEF V
  <2>2. Len(v) \in Nat /\ DOMAIN v = 1 .. Len(v)
    BY <2>1, SequenceFacts
  <2>3. g = [n \in 1 .. Len(v) |-> g[n]] /\ \A n \in 1 .. Len(v) : IsSequence(g[n])
    BY <1>2, <2>1, <2>2
  <2>. HIDE DEF g
  <2>. QED  BY <2>2, <2>3, FlatIsSequence DEF g
<1>4. IsSequence(all)
  <2>1. \A k : IsSequence(P(k))
    BY <1>3
  <2>2. Len(ParameterOrder) \in Nat /\ DOMAIN ParameterOrder = 1 .. Len(ParameterOrder)
    BY ScopeAssumption, SequenceFacts
  <2>. HIDE DEF P
  <2>3. q = [k \in 1 .. Len(ParameterOrder) |-> q[k]]
        /\ \A k \in 1 .. Len(ParameterOrder) : IsSequence(q[k])
    BY <2>1, <2>2
  <2>. HIDE DEF q
  <2>. QED  BY <2>2, <2>3, FlatIsSequence
<1>. HIDE DEF all
<1>5. CASE all = <<>>
  <2>1. s = <<>>
    BY <1>5
  <2>. QED  BY <1>1, <2>1, EmptySequence
<1>6. CASE all # <<>>
  <2>. DEFINE T == {all[k] : k \in DOMAIN all}
  <2>1. all \in Seq(T)
    BY <1>4 DEF IsSequence
  <2>. HIDE DEF T
  <2>2. Tail(all) \in Seq(T)
    BY <1>6, <2>1
  <2>3. IsSequence(Tail(all))
    BY <2>2, SequenceIs
  <2>. DEFINE r == Tail(all)
              w == <<"?">>
  <2>. HIDE DEF r
  <2>4. IsSequence(w) /\ Size(w) = 1 /\ w[1] = "?" /\ 1 \in 1 .. Size(w)
    BY ShortSequences
  <2>5. s = Together(w, r)
    BY <1>6 DEF Together, r
  <2>. HIDE DEF w
  <2>6. IsSequence(Together(w, r)) /\ Together(w, r)[1] = "?"
    BY <2>3, <2>4, ConcatByPlace DEF r
  <2>. QED  BY <1>1, <2>5, <2>6
<1>. QED  BY <1>5, <1>6

\* The path and the query of a key.
LEMMA KeyRest ==
  ASSUME NEW u, Plainly(u)
  PROVE  LET path == Key(u).path
             q == S!QueryString(Key(u).query)
         IN  /\ IsSequence(path) /\ \A n \in DOMAIN path : path[n] # "?"
             /\ IsSequence(q) /\ (q # <<>> => q[1] = "?")
             /\ S!Rest(Key(u)) = Together(path, q)
<1>. DEFINE path == Key(u).path
            query == Key(u).query
            q == S!QueryString(query)
<1>1. IsURL(u) /\ IsSequence(u.query) /\ \A n \in DOMAIN u.path : u.path[n] # "?"
  BY DEF Plainly, Range
<1>2. IsSequence(path) /\ \A n \in DOMAIN path : path[n] # "?"
  <2>1. path = IF IsAbs(u) /\ u.host # "" /\ u.path = <<>> THEN <<"/">> ELSE u.path
    BY <1>1, KeyFields, CanonicalFields DEF IsURL, IsAbs
  <2>2. IsSequence(u.path)
    BY <1>1 DEF IsURL
  <2>3. CASE path = <<"/">>
    <3>1. \A n \in DOMAIN <<"/">> : <<"/">>[n] # "?"
      OBVIOUS
    <3>. HIDE DEF path
    <3>. QED  BY <2>3, <3>1, SingletonSequence
  <2>4. CASE path = u.path
    BY <1>1, <2>2, <2>4
  <2>. QED  BY <2>1, <2>3, <2>4
<1>3. query = Parameters(u.query)
  BY <1>1, KeyFields
<1>4. \A n \in DOMAIN u.query : u.query[n].value \in DOMAIN LabelsOf
  BY DEF Plainly
<1>5. ASSUME NEW name \in DOMAIN query
      PROVE  /\ IsSequence(query[name])
             /\ \A k \in DOMAIN query[name] : query[name][k] \in DOMAIN LabelsOf
  <2>1. /\ IsSequence(Parameters(u.query)[name])
        /\ \A k \in DOMAIN Parameters(u.query)[name] :
             \E n \in DOMAIN u.query : Parameters(u.query)[name][k] = u.query[n].value
    BY <1>1, <1>3, <1>5, ParametersAre
  <2>. QED  BY <1>3, <1>4, <2>1
<1>. HIDE DEF query
<1>6. IsSequence(q) /\ (q # <<>> => q[1] = "?")
  BY <1>5, QueryStringIs
<1>7. S!Rest(Key(u)) = Together(path, q)
  BY DEF S!Rest, Together, query
<1>. QED  BY <1>2, <1>6, <1>7 DEF query

\* What follows the site in the key is there at its beginning.
LEMMA UnderIs ==
  ASSUME NEW r, Plainly(r), NEW u, Plainly(u)
  PROVE  IsPrefix(S!Rest(Key(r)), S!Rest(Key(u))) <=> S!Under(r, u)
<1>. DEFINE a == Key(r).path
            b == Key(u).path
            v == S!QueryString(Key(r).query)
            w == S!QueryString(Key(u).query)
<1>1. S!Under(r, u) <=> IF v = <<>> THEN IsPrefix(a, b) ELSE a = b /\ IsPrefix(v, w)
  <2>1. S!Key(r) = Key(r) /\ S!Key(u) = Key(u) /\ \A s, t : S!IsPrefix(s, t) <=> IsPrefix(s, t)
    BY ScopeOperators
  <2>. QED  BY <2>1, Zenon DEF S!Under
<1>2. /\ IsSequence(a) /\ \A n \in DOMAIN a : a[n] # "?"
      /\ IsSequence(v) /\ (v # <<>> => v[1] = "?")
      /\ S!Rest(Key(r)) = Together(a, v)
  BY KeyRest
<1>3. /\ IsSequence(b) /\ \A n \in DOMAIN b : b[n] # "?"
      /\ IsSequence(w) /\ (w # <<>> => w[1] = "?")
      /\ S!Rest(Key(u)) = Together(b, w)
  BY KeyRest
<1>. HIDE DEF a, b, v, w
<1>4. IsPrefix(Together(a, v), Together(b, w)) <=>
        IF v = <<>> THEN IsPrefix(a, b) ELSE a = b /\ IsPrefix(v, w)
  BY <1>2, <1>3, RestIsPrefix
<1>. QED  BY <1>1, <1>2, <1>3, <1>4

\* What follows the site in a string begins as the path does.
LEMMA RestBegins ==
  ASSUME NEW u, Plainly(u), Key(u).path # <<>>
  PROVE  /\ IsSequence(S!Rest(Key(u))) /\ S!Rest(Key(u)) # <<>>
         /\ S!Rest(Key(u))[1] = Key(u).path[1]
<1>. DEFINE path == Key(u).path
            q == S!QueryString(Key(u).query)
<1>1. IsSequence(path) /\ IsSequence(q) /\ S!Rest(Key(u)) = Together(path, q)
  BY KeyRest
<1>2. 1 <= Size(path)
  BY <1>1, FirstPlace
<1>. HIDE DEF path, q
<1>3. LET s == Together(path, q) IN IsSequence(s) /\ 1 <= Size(s) /\ s[1] = path[1]
  BY <1>1, <1>2, TogetherFirst
<1>4. Together(path, q) # <<>>
  <2>1. Size(<<>>) = 0
    BY ShortSequences
  <2>. QED  BY <1>3, <2>1
<1>. QED  BY <1>1, <1>3, <1>4 DEF path

LEMMA SitedHosted ==
  ASSUME NEW u, Sited(u), Plainly(u), Lower(u.host) \in DOMAIN LabelsOf
  PROVE  Hosted(Key(u))
<1>1. /\ Key(u).scheme = Lower(u.scheme) /\ Key(u).host = Lower(u.host)
      /\ Key(u).path = IF u.scheme # "" /\ u.host # "" /\ u.path = <<>>
                          THEN <<"/">> ELSE u.path
  BY KeyFields, CanonicalFields DEF Sited, IsURL
<1>2. Key(u).path # <<>> /\ Key(u).path[1] = "/"
  <2>1. CASE u.path = <<>>
    <3>1. Key(u).path = <<"/">>
      BY <1>1, <2>1 DEF Sited, IsAbs
    <3>. QED  BY <3>1
  <2>2. CASE u.path # <<>>
    BY <1>1, <2>2 DEF Sited
  <2>. QED  BY <2>1, <2>2
<1>3. Lower(u.scheme) # "" /\ Lower(u.host) # ""
  BY LowerTwice DEF Sited, IsAbs
<1>. QED  BY <1>1, <1>2, <1>3, RestBegins DEF Hosted

\* A root is the beginning of a request exactly when it has its site and the
\* request is under it.
LEMMA RootIsPrefix ==
  ASSUME NEW given \in RootLists, NEW n \in DOMAIN given, NEW u \in Requests
  PROVE  IsPrefix(S!String(Key(given[n])), S!String(Key(u))) <=>
           SameSite(Canonical(given[n]), Canonical(u)) /\ S!Under(given[n], u)
<1>. DEFINE r == given[n]
<1>1. /\ Plainly(r)
      /\ r.host # "" => Lower(r.host) \in DOMAIN LabelsOf
      /\ Sited(r) \/
           /\ ~IsAbs(r)
           /\ r.host = "" => r.path # <<>>
           /\ Lower(u.scheme) # IF r.host = "" THEN r.path[1] ELSE "//"
  BY ScopeAssumption
<1>2. Plainly(u) /\ Hosted(Key(u)) /\ IsAbs(u)
  BY ScopeAssumption, SitedHosted DEF Sited
<1>. HIDE DEF r
<1>3. ASSUME NEW x, Plainly(x)
      PROVE  /\ Key(x).scheme = Canonical(x).scheme
             /\ Key(x).host = Canonical(x).host
             /\ Key(x).port = Canonical(x).port
             /\ Key(x).path = Canonical(x).path
  BY <1>3, KeyFields DEF Plainly
<1>4. CASE Sited(r)
  <2>1. Hosted(Key(r))
    BY <1>1, <1>4, SitedHosted DEF Sited
  <2>2. IsPrefix(S!String(Key(r)), S!String(Key(u))) <=>
          SameSite(Key(r), Key(u)) /\ IsPrefix(S!Rest(Key(r)), S!Rest(Key(u)))
    BY <1>2, <2>1, PrefixHasSite
  <2>3. IsPrefix(S!Rest(Key(r)), S!Rest(Key(u))) <=> S!Under(r, u)
    BY <1>1, <1>2, UnderIs
  <2>4. SameSite(Key(r), Key(u)) <=> SameSite(Canonical(r), Canonical(u))
    BY <1>1, <1>2, <1>3 DEF SameSite
  <2>. QED  BY <2>2, <2>3, <2>4 DEF r
<1>5. CASE ~Sited(r)
  <2>1. /\ r.scheme = "" /\ IsURL(r)
        /\ r.host = "" => r.path # <<>>
        /\ r.host # "" => Lower(r.host) \in DOMAIN LabelsOf
        /\ Lower(u.scheme) # IF r.host = "" THEN r.path[1] ELSE "//"
    BY <1>1, <1>5 DEF IsAbs, Plainly
  <2>2. /\ Key(r).scheme = "" /\ Key(r).host = Lower(r.host) /\ Key(r).path = r.path
        /\ Canonical(r).scheme = ""
        /\ Lower(r.host) = "" <=> r.host = ""
    <3>1. /\ Canonical(r).scheme = Lower(r.scheme) /\ Canonical(r).host = Lower(r.host)
          /\ Canonical(r).path = IF r.scheme # "" /\ r.host # "" /\ r.path = <<>>
                                   THEN <<"/">> ELSE r.path
      BY <2>1, CanonicalFields
    <3>2. Lower(r.scheme) = "" /\ (Lower(r.host) = "" <=> r.host = "")
      BY <2>1, LowerTwice
    <3>. QED  BY <1>1, <1>3, <2>1, <3>1, <3>2 DEF IsURL
  <2>. DEFINE s == S!String(Key(r))
              t == S!String(Key(u))
  <2>3. /\ IsSequence(s) /\ 1 <= Size(s)
        /\ s[1] = IF r.host = "" THEN r.path[1] ELSE "//"
    <3>1. /\ IsSequence(S!Rest(Key(r)))
          /\ Key(r).path # <<>> => S!Rest(Key(r)) # <<>> /\ S!Rest(Key(r))[1] = Key(r).path[1]
      <4>1. IsSequence(S!Rest(Key(r)))
        <5>. DEFINE path == Key(r).path
                    q == S!QueryString(Key(r).query)
        <5>1. IsSequence(path) /\ IsSequence(q) /\ S!Rest(Key(r)) = Together(path, q)
          BY <1>1, KeyRest
        <5>. HIDE DEF path, q
        <5>. QED  BY <5>1, ConcatByPlace
      <4>. QED  BY <1>1, <4>1, RestBegins
    <3>2. /\ IsSequence(s) /\ 1 <= Size(s)
          /\ s[1] = IF Key(r).host = "" THEN S!Rest(Key(r))[1] ELSE "//"
      BY <2>1, <2>2, <3>1, RelativeString
    <3>3. CASE r.host = ""
      <4>1. Key(r).host = "" /\ Key(r).path = r.path /\ Key(r).path # <<>>
        BY <2>1, <2>2, <3>3
      <4>2. s[1] = Key(r).path[1]
        BY <3>1, <3>2, <4>1
      <4>. HIDE DEF s
      <4>3. s[1] = r.path[1]
        BY <4>1, <4>2
      <4>. QED  BY <3>2, <3>3, <4>3
    <3>4. CASE r.host # ""
      BY <2>2, <3>2, <3>4
    <3>. QED  BY <3>3, <3>4
  <2>4. Key(u).scheme = Lower(u.scheme) /\ Canonical(u).scheme = Lower(u.scheme)
    BY <1>2, <1>3, CanonicalFields DEF Plainly
  <2>5. IsSequence(t) /\ t[1] = Lower(u.scheme)
    BY <1>2, <2>4, StringPieces
  <2>6. ~IsPrefix(s, t)
    <3>1. s[1] # t[1]
      BY <2>1, <2>3, <2>5
    <3>2. 1 \in 1 .. Size(s)
      BY <2>3, FirstPlace
    <3>. HIDE DEF s, t
    <3>. QED  BY <2>3, <2>5, <3>1, <3>2, PrefixByPlace
  <2>7. ~SameSite(Canonical(r), Canonical(u))
    BY <1>2, <2>2, <2>4, LowerTwice DEF SameSite, IsAbs
  <2>. QED  BY <2>6, <2>7 DEF r
<1>. QED  BY <1>4, <1>5

\* What is followed has the site of a root that names one and begins with its
\* path, or has it and begins with its parameters, and all such URLs are followed
\* (main.go:164-172, 218-226).
THEOREM FollowedHolds == Spec => []FollowedIsUnderRoot
<1>1. ASSUME SInv PROVE FollowedIsUnderRoot
  <2>. SUFFICES ASSUME request # <<>>
                PROVE  LET u == request[1]
                           near == {n \in DOMAIN roots : S!Origin(roots[n]) = S!Origin(u)}
                       IN  wire # <<>> <=> \E n \in near : S!Under(roots[n], u)
    BY DEF FollowedIsUnderRoot, S!FollowedIsUnderRoot
  <2>1. PICK u \in Requests : /\ request = <<u>>
                              /\ wire = IF S!FollowURL(u) THEN <<S!Exchange(u)>> ELSE <<>>
    BY <1>1 DEF SInv
  <2>2. wire # <<>> <=> S!FollowURL(u)
    BY <2>1
  <2>3. S!FollowURL(u) <=>
          \E n \in DOMAIN roots : IsPrefix(S!String(Key(roots[n])), S!String(Key(u)))
    BY ScopeOperators DEF S!FollowURL
  <2>4. S!FollowURL(u) <=>
          \E n \in DOMAIN roots :
            SameSite(Canonical(roots[n]), Canonical(u)) /\ S!Under(roots[n], u)
    BY <1>1, <2>3, RootIsPrefix DEF SInv
  <2>5. \A x, y : S!Origin(x) = S!Origin(y) <=> SameSite(Canonical(x), Canonical(y))
    BY ScopeOperators DEF S!Origin, SameSite
  <2>6. request[1] = u
    BY <2>1
  <2>. QED  BY <2>2, <2>4, <2>5, <2>6, ScopeOperators
<1>2. ScopeIdle => FollowedIsUnderRoot
  BY DEF ScopeIdle, FollowedIsUnderRoot, S!FollowedIsUnderRoot
<1>3. ScopeInv => FollowedIsUnderRoot
  BY <1>1, <1>2 DEF ScopeInv
<1>. QED  BY <1>3, ScopeInvHolds, PTL
-----------------------------------------------------------------------------
(* diff.                                                                   *)

URLAt(list, n) == D!CanonicalURL(list[n])
RankAt(list, n) == Rank[URLAt(list, n)]

ListType(list) ==
  /\ IsSequence(list)
  /\ \A k \in DOMAIN list :
       /\ URLAt(list, k) \in DOMAIN Rank
       /\ IsSequence(list[k].body.lines) /\ IsSequence(list[k].headers)
       /\ \E binary \in BOOLEAN :
            list[k].body = [lines |-> list[k].body.lines,
                            ends |-> list[k].body.ends, binary |-> binary]

SortedList(list) ==
  \A m, n \in DOMAIN list : m < n => ~(RankAt(list, n) < RankAt(list, m))

\* There is an entry of u among those passed that is in no pair.
Alone(list, n, P, u) == \E m \in 1 .. n - 1 : m \notin P /\ URLAt(list, m) = u

\* An entry passed alone has no partner ahead, nor one that was passed alone;
\* P and Q are the entries in pairs.
Pairing(A, B, m, n, P, Q) ==
  /\ P \subseteq 1 .. m - 1 /\ Q \subseteq 1 .. n - 1
  /\ \A u \in DOMAIN Rank :
       /\ Alone(A, m, P, u) => \A k \in n .. Len(B) : URLAt(B, k) # u
       /\ Alone(B, n, Q, u) => \A k \in m .. Len(A) : URLAt(A, k) # u
       /\ ~(Alone(A, m, P, u) /\ Alone(B, n, Q, u))
       /\ D!URLCount(A, P, u) = D!URLCount(B, Q, u)

LEMMA PairingSymmetric ==
  ASSUME NEW A, NEW B, NEW m, NEW n, NEW P, NEW Q, Pairing(A, B, m, n, P, Q)
  PROVE  Pairing(B, A, n, m, Q, P)
BY DEF Pairing

LEMMA PairingOnly ==
  ASSUME NEW A, ListType(A), NEW B, ListType(B), SortedList(B),
         NEW m \in 1 .. Len(A), NEW n \in 1 .. Len(B) + 1, NEW P, NEW Q,
         Pairing(A, B, m, n, P, Q),
         n <= Len(B) => RankAt(A, m) < RankAt(B, n)
  PROVE  Pairing(A, B, m + 1, n, P, Q)
<1>1. /\ Len(A) \in Nat /\ DOMAIN A = 1 .. Len(A)
      /\ Len(B) \in Nat /\ DOMAIN B = 1 .. Len(B)
  BY SequenceFacts DEF ListType
<1>2. P \subseteq 1 .. m - 1 /\ Q \subseteq 1 .. n - 1 /\ m \notin P
  BY <1>1 DEF Pairing
<1>. DEFINE v == URLAt(A, m)
<1>3. \A u : Alone(A, m + 1, P, u) <=> Alone(A, m, P, u) \/ u = v
  <2>1. \A k : k \in 1 .. m + 1 - 1 <=> k \in 1 .. m - 1 \/ k = m
    BY <1>1
  <2>. QED  BY <1>2, <2>1 DEF Alone
<1>4. ASSUME NEW k \in n .. Len(B) PROVE URLAt(B, k) # v
  <2>1. n \in DOMAIN B /\ k \in DOMAIN B /\ n <= Len(B)
    BY <1>1, <1>4
  <2>2. RankAt(A, m) \in Int /\ RankAt(B, n) \in Int /\ RankAt(B, k) \in Int
    BY <1>1, <2>1, DiffAssumption DEF ListType, RankAt
  <2>3. RankAt(A, m) < RankAt(B, n)
    BY <2>1
  <2>4. n < k => ~(RankAt(B, k) < RankAt(B, n))
    BY <2>1 DEF SortedList
  <2>5. RankAt(A, m) < RankAt(B, k)
    <3>1. n < k \/ n = k
      BY <1>1, <1>4
    <3>. QED  BY <2>2, <2>3, <2>4, <3>1
  <2>6. RankAt(A, m) # RankAt(B, k)
    BY <2>2, <2>5
  <2>. QED  BY <2>6 DEF RankAt
<1>. HIDE DEF v
<1>5. ASSUME NEW u \in DOMAIN Rank
      PROVE  /\ Alone(A, m + 1, P, u) => \A k \in n .. Len(B) : URLAt(B, k) # u
             /\ Alone(B, n, Q, u) => \A k \in m + 1 .. Len(A) : URLAt(A, k) # u
             /\ ~(Alone(A, m + 1, P, u) /\ Alone(B, n, Q, u))
             /\ D!URLCount(A, P, u) = D!URLCount(B, Q, u)
  <2>1. /\ Alone(A, m, P, u) => \A k \in n .. Len(B) : URLAt(B, k) # u
        /\ Alone(B, n, Q, u) => \A k \in m .. Len(A) : URLAt(A, k) # u
        /\ ~(Alone(A, m, P, u) /\ Alone(B, n, Q, u))
        /\ D!URLCount(A, P, u) = D!URLCount(B, Q, u)
    BY DEF Pairing
  <2>2. m \in m .. Len(A) /\ \A k \in m + 1 .. Len(A) : k \in m .. Len(A)
    BY <1>1
  <2>3. Alone(B, n, Q, u) => u # v
    BY <2>1, <2>2 DEF v
  <2>. QED  BY <1>3, <1>4, <2>1, <2>2, <2>3
<1>6. P \subseteq 1 .. (m + 1) - 1
  BY <1>1, <1>2
<1>. QED  BY <1>2, <1>5, <1>6 DEF Pairing

LEMMA SameCardinality == \A Z : D!Cardinality(Z) = Cardinality(Z)
BY DEF D!Cardinality, Cardinality, D!IsFiniteSet, IsFiniteSet

With(P, m) == P \cup {m}

\* One more of them.
LEMMA CountAdded ==
  ASSUME NEW A, NEW m, NEW P, IsFiniteSet(P), m \notin P, NEW u
  PROVE  /\ D!URLCount(A, P, u) \in Nat
         /\ URLAt(A, m) = u =>
              D!URLCount(A, With(P, m), u) = D!URLCount(A, P, u) + 1
<1>. DEFINE Z == {n \in P : URLAt(A, n) = u}
            T == {n \in P \cup {m} : URLAt(A, n) = u}
<1>1. D!URLCount(A, P, u) = Cardinality(Z) /\ D!URLCount(A, With(P, m), u) = Cardinality(T)
  BY Zenon, SameCardinality DEF D!URLCount, URLAt, With
<1>2. IsFiniteSet(Z) /\ Cardinality(Z) \in Nat
  <2>1. Z \subseteq P
    OBVIOUS
  <2>. HIDE DEF Z
  <2>. QED  BY <2>1, FS_Subset, FS_CardinalityType
<1>3. m \notin Z
  OBVIOUS
<1>4. T = IF URLAt(A, m) = u THEN Z \cup {m} ELSE Z
  OBVIOUS
<1>. HIDE DEF Z, T
<1>5. Cardinality(Z \cup {m}) = Cardinality(Z) + 1
  BY <1>2, <1>3, FS_AddElement
<1>. QED  BY <1>1, <1>2, <1>4, <1>5

LEMMA CountsAdded ==
  ASSUME NEW A, NEW m, NEW P, IsFiniteSet(P), m \notin P,
         NEW B, NEW n, NEW Q, IsFiniteSet(Q), n \notin Q,
         NEW u, D!URLCount(A, P, u) = D!URLCount(B, Q, u),
         URLAt(A, m) = URLAt(B, n)
  PROVE  D!URLCount(A, With(P, m), u) = D!URLCount(B, With(Q, n), u)
<1>1. CASE URLAt(A, m) = u
  <2>1. D!URLCount(A, With(P, m), u) = D!URLCount(A, P, u) + 1
    BY <1>1, CountAdded
  <2>2. URLAt(B, n) = u
    BY <1>1
  <2>3. D!URLCount(B, With(Q, n), u) = D!URLCount(B, Q, u) + 1
    BY <2>2, CountAdded
  <2>. QED  BY <2>1, <2>3
<1>2. CASE URLAt(A, m) # u
  <2>1. D!URLCount(A, With(P, m), u) = D!URLCount(A, P, u)
    <3>1. {k \in With(P, m) : URLAt(A, k) = u} = {k \in P : URLAt(A, k) = u}
      BY <1>2 DEF With
    <3>. QED  BY <3>1, Zenon DEF D!URLCount, URLAt
  <2>2. D!URLCount(B, With(Q, n), u) = D!URLCount(B, Q, u)
    <3>1. {k \in With(Q, n) : URLAt(B, k) = u} = {k \in Q : URLAt(B, k) = u}
      BY <1>2 DEF With
    <3>. QED  BY <3>1, Zenon DEF D!URLCount, URLAt
  <2>. QED  BY <2>1, <2>2
<1>. QED  BY <1>1, <1>2

LEMMA PairingBoth ==
  ASSUME NEW A, ListType(A), NEW B, ListType(B),
         NEW m \in 1 .. Len(A), NEW n \in 1 .. Len(B), NEW P, NEW Q,
         Pairing(A, B, m, n, P, Q),
         URLAt(A, m) = URLAt(B, n)
  PROVE  Pairing(A, B, m + 1, n + 1, With(P, m), With(Q, n))
<1>1. /\ Len(A) \in Nat /\ DOMAIN A = 1 .. Len(A) /\ m \in Nat
      /\ Len(B) \in Nat /\ DOMAIN B = 1 .. Len(B) /\ n \in Nat
  BY SequenceFacts DEF ListType
<1>2. P \subseteq 1 .. m - 1 /\ Q \subseteq 1 .. n - 1
  BY DEF Pairing
<1>3. \A k : /\ k \in 1 .. m + 1 - 1 <=> k \in 1 .. m - 1 \/ k = m
             /\ k \in 1 .. n + 1 - 1 <=> k \in 1 .. n - 1 \/ k = n
             /\ k \in 1 .. m - 1 => k # m
             /\ k \in 1 .. n - 1 => k # n
  BY <1>1
<1>4. \A u : Alone(A, m + 1, With(P, m), u) <=> Alone(A, m, P, u)
  BY <1>3 DEF Alone, With
<1>5. \A u : Alone(B, n + 1, With(Q, n), u) <=> Alone(B, n, Q, u)
  BY <1>3 DEF Alone, With
<1>6. With(P, m) \subseteq 1 .. (m + 1) - 1 /\ With(Q, n) \subseteq 1 .. (n + 1) - 1
  BY <1>2, <1>3 DEF With
<1>a. IsFiniteSet(P) /\ IsFiniteSet(Q) /\ m \notin P /\ n \notin Q
  <2>1. IsFiniteSet(1 .. m - 1) /\ IsFiniteSet(1 .. n - 1)
    <3>1. m - 1 \in Int /\ n - 1 \in Int /\ 1 \in Int
      BY <1>1
    <3>. QED  BY <3>1, FS_Interval, Zenon
  <2>2. m \notin 1 .. m - 1 /\ n \notin 1 .. n - 1
    BY <1>1
  <2>. QED  BY <1>2, <2>1, <2>2, FS_Subset
<1>7. ASSUME NEW u \in DOMAIN Rank
      PROVE  D!URLCount(A, With(P, m), u) = D!URLCount(B, With(Q, n), u)
  <2>1. D!URLCount(A, P, u) = D!URLCount(B, Q, u)
    BY <1>7 DEF Pairing
  <2>. QED  BY <1>a, <2>1, CountsAdded
<1>8. /\ \A k \in m + 1 .. Len(A) : k \in m .. Len(A)
      /\ \A k \in n + 1 .. Len(B) : k \in n .. Len(B)
  BY <1>1
<1>. QED  BY <1>4, <1>5, <1>6, <1>7, <1>8 DEF Pairing

\* In the end one of the two lists has no entry of u that is alone.
LEMMA PairingEnds ==
  ASSUME NEW A, ListType(A), NEW B, ListType(B), NEW P, NEW Q,
         Pairing(A, B, Len(A) + 1, Len(B) + 1, P, Q), NEW u \in DOMAIN Rank
  PROVE  LET inA == D!URLCount(A, DOMAIN A, u)
             inB == D!URLCount(B, DOMAIN B, u)
         IN  /\ D!URLCount(A, P, u) = D!URLCount(B, Q, u)
             /\ D!URLCount(A, P, u) = IF inA < inB THEN inA ELSE inB
<1>1. /\ Len(A) \in Nat /\ DOMAIN A = 1 .. Len(A)
      /\ Len(B) \in Nat /\ DOMAIN B = 1 .. Len(B)
  BY SequenceFacts DEF ListType
<1>2. Len(A) + 1 - 1 = Len(A) /\ Len(B) + 1 - 1 = Len(B)
  BY <1>1
<1>3. P \subseteq DOMAIN A /\ Q \subseteq DOMAIN B
  BY <1>1, <1>2 DEF Pairing
<1>4. D!URLCount(A, P, u) = D!URLCount(B, Q, u)
  BY DEF Pairing
<1>5. ASSUME NEW list, list \in {A, B}, NEW R, R \subseteq DOMAIN list
      PROVE  /\ D!URLCount(list, R, u) \in Nat
             /\ D!URLCount(list, DOMAIN list, u) \in Nat
             /\ D!URLCount(list, R, u) <= D!URLCount(list, DOMAIN list, u)
  <2>. DEFINE Z == {n \in R : URLAt(list, n) = u}
              T == {n \in DOMAIN list : URLAt(list, n) = u}
  <2>1. /\ D!URLCount(list, R, u) = Cardinality(Z)
        /\ D!URLCount(list, DOMAIN list, u) = Cardinality(T)
    BY Zenon, SameCardinality DEF D!URLCount, URLAt
  <2>2. Z \subseteq T /\ T \subseteq DOMAIN list
    BY <1>5
  <2>3. IsFiniteSet(DOMAIN list)
    <3>1. IsFiniteSet(1 .. Len(A)) /\ IsFiniteSet(1 .. Len(B))
      BY <1>1, FS_Interval
    <3>. QED  BY <1>1, <1>5, <3>1
  <2>. HIDE DEF Z, T
  <2>. QED  BY <2>1, <2>2, <2>3, FS_Subset, FS_CardinalityType
<1>6. ASSUME ~Alone(A, Len(A) + 1, P, u)
      PROVE  D!URLCount(A, P, u) = D!URLCount(A, DOMAIN A, u)
  <2>1. {n \in P : URLAt(A, n) = u} = {n \in DOMAIN A : URLAt(A, n) = u}
    BY <1>1, <1>2, <1>3, <1>6 DEF Alone
  <2>. QED  BY <2>1 DEF D!URLCount, URLAt
<1>7. ASSUME ~Alone(B, Len(B) + 1, Q, u)
      PROVE  D!URLCount(B, Q, u) = D!URLCount(B, DOMAIN B, u)
  <2>1. {n \in Q : URLAt(B, n) = u} = {n \in DOMAIN B : URLAt(B, n) = u}
    BY <1>1, <1>2, <1>3, <1>7 DEF Alone
  <2>. QED  BY <2>1 DEF D!URLCount, URLAt
<1>8. ~Alone(A, Len(A) + 1, P, u) \/ ~Alone(B, Len(B) + 1, Q, u)
  BY DEF Pairing
<1>. DEFINE a == D!URLCount(A, P, u)
            b == D!URLCount(B, Q, u)
            inA == D!URLCount(A, DOMAIN A, u)
            inB == D!URLCount(B, DOMAIN B, u)
<1>9. /\ a \in Nat /\ inA \in Nat /\ a <= inA
      /\ b \in Nat /\ inB \in Nat /\ b <= inB
      /\ a = b /\ (a = inA \/ b = inB)
  BY <1>3, <1>4, <1>5, <1>6, <1>7, <1>8
<1>. HIDE DEF a, b, inA, inB
<1>10. a = IF inA < inB THEN inA ELSE inB
  BY <1>9
<1>. QED  BY <1>4, <1>10 DEF a, b, inA, inB

\* The reports of both, and the entries in them.
PairsOf(r) == {n \in DOMAIN r : r[n].side = "both"}
PairedA(r) == {r[n].a : n \in PairsOf(r)}
PairedB(r) == {r[n].b : n \in PairsOf(r)}

\* What Compare reports of the entries at a and b.
BothReport(A, B, a, b) ==
  LET x == A[a]
      y == B[b]
      body == D!BodyReport(x, y)
  IN  [side |-> "both", a |-> a, b |-> b, body |-> body,
       diff |-> body = "text" /\ D!splitLines(x.body.lines) # D!splitLines(y.body.lines),
       status |-> x.status # y.status,
       headers |-> Headers /\ body # "ignored"
                   /\ D!splitLines(x.headers) # D!splitLines(y.headers)]

Reported(A, B, m, n, x) ==
  \/ \E a \in 1 .. m - 1 : x = D!Only("A", a)
  \/ \E b \in 1 .. n - 1 : x = D!Only("B", b)
  \/ \E a \in 1 .. m - 1, b \in 1 .. n - 1 :
       URLAt(A, a) = URLAt(B, b) /\ x = BothReport(A, B, a, b)

Reports(A, B, m, n, r) ==
  /\ IsSequence(r)
  /\ \A k \in DOMAIN r : Reported(A, B, m, n, r[k])
  /\ D!Positions(r, "a") = 1 .. m - 1
  /\ D!Positions(r, "b") = 1 .. n - 1
  /\ Len(r) = (m - 1) + (n - 1) - Cardinality(PairsOf(r))

LEMMA ReportFields ==
  /\ \A a : LET x == D!Only("A", a)
            IN  x.side = "A" /\ x.a = a /\ x.b = 0
  /\ \A b : LET x == D!Only("B", b)
            IN  x.side = "B" /\ x.a = 0 /\ x.b = b
  /\ \A A, B, a, b : LET x == BothReport(A, B, a, b)
                     IN  x.side = "both" /\ x.a = a /\ x.b = b
<1>1. \A a : LET x == D!Only("A", a) IN x.side = "A" /\ x.a = a /\ x.b = 0
  BY DEF D!Only
<1>2. \A b : LET x == D!Only("B", b) IN x.side = "B" /\ x.a = 0 /\ x.b = b
  BY DEF D!Only
<1>3. \A A, B, a, b : LET x == BothReport(A, B, a, b)
                      IN  x.side = "both" /\ x.a = a /\ x.b = b
  BY DEF BothReport
<1>. QED  BY <1>1, <1>2, <1>3

Extended(r, x) == Append(r, x)

\* t is r with the report x appended.
Appended(r, x, t) ==
  /\ IsSequence(t) /\ Len(t) = Len(r) + 1
  /\ DOMAIN t = DOMAIN r \cup {Len(t)}
  /\ \A k \in DOMAIN r : t[k] = r[k]
  /\ t[Len(t)] = x
  /\ D!Positions(t, "a") = D!Positions(r, "a") \cup ({x.a} \ {0})
  /\ D!Positions(t, "b") = D!Positions(r, "b") \cup ({x.b} \ {0})
  /\ x.side # "both" =>
       /\ PairsOf(t) = PairsOf(r)
       /\ PairedA(t) = PairedA(r) /\ PairedB(t) = PairedB(r)
  /\ x.side = "both" =>
       /\ PairsOf(t) = PairsOf(r) \cup {Len(t)}
       /\ PairedA(t) = With(PairedA(r), x.a)
       /\ PairedB(t) = With(PairedB(r), x.b)

LEMMA ReportAppended ==
  ASSUME NEW r, IsSequence(r), NEW x, NEW t, t = Extended(r, x)
  PROVE  Appended(r, x, t)
<1>. DEFINE l == Len(t)
<1>1. /\ IsSequence(t) /\ Len(t) = Len(r) + 1
      /\ DOMAIN t = DOMAIN r \cup {l}
      /\ \A k \in DOMAIN r : t[k] = r[k]
      /\ t[l] = x
      /\ l \notin DOMAIN r
  <2>1. /\ IsSequence(t) /\ Len(t) = Len(r) + 1 /\ DOMAIN t = 1 .. Len(r) + 1
        /\ \A n \in 1 .. Len(r) : t[n] = r[n]
        /\ t[Len(r) + 1] = x
    BY AppendSequence DEF Extended
  <2>2. Len(r) \in Nat /\ DOMAIN r = 1 .. Len(r)
    BY SequenceFacts
  <2>3. 1 .. Len(r) + 1 = 1 .. Len(r) \cup {Len(r) + 1} /\ Len(r) + 1 \notin 1 .. Len(r)
    BY <2>2
  <2>. QED  BY <2>1, <2>2, <2>3
<1>. HIDE DEF l
<1>2. D!Positions(t, "a") = D!Positions(r, "a") \cup ({x.a} \ {0})
  BY <1>1 DEF D!Positions
<1>3. D!Positions(t, "b") = D!Positions(r, "b") \cup ({x.b} \ {0})
  BY <1>1 DEF D!Positions
<1>4. PairsOf(t) = IF x.side = "both" THEN PairsOf(r) \cup {l} ELSE PairsOf(r)
  BY <1>1 DEF PairsOf
<1>5. PairsOf(r) \subseteq DOMAIN r
  BY DEF PairsOf
<1>6. CASE x.side # "both"
  <2>1. PairsOf(t) = PairsOf(r)
    BY <1>4, <1>6
  <2>2. PairedA(t) = PairedA(r) /\ PairedB(t) = PairedB(r)
    BY <1>1, <1>5, <2>1 DEF PairedA, PairedB
  <2>. QED  BY <1>1, <1>2, <1>3, <1>6, <2>1, <2>2 DEF l, Appended
<1>7. CASE x.side = "both"
  <2>1. PairsOf(t) = PairsOf(r) \cup {l}
    BY <1>4, <1>7
  <2>2. PairedA(t) = With(PairedA(r), x.a)
    BY <1>1, <1>5, <2>1 DEF PairedA, With
  <2>3. PairedB(t) = With(PairedB(r), x.b)
    BY <1>1, <1>5, <2>1 DEF PairedB, With
  <2>. QED  BY <1>1, <1>2, <1>3, <1>7, <2>1, <2>2, <2>3 DEF l, Appended
<1>. QED  BY <1>6, <1>7

\* A report more, of what the walk passes from m and n to p and q.
LEMMA ReportsStep ==
  ASSUME NEW A, NEW B, NEW m \in Nat \ {0}, NEW n \in Nat \ {0}, NEW r,
         Reports(A, B, m, n, r),
         NEW p \in {m, m + 1}, NEW q \in {n, n + 1}, NEW x,
         Reported(A, B, p, q, x),
         p = m + 1 \/ q = n + 1,
         x.a = IF p = m THEN 0 ELSE m,
         x.b = IF q = n THEN 0 ELSE n,
         x.side = "both" <=> p = m + 1 /\ q = n + 1,
         NEW t, t = Extended(r, x)
  PROVE  Reports(A, B, p, q, t)
<1>1. /\ IsSequence(r)
      /\ \A k \in DOMAIN r : Reported(A, B, m, n, r[k])
      /\ D!Positions(r, "a") = 1 .. m - 1
      /\ D!Positions(r, "b") = 1 .. n - 1
      /\ Len(r) = (m - 1) + (n - 1) - Cardinality(PairsOf(r))
  BY DEF Reports
<1>2. /\ IsSequence(t) /\ Len(t) = Len(r) + 1
      /\ DOMAIN t = DOMAIN r \cup {Len(t)}
      /\ \A k \in DOMAIN r : t[k] = r[k]
      /\ t[Len(t)] = x
      /\ D!Positions(t, "a") = D!Positions(r, "a") \cup ({x.a} \ {0})
      /\ D!Positions(t, "b") = D!Positions(r, "b") \cup ({x.b} \ {0})
      /\ x.side # "both" => PairsOf(t) = PairsOf(r)
      /\ x.side = "both" => PairsOf(t) = PairsOf(r) \cup {Len(t)}
  <2>1. IsSequence(r)
    BY <1>1
  <2>2. Appended(r, x, t)
    BY <2>1, ReportAppended
  <2>. QED  BY <2>2 DEF Appended
<1>3. 1 .. m - 1 \subseteq 1 .. p - 1 /\ 1 .. n - 1 \subseteq 1 .. q - 1
  OBVIOUS
<1>4. \A k \in DOMAIN t : Reported(A, B, p, q, t[k])
  <2>1. \A y : Reported(A, B, m, n, y) => Reported(A, B, p, q, y)
    BY <1>3 DEF Reported
  <2>. QED  BY <1>1, <1>2, <2>1
<1>5. D!Positions(t, "a") = 1 .. p - 1
  <2>1. CASE p = m
    BY <1>1, <1>2, <2>1
  <2>2. CASE p = m + 1
    <3>1. x.a = m /\ m # 0
      BY <2>2
    <3>2. 1 .. p - 1 = (1 .. m - 1) \cup {m}
      BY <2>2
    <3>. QED  BY <1>1, <1>2, <3>1, <3>2
  <2>. QED  BY <2>1, <2>2
<1>6. D!Positions(t, "b") = 1 .. q - 1
  <2>1. CASE q = n
    BY <1>1, <1>2, <2>1
  <2>2. CASE q = n + 1
    <3>1. x.b = n /\ n # 0
      BY <2>2
    <3>2. 1 .. q - 1 = (1 .. n - 1) \cup {n}
      BY <2>2
    <3>. QED  BY <1>1, <1>2, <3>1, <3>2
  <2>. QED  BY <2>1, <2>2
<1>7. /\ IsFiniteSet(PairsOf(r)) /\ Cardinality(PairsOf(r)) \in Nat
      /\ Len(r) \in Nat /\ Len(t) \notin PairsOf(r)
  <2>1. Len(r) \in Nat /\ DOMAIN r = 1 .. Len(r)
    BY <1>1, SequenceFacts
  <2>2. IsFiniteSet(1 .. Len(r)) /\ Len(t) \notin 1 .. Len(r)
    BY <1>2, <2>1, FS_Interval
  <2>3. PairsOf(r) \subseteq 1 .. Len(r)
    BY <2>1 DEF PairsOf
  <2>. QED  BY <2>1, <2>2, <2>3, FS_Subset, FS_CardinalityType
<1>8. Len(t) = (p - 1) + (q - 1) - Cardinality(PairsOf(t))
  <2>1. CASE x.side = "both"
    <3>1. Cardinality(PairsOf(t)) = Cardinality(PairsOf(r)) + 1
      <4>1. PairsOf(t) = PairsOf(r) \cup {Len(t)}
        BY <1>2, <2>1
      <4>2. Cardinality(PairsOf(r) \cup {Len(t)}) =
              IF Len(t) \in PairsOf(r) THEN Cardinality(PairsOf(r)) ELSE Cardinality(PairsOf(r)) + 1
        BY <1>7, FS_AddElement, Zenon
      <4>. QED  BY <1>7, <4>1, <4>2
    <3>2. p = m + 1 /\ q = n + 1
      BY <2>1
    <3>. QED  BY <1>1, <1>2, <1>7, <3>1, <3>2, SMTT(30)
  <2>2. CASE x.side # "both"
    <3>1. Cardinality(PairsOf(t)) = Cardinality(PairsOf(r))
      BY <1>2, <2>2
    <3>2. CASE p = m + 1 /\ q = n
      BY <1>1, <1>2, <1>7, <3>1, <3>2
    <3>3. CASE p = m /\ q = n + 1
      BY <1>1, <1>2, <1>7, <3>1, <3>3
    <3>4. ~(p = m + 1 /\ q = n + 1)
      BY <2>2
    <3>. QED  BY <3>2, <3>3, <3>4
  <2>. QED  BY <2>1, <2>2
<1>. QED  BY <1>2, <1>4, <1>5, <1>6, <1>8 DEF Reports

\* What the walk keeps: the reports account for what it passed, and pair it
\* as far as there is something to pair.
Walked(A, B, m, n, r) ==
  /\ Reports(A, B, m, n, r)
  /\ Pairing(A, B, m, n, PairedA(r), PairedB(r))

LEMMA WalkBegins == ASSUME NEW A, NEW B PROVE Walked(A, B, 1, 1, <<>>)
<1>1. /\ IsSequence(<<>>) /\ DOMAIN <<>> = {} /\ Len(<<>>) = 0
  BY EmptySequence
<1>2. PairsOf(<<>>) = {}
  BY <1>1 DEF PairsOf
<1>3. PairedA(<<>>) = {} /\ PairedB(<<>>) = {}
  BY <1>2 DEF PairedA, PairedB
<1>4. D!Positions(<<>>, "a") = {} /\ D!Positions(<<>>, "b") = {}
  BY <1>1 DEF D!Positions
<1>5. 1 .. 1 - 1 = {}
  OBVIOUS
<1>6. Cardinality({}) = 0
  BY FS_EmptySet
<1>7. Reports(A, B, 1, 1, <<>>)
  <2>1. Len(<<>>) = (1 - 1) + (1 - 1) - Cardinality(PairsOf(<<>>))
    <3>. DEFINE c == Cardinality(PairsOf(<<>>))
                l == Len(<<>>)
    <3>1. c = 0 /\ l = 0
      BY <1>1, <1>2, <1>6, Zenon
    <3>. HIDE DEF c, l
    <3>2. l = (1 - 1) + (1 - 1) - c
      BY <3>1
    <3>. QED  BY <3>2 DEF c, l
  <2>. QED  BY <1>1, <1>4, <1>5, <2>1 DEF Reports
<1>8. Pairing(A, B, 1, 1, {}, {})
  <2>1. \A u : ~Alone(A, 1, {}, u) /\ ~Alone(B, 1, {}, u)
    BY <1>5 DEF Alone
  <2>2. \A u : D!URLCount(A, {}, u) = D!URLCount(B, {}, u)
    <3>1. \A u : {k \in {} : URLAt(A, k) = u} = {k \in {} : URLAt(B, k) = u}
      OBVIOUS
    <3>. QED  BY <3>1, Zenon DEF D!URLCount, URLAt
  <2>. QED  BY <1>5, <2>1, <2>2 DEF Pairing
<1>. QED  BY <1>3, <1>7, <1>8 DEF Walked

LEMMA WalkedOnlyA ==
  ASSUME NEW A, ListType(A), NEW B, ListType(B), SortedList(B),
         NEW m \in 1 .. Len(A), NEW n \in 1 .. Len(B) + 1, NEW r,
         Walked(A, B, m, n, r),
         n <= Len(B) => RankAt(A, m) < RankAt(B, n),
         NEW t, t = Extended(r, D!Only("A", m))
  PROVE  Walked(A, B, m + 1, n, t)
<1>1. /\ Len(A) \in Nat /\ Len(B) \in Nat /\ m \in Nat \ {0} /\ n \in Nat \ {0}
  BY SequenceFacts DEF ListType
<1>. DEFINE x == D!Only("A", m)
<1>2. x.side = "A" /\ x.a = m /\ x.b = 0
  BY ReportFields
<1>3. Reported(A, B, m + 1, n, x)
  <2>1. m \in 1 .. m + 1 - 1
    BY <1>1
  <2>. QED  BY <2>1 DEF Reported
<1>. HIDE DEF x
<1>4. Reports(A, B, m + 1, n, t)
  <2>1. Reports(A, B, m, n, r) /\ t = Extended(r, x)
    BY DEF Walked, x
  <2>2. /\ m + 1 \in {m, m + 1} /\ n \in {n, n + 1} /\ m + 1 # m /\ n # n + 1
    BY <1>1
  <2>3. /\ x.a = IF m + 1 = m THEN 0 ELSE m
        /\ x.b = IF n = n THEN 0 ELSE n
        /\ x.side = "both" <=> m + 1 = m + 1 /\ n = n + 1
    BY <1>2, <2>2
  <2>. QED  BY <1>1, <1>3, <2>1, <2>2, <2>3, ReportsStep
<1>5. PairedA(t) = PairedA(r) /\ PairedB(t) = PairedB(r)
  <2>1. IsSequence(r) /\ t = Extended(r, x)
    BY DEF Walked, Reports, x
  <2>2. Appended(r, x, t)
    BY <2>1, ReportAppended
  <2>. QED  BY <1>2, <2>2 DEF Appended
<1>6. Pairing(A, B, m + 1, n, PairedA(r), PairedB(r))
  BY PairingOnly DEF Walked
<1>. QED  BY <1>4, <1>5, <1>6 DEF Walked

LEMMA WalkedOnlyB ==
  ASSUME NEW A, ListType(A), NEW B, ListType(B), SortedList(A),
         NEW m \in 1 .. Len(A) + 1, NEW n \in 1 .. Len(B), NEW r,
         Walked(A, B, m, n, r),
         m <= Len(A) => RankAt(B, n) < RankAt(A, m),
         NEW t, t = Extended(r, D!Only("B", n))
  PROVE  Walked(A, B, m, n + 1, t)
<1>1. /\ Len(A) \in Nat /\ Len(B) \in Nat /\ m \in Nat \ {0} /\ n \in Nat \ {0}
  BY SequenceFacts DEF ListType
<1>. DEFINE x == D!Only("B", n)
<1>2. x.side = "B" /\ x.a = 0 /\ x.b = n
  BY ReportFields
<1>3. Reported(A, B, m, n + 1, x)
  <2>1. n \in 1 .. n + 1 - 1
    BY <1>1
  <2>. QED  BY <2>1 DEF Reported
<1>. HIDE DEF x
<1>4. Reports(A, B, m, n + 1, t)
  <2>1. Reports(A, B, m, n, r) /\ t = Extended(r, x)
    BY DEF Walked, x
  <2>2. /\ n + 1 \in {n, n + 1} /\ m \in {m, m + 1} /\ n + 1 # n /\ m # m + 1
    BY <1>1
  <2>3. /\ x.a = IF m = m THEN 0 ELSE m
        /\ x.b = IF n + 1 = n THEN 0 ELSE n
        /\ x.side = "both" <=> m = m + 1 /\ n + 1 = n + 1
    BY <1>2, <2>2
  <2>. QED  BY <1>1, <1>3, <2>1, <2>2, <2>3, ReportsStep
<1>5. PairedA(t) = PairedA(r) /\ PairedB(t) = PairedB(r)
  <2>1. IsSequence(r) /\ t = Extended(r, x)
    BY DEF Walked, Reports, x
  <2>2. Appended(r, x, t)
    BY <2>1, ReportAppended
  <2>. QED  BY <1>2, <2>2 DEF Appended
<1>6. Pairing(A, B, m, n + 1, PairedA(r), PairedB(r))
  <2>1. Pairing(B, A, n, m, PairedB(r), PairedA(r))
    BY PairingSymmetric DEF Walked
  <2>2. Pairing(B, A, n + 1, m, PairedB(r), PairedA(r))
    BY <2>1, PairingOnly
  <2>. QED  BY <2>2, PairingSymmetric
<1>. QED  BY <1>4, <1>5, <1>6 DEF Walked

LEMMA WalkedBoth ==
  ASSUME NEW A, ListType(A), NEW B, ListType(B),
         NEW m \in 1 .. Len(A), NEW n \in 1 .. Len(B), NEW r,
         Walked(A, B, m, n, r),
         URLAt(A, m) = URLAt(B, n),
         NEW t, t = Extended(r, BothReport(A, B, m, n))
  PROVE  Walked(A, B, m + 1, n + 1, t)
<1>1. /\ Len(A) \in Nat /\ Len(B) \in Nat /\ m \in Nat \ {0} /\ n \in Nat \ {0}
  BY SequenceFacts DEF ListType
<1>. DEFINE x == BothReport(A, B, m, n)
<1>2. x.side = "both" /\ x.a = m /\ x.b = n
  BY ReportFields
<1>3. Reported(A, B, m + 1, n + 1, x)
  <2>1. m \in 1 .. m + 1 - 1 /\ n \in 1 .. n + 1 - 1
    BY <1>1
  <2>. QED  BY <2>1 DEF Reported
<1>. HIDE DEF x
<1>4. Reports(A, B, m + 1, n + 1, t)
  <2>1. Reports(A, B, m, n, r) /\ t = Extended(r, x)
    BY DEF Walked, x
  <2>2. /\ m + 1 \in {m, m + 1} /\ n + 1 \in {n, n + 1} /\ m + 1 # m /\ n + 1 # n
    BY <1>1
  <2>3. /\ x.a = IF m + 1 = m THEN 0 ELSE m
        /\ x.b = IF n + 1 = n THEN 0 ELSE n
        /\ x.side = "both" <=> m + 1 = m + 1 /\ n + 1 = n + 1
    BY <1>2, <2>2
  <2>. QED  BY <1>1, <1>3, <2>1, <2>2, <2>3, ReportsStep
<1>5. PairedA(t) = With(PairedA(r), m) /\ PairedB(t) = With(PairedB(r), n)
  <2>1. IsSequence(r) /\ t = Extended(r, x)
    BY DEF Walked, Reports, x
  <2>2. Appended(r, x, t)
    BY <2>1, ReportAppended
  <2>. QED  BY <1>2, <2>2 DEF Appended
<1>6. Pairing(A, B, m + 1, n + 1, With(PairedA(r), m), With(PairedB(r), n))
  BY PairingBoth DEF Walked
<1>. QED  BY <1>4, <1>5, <1>6 DEF Walked

DInv ==
  /\ ListType(sideA) /\ ListType(sideB)
  /\ i \in 1 .. Len(sideA) + 1 /\ j \in 1 .. Len(sideB) + 1
  /\ diffpc \in {"list", "walk", "failed", "done"}
  /\ diffpc = "list" => i = 1 /\ j = 1 /\ reports = <<>>
  /\ diffpc \in {"walk", "done"} => SortedList(sideA) /\ SortedList(sideB)
  /\ diffpc = "done" => i = Len(sideA) + 1 /\ j = Len(sideB) + 1
  /\ Walked(sideA, sideB, i, j, reports)

DiffInv == IF command = "diff" THEN DInv ELSE DiffIdle

LEMMA DiffURL == \A list, n : URLAt(list, n) = Canonical(list[n].url)
<1>1. \A u : D!Canonical(u) = Canonical(u)
  BY DEF D!Canonical, Canonical, D!Lower, Lower, D!DefaultPort, DefaultPort,
         D!IsAbs, IsAbs
<1>. QED  BY <1>1 DEF URLAt, D!CanonicalURL

LEMMA DiffInit == D!Init => DInv
<1>. SUFFICES ASSUME D!Init PROVE DInv
  OBVIOUS
<1>1. PICK p \in Pairs : sideA = p[1] /\ sideB = p[2]
  BY DEF D!Init
<1>2. i = 1 /\ j = 1 /\ reports = <<>> /\ diffpc = "list"
  BY DEF D!Init
<1>3. ASSUME NEW list \in {p[1], p[2]} PROVE ListType(list)
  <2>1. /\ IsSequence(list)
        /\ \A k \in DOMAIN list :
             /\ Canonical(list[k].url) \in DOMAIN Rank
             /\ IsSequence(list[k].body.lines) /\ IsSequence(list[k].headers)
             /\ \E binary \in BOOLEAN :
                  list[k].body = [lines |-> list[k].body.lines,
                                  ends |-> list[k].body.ends, binary |-> binary]
    BY DiffAssumption
  <2>. QED  BY <2>1, DiffURL DEF ListType
<1>4. ListType(sideA) /\ ListType(sideB)
  BY <1>1, <1>3
<1>5. Len(sideA) \in Nat /\ Len(sideB) \in Nat
  BY <1>4, SequenceFacts DEF ListType
<1>6. i \in 1 .. Len(sideA) + 1 /\ j \in 1 .. Len(sideB) + 1
  BY <1>2, <1>5
<1>7. Walked(sideA, sideB, i, j, reports)
  BY <1>2, WalkBegins
<1>. QED  BY <1>2, <1>4, <1>6, <1>7 DEF DInv

\* A list that was sorted holds what it held.
LEMMA SortKeeps ==
  ASSUME NEW s, ListType(s), NEW t \in D!Sorted(s)
  PROVE  ListType(t) /\ SortedList(t)
<1>1. PICK p \in [DOMAIN s -> DOMAIN s] :
        /\ t = [n \in DOMAIN s |-> s[p[n]]]
        /\ \A m, n \in DOMAIN s : m < n => ~D!Before(s[p[n]], s[p[m]])
  BY DEF D!Sorted
<1>2. IsSequence(s) /\ Len(s) \in Nat /\ DOMAIN s = 1 .. Len(s)
  BY SequenceFacts DEF ListType
<1>3. DOMAIN t = DOMAIN s /\ \A n \in DOMAIN s : t[n] = s[p[n]] /\ p[n] \in DOMAIN s
  BY <1>1
<1>4. IsSequence(t)
  <2>1. t = [n \in 1 .. Len(s) |-> t[n]]
    BY <1>1, <1>2
  <2>. QED  BY <1>2, <2>1, FunctionSequence
<1>5. \A n \in DOMAIN s : URLAt(t, n) = URLAt(s, p[n])
  BY <1>3 DEF URLAt
<1>6. ListType(t)
  <2>1. ASSUME NEW k \in DOMAIN t
        PROVE  /\ URLAt(t, k) \in DOMAIN Rank
               /\ IsSequence(t[k].body.lines) /\ IsSequence(t[k].headers)
               /\ \E binary \in BOOLEAN :
                    t[k].body = [lines |-> t[k].body.lines,
                                 ends |-> t[k].body.ends, binary |-> binary]
    <3>1. t[k] = s[p[k]] /\ p[k] \in DOMAIN s /\ URLAt(t, k) = URLAt(s, p[k])
      BY <1>3, <1>5
    <3>2. /\ URLAt(s, p[k]) \in DOMAIN Rank
          /\ IsSequence(s[p[k]].body.lines) /\ IsSequence(s[p[k]].headers)
          /\ \E binary \in BOOLEAN :
               s[p[k]].body = [lines |-> s[p[k]].body.lines,
                               ends |-> s[p[k]].body.ends, binary |-> binary]
      BY <3>1 DEF ListType
    <3>. QED  BY <3>1, <3>2, Zenon
  <2>. QED  BY <1>4, <2>1 DEF ListType
<1>7. SortedList(t)
  BY <1>1, <1>3 DEF SortedList, RankAt, URLAt, D!Before
<1>. QED  BY <1>6, <1>7

LEMMA SortStep == ASSUME DInv, D!Sort PROVE DInv'
<1>1. /\ sideA' \in D!Sorted(sideA) /\ sideB' \in D!Sorted(sideB)
      /\ diffpc = "list" /\ diffpc' = "walk"
      /\ UNCHANGED <<i, j, reports>>
  BY DEF D!Sort
<1>2. ListType(sideA) /\ ListType(sideB) /\ i = 1 /\ j = 1 /\ reports = <<>>
  BY <1>1 DEF DInv
<1>3. /\ ListType(sideA') /\ SortedList(sideA')
      /\ ListType(sideB') /\ SortedList(sideB')
  BY <1>1, <1>2, SortKeeps
<1>4. Len(sideA') \in Nat /\ Len(sideB') \in Nat
  BY <1>3, SequenceFacts DEF ListType
<1>5. i' \in 1 .. Len(sideA') + 1 /\ j' \in 1 .. Len(sideB') + 1
  BY <1>1, <1>2, <1>4
<1>6. Walked(sideA', sideB', i', j', reports')
  BY <1>1, <1>2, WalkBegins
<1>. QED  BY <1>1, <1>3, <1>5, <1>6 DEF DInv, ListType, SortedList, Walked

LEMMA WalkStep ==
  ASSUME DInv, D!OnlyInA \/ D!OnlyInB \/ D!Compare
  PROVE  DInv'
<1>1. /\ UNCHANGED <<sideA, sideB, diffpc>> /\ diffpc = "walk"
  BY DEF D!OnlyInA, D!OnlyInB, D!Compare, D!Walking, D!sideVars
<1>2. /\ ListType(sideA) /\ ListType(sideB)
      /\ SortedList(sideA) /\ SortedList(sideB)
      /\ i \in 1 .. Len(sideA) + 1 /\ j \in 1 .. Len(sideB) + 1
      /\ Walked(sideA, sideB, i, j, reports)
  BY <1>1 DEF DInv
<1>3. Len(sideA) \in Nat /\ Len(sideB) \in Nat
  BY <1>2, SequenceFacts DEF ListType
<1>4. /\ i <= Len(sideA) => i \in 1 .. Len(sideA) /\ i + 1 \in 1 .. Len(sideA) + 1
      /\ j <= Len(sideB) => j \in 1 .. Len(sideB) /\ j + 1 \in 1 .. Len(sideB) + 1
  BY <1>2, <1>3
<1>5. /\ i' \in 1 .. Len(sideA) + 1 /\ j' \in 1 .. Len(sideB) + 1
      /\ Walked(sideA, sideB, i', j', reports')
  <2>1. CASE D!OnlyInA
    <3>1. /\ i \in 1 .. Len(sideA) /\ i' = i + 1 /\ j' = j
      BY <1>4, <2>1 DEF D!OnlyInA, D!InA
    <3>2. j <= Len(sideB) => RankAt(sideA, i) < RankAt(sideB, j)
      BY <2>1 DEF D!OnlyInA, D!InB, D!Before, RankAt, URLAt
    <3>3. reports' = Extended(reports, D!Only("A", i))
      BY <2>1 DEF D!OnlyInA, D!Report, Extended
    <3>4. Walked(sideA, sideB, i + 1, j, reports')
      BY <1>2, <3>1, <3>2, <3>3, WalkedOnlyA
    <3>. QED  BY <1>2, <1>3, <3>1, <3>4
  <2>2. CASE D!OnlyInB
    <3>1. /\ j \in 1 .. Len(sideB) /\ j' = j + 1 /\ i' = i
      BY <1>4, <2>2 DEF D!OnlyInB, D!InB
    <3>2. i <= Len(sideA) => RankAt(sideB, j) < RankAt(sideA, i)
      BY <2>2 DEF D!OnlyInB, D!InA, D!Before, RankAt, URLAt
    <3>3. reports' = Extended(reports, D!Only("B", j))
      BY <2>2 DEF D!OnlyInB, D!Report, Extended
    <3>4. Walked(sideA, sideB, i, j + 1, reports')
      BY <1>2, <3>1, <3>2, <3>3, WalkedOnlyB
    <3>. QED  BY <1>2, <1>3, <3>1, <3>4
  <2>3. CASE D!Compare
    <3>1. /\ i \in 1 .. Len(sideA) /\ i' = i + 1
          /\ j \in 1 .. Len(sideB) /\ j' = j + 1
      BY <1>4, <2>3 DEF D!Compare, D!InA, D!InB
    <3>2. URLAt(sideA, i) = URLAt(sideB, j)
      BY <2>3 DEF D!Compare, URLAt
    <3>3. reports' = Extended(reports, BothReport(sideA, sideB, i, j))
      BY <2>3 DEF D!Compare, D!Report, Extended, BothReport
    <3>4. Walked(sideA, sideB, i + 1, j + 1, reports')
      BY <1>2, <3>1, <3>2, <3>3, WalkedBoth
    <3>. QED  BY <1>2, <1>3, <3>1, <3>4
  <2>. QED  BY <2>1, <2>2, <2>3
<1>. QED  BY <1>1, <1>2, <1>5 DEF DInv

LEMMA DiffStep == ASSUME DInv, D!Next PROVE DInv'
<1>1. CASE D!CannotList \/ D!CannotRead \/ D!EndOfWalk
  <2>1. UNCHANGED <<sideA, sideB, i, j, reports>>
    BY <1>1 DEF D!CannotList, D!CannotRead, D!EndOfWalk, D!sideVars
  <2>2. \/ diffpc' = "failed"
        \/ diffpc = "walk" /\ diffpc' = "done" /\ ~D!InA /\ ~D!InB
    BY <1>1 DEF D!CannotList, D!CannotRead, D!EndOfWalk, D!Walking
  <2>3. Len(sideA) \in Nat /\ Len(sideB) \in Nat
    BY SequenceFacts DEF DInv, ListType
  <2>4. ~D!InA /\ ~D!InB => i = Len(sideA) + 1 /\ j = Len(sideB) + 1
    BY <2>3 DEF DInv, D!InA, D!InB
  <2>. QED  BY <2>1, <2>2, <2>4 DEF DInv
<1>. QED  BY <1>1, SortStep, WalkStep DEF D!Next

LEMMA DiffInvHolds == Spec => []DiffInv
<1>1. Init => DiffInv
  BY DiffInit DEF Init, DiffInv
<1>2. DiffInv /\ [Next]_vars => DiffInv'
  <2>. SUFFICES ASSUME DiffInv, [Next]_vars PROVE DiffInv'
    OBVIOUS
  <2>1. CASE command = "diff" /\ D!Next /\ command' = command
    BY <2>1, DiffStep DEF DiffInv
  <2>2. CASE UNCHANGED <<command, diffVars>>
    BY <2>2 DEF DiffInv, DInv, DiffIdle, diffVars
  <2>. QED  BY <2>1, <2>2 DEF Next, vars
<1>. QED  BY <1>1, <1>2, PTL DEF Spec

\* At any point of the walk every entry passed is in one report; in the end the
\* entries of a canonical URL have been paired as far as there are any in both
\* repositories, whatever the order of the lists (main.go:418-500).
THEOREM ReportsHold == Spec => []ReportsAreRight
<1>1. ASSUME Reports(sideA, sideB, i, j, reports)
      PROVE  /\ D!Positions(reports, "a") = 1 .. i - 1
             /\ D!Positions(reports, "b") = 1 .. j - 1
             /\ Len(reports) = (i - 1) + (j - 1) - D!Cardinality(PairsOf(reports))
  BY <1>1, SameCardinality DEF Reports
<1>2. ASSUME DInv, diffpc = "done", NEW u \in DOMAIN Rank
      PROVE  LET inA == D!URLCount(sideA, DOMAIN sideA, u)
                 inB == D!URLCount(sideB, DOMAIN sideB, u)
                 pairedA == D!URLCount(sideA, PairedA(reports), u)
                 pairedB == D!URLCount(sideB, PairedB(reports), u)
             IN  /\ pairedA = pairedB
                 /\ pairedA = IF inA < inB THEN inA ELSE inB
  <2>1. /\ ListType(sideA) /\ ListType(sideB)
        /\ i = Len(sideA) + 1 /\ j = Len(sideB) + 1
        /\ Pairing(sideA, sideB, i, j, PairedA(reports), PairedB(reports))
    BY <1>2 DEF DInv, Walked
  <2>. QED  BY <2>1, PairingEnds
<1>3. DInv => ReportsAreRight
  BY <1>1, <1>2, Zenon
  DEF DInv, Walked, ReportsAreRight, D!ReportsAreRight, PairedA, PairedB, PairsOf
<1>4. DiffIdle => ReportsAreRight
  <2>. SUFFICES ASSUME DiffIdle PROVE ReportsAreRight
    OBVIOUS
  <2>1. i = 1 /\ j = 1 /\ reports = <<>> /\ diffpc # "done"
    BY DEF DiffIdle
  <2>2. Reports(sideA, sideB, i, j, reports)
    BY <2>1, WalkBegins DEF Walked
  <2>. QED  BY <1>1, <2>1, <2>2, Zenon DEF ReportsAreRight, D!ReportsAreRight, PairsOf
<1>5. DiffInv => ReportsAreRight
  BY <1>3, <1>4 DEF DiffInv
<1>. QED  BY <1>5, DiffInvHolds, PTL

\* The lines that are compared are the same only if all are, or one is too long.
LEMMA SplitTells ==
  ASSUME NEW s, IsSequence(s), NEW t, IsSequence(t), s # t,
         D!splitLines(s) = D!splitLines(t)
  PROVE  D!Hidden(s, t)
<1>. DEFINE K(q) == {n \in DOMAIN q : \A m \in 1 .. n : q[m] \notin LongLines}
            Z == (DOMAIN s \cup DOMAIN t) \ K(s)
<1>1. /\ Len(s) \in Nat /\ DOMAIN s = 1 .. Len(s)
      /\ Len(t) \in Nat /\ DOMAIN t = 1 .. Len(t)
  BY SequenceFacts
<1>2. D!splitLines(s) = [n \in K(s) |-> s[n]] /\ D!splitLines(t) = [n \in K(t) |-> t[n]]
  BY DEF D!splitLines, D!Restrict
<1>3. K(s) = K(t) /\ \A n \in K(s) : s[n] = t[n]
  <2>. HIDE DEF K
  <2>. QED  BY <1>2
<1>4. ASSUME Z = {} PROVE FALSE
  <2>1. K(s) = DOMAIN s /\ K(t) = DOMAIN t
    BY <1>3, <1>4
  <2>2. s = [n \in DOMAIN s |-> s[n]] /\ t = [n \in DOMAIN t |-> t[n]]
    BY DEF IsSequence
  <2>. HIDE DEF K
  <2>. QED  BY <1>2, <2>1, <2>2
<1>5. PICK k \in Z : \A n \in Z : k <= n
  <2>1. Z \subseteq Nat
    BY <1>1
  <2>. HIDE DEF Z
  <2>. QED  BY <1>4, <2>1, LeastOf
<1>6. k \in Nat \ {0} /\ k \in DOMAIN s \cup DOMAIN t /\ k \notin K(s) /\ k \notin K(t)
  BY <1>1, <1>3, <1>5
<1>7. ASSUME NEW n \in 1 .. k - 1 PROVE n \in K(s) /\ n \in K(t)
  <2>1. n \in DOMAIN s \cup DOMAIN t /\ ~(k <= n)
    BY <1>1, <1>6, <1>7
  <2>2. n \notin Z
    BY <1>5, <2>1
  <2>. QED  BY <1>3, <2>1, <2>2
<1>8. \A n \in 1 .. k - 1 : n \in DOMAIN s /\ n \in DOMAIN t /\ s[n] = t[n]
  BY <1>3, <1>7
<1>9. ASSUME NEW q, k \in DOMAIN q, k \notin K(q), \A n \in 1 .. k - 1 : n \in K(q)
      PROVE  q[k] \in LongLines
  <2>1. PICK m \in 1 .. k : q[m] \in LongLines
    BY <1>9
  <2>2. ASSUME m # k PROVE FALSE
    <3>1. m \in 1 .. k - 1 /\ m \in 1 .. m
      BY <1>6, <2>2
    <3>. QED  BY <1>9, <2>1, <3>1
  <2>. QED  BY <2>1, <2>2
<1>10. \/ k \in DOMAIN s /\ s[k] \in LongLines
       \/ k \in DOMAIN t /\ t[k] \in LongLines
  <2>. HIDE DEF K
  <2>. QED  BY <1>6, <1>7, <1>9
<1>. QED  BY <1>6, <1>8, <1>10, Zenon DEF D!Hidden

\* What the report of two entries tells of them.
LEMMA ReportTells ==
  ASSUME NEW A, ListType(A), NEW B, ListType(B),
         NEW a \in DOMAIN A, NEW b \in DOMAIN B, NEW r, r = BothReport(A, B, a, b)
  PROVE  /\ A[a].status # B[b].status => r.status
         /\ A[a].body # B[b].body => r.body # "equal"
         /\ r.body = "text" /\ ~r.diff =>
              \/ A[a].body.ends # B[b].body.ends
              \/ D!Hidden(A[a].body.lines, B[b].body.lines)
         /\ r.body = "ignored" => {A[a].status, B[b].status} \subseteq IgnoreStatuses
         /\ Headers /\ r.body # "ignored" /\ A[a].headers # B[b].headers =>
              r.headers \/ D!Hidden(A[a].headers, B[b].headers)
         /\ r.body = "equal" /\ ~r.status =>
              A[a].body = B[b].body /\ A[a].status = B[b].status
<1>. DEFINE x == A[a]
            y == B[b]
<1>1. /\ r.body = D!BodyReport(x, y)
      /\ r.diff <=> D!BodyReport(x, y) = "text"
                    /\ D!splitLines(x.body.lines) # D!splitLines(y.body.lines)
      /\ r.status <=> x.status # y.status
      /\ r.headers <=> Headers /\ D!BodyReport(x, y) # "ignored"
                       /\ D!splitLines(x.headers) # D!splitLines(y.headers)
  BY DEF BothReport
<1>2. PICK f \in BOOLEAN : x.body = [lines |-> x.body.lines, ends |-> x.body.ends, binary |-> f]
  BY DEF ListType
<1>3. PICK g \in BOOLEAN : y.body = [lines |-> y.body.lines, ends |-> y.body.ends, binary |-> g]
  BY DEF ListType
<1>4. x.body.binary = f /\ y.body.binary = g
  BY <1>2, <1>3
<1>5. /\ IsSequence(x.body.lines) /\ IsSequence(x.headers)
      /\ IsSequence(y.body.lines) /\ IsSequence(y.headers)
  BY DEF ListType
<1>. HIDE DEF x, y
<1>6. /\ D!BodyReport(x, y) = "ignored" => {x.status, y.status} \subseteq IgnoreStatuses
      /\ D!BodyReport(x, y) = "equal" => x.body = y.body
      /\ x.body # y.body => D!BodyReport(x, y) # "equal"
  BY DEF D!BodyReport
<1>7. D!BodyReport(x, y) = "text" => x.body # y.body /\ ~x.body.binary /\ ~y.body.binary
  BY DEF D!BodyReport
<1>8. ASSUME D!BodyReport(x, y) = "text", x.body.lines = y.body.lines
      PROVE  x.body.ends # y.body.ends
  <2>1. f = FALSE /\ g = FALSE
    BY <1>4, <1>7, <1>8, Zenon
  <2>. QED  BY <1>2, <1>3, <1>7, <1>8, <2>1
<1>9. ASSUME D!splitLines(x.body.lines) = D!splitLines(y.body.lines),
             x.body.lines # y.body.lines
      PROVE  D!Hidden(x.body.lines, y.body.lines)
  BY <1>5, <1>9, SplitTells
<1>10. ASSUME D!splitLines(x.headers) = D!splitLines(y.headers), x.headers # y.headers
       PROVE  D!Hidden(x.headers, y.headers)
  BY <1>5, <1>10, SplitTells
<1>11. r.body = "text" /\ ~r.diff =>
         x.body.ends # y.body.ends \/ D!Hidden(x.body.lines, y.body.lines)
  BY <1>1, <1>8, <1>9, Zenon
<1>12. Headers /\ r.body # "ignored" /\ x.headers # y.headers =>
         r.headers \/ D!Hidden(x.headers, y.headers)
  BY <1>1, <1>10, Zenon
<1>. QED  BY <1>1, <1>6, <1>11, <1>12, Zenon DEF x, y

\* When the command has printed nothing but "equal" the two repositories hold
\* the same documents, and a difference in a document that both have is on some
\* line if no line of 64 KB hides it (main.go:438-495, 513-529).
THEOREM DifferencesHold == Spec => []DifferencesShow
<1>1. ASSUME DInv, diffpc = "done" PROVE DifferencesShow
  <2>1. /\ ListType(sideA) /\ ListType(sideB)
        /\ i = Len(sideA) + 1 /\ j = Len(sideB) + 1
        /\ Reports(sideA, sideB, i, j, reports)
    BY <1>1 DEF DInv, Walked
  <2>2. /\ Len(sideA) \in Nat /\ DOMAIN sideA = 1 .. Len(sideA)
        /\ Len(sideB) \in Nat /\ DOMAIN sideB = 1 .. Len(sideB)
    BY <2>1, SequenceFacts DEF ListType
  <2>3. 1 .. i - 1 = DOMAIN sideA /\ 1 .. j - 1 = DOMAIN sideB
    BY <2>1, <2>2
  <2>4. ASSUME NEW n \in DOMAIN reports, reports[n].side = "both"
        PROVE  \E a \in DOMAIN sideA, b \in DOMAIN sideB :
                 /\ URLAt(sideA, a) = URLAt(sideB, b)
                 /\ reports[n] = BothReport(sideA, sideB, a, b)
                 /\ reports[n].a = a /\ reports[n].b = b
    <3>1. Reported(sideA, sideB, i, j, reports[n])
      BY <2>1 DEF Reports
    <3>2. /\ \A a : reports[n] # D!Only("A", a)
          /\ \A b : reports[n] # D!Only("B", b)
      BY <2>4, ReportFields
    <3>3. PICK a \in 1 .. i - 1, b \in 1 .. j - 1 :
            /\ URLAt(sideA, a) = URLAt(sideB, b)
            /\ reports[n] = BothReport(sideA, sideB, a, b)
      BY <3>1, <3>2, Zenon DEF Reported
    <3>4. a \in DOMAIN sideA /\ b \in DOMAIN sideB
      BY <2>3
    <3>5. reports[n].a = a /\ reports[n].b = b
      <4>. DEFINE x == BothReport(sideA, sideB, a, b)
      <4>1. x.a = a /\ x.b = b
        BY ReportFields
      <4>. HIDE DEF x
      <4>2. reports[n] = x
        BY <3>3 DEF x
      <4>. QED  BY <4>1, <4>2, Zenon
    <3>. QED  BY <3>3, <3>4, <3>5, Zenon
  <2>5. ASSUME NEW n \in DOMAIN reports, reports[n].side = "both"
        PROVE  LET r == reports[n]
                   x == sideA[r.a]
                   y == sideB[r.b]
               IN  /\ x.status # y.status => r.status
                   /\ x.body # y.body => r.body # "equal"
                   /\ r.body = "text" /\ ~r.diff =>
                        \/ x.body.ends # y.body.ends
                        \/ D!Hidden(x.body.lines, y.body.lines)
                   /\ r.body = "ignored" => {x.status, y.status} \subseteq IgnoreStatuses
                   /\ Headers /\ r.body # "ignored" /\ x.headers # y.headers =>
                        r.headers \/ D!Hidden(x.headers, y.headers)
    BY <2>1, <2>4, <2>5, ReportTells
  <2>6. ASSUME D!NothingShown PROVE D!Content(sideA) = D!Content(sideB)
    <3>. DEFINE C(s, n) ==
           [url |-> D!CanonicalURL(s[n]), status |-> s[n].status, body |-> s[n].body]
    <3>1. ASSUME NEW n \in DOMAIN reports
          PROVE  \E a \in DOMAIN sideA, b \in DOMAIN sideB :
                   /\ C(sideA, a) = C(sideB, b)
                   /\ reports[n].a = a /\ reports[n].b = b
      <4>1. /\ reports[n].side = "both" /\ reports[n].body = "equal"
            /\ ~reports[n].status
        BY <2>6 DEF D!NothingShown
      <4>2. PICK a \in DOMAIN sideA, b \in DOMAIN sideB :
              /\ URLAt(sideA, a) = URLAt(sideB, b)
              /\ reports[n] = BothReport(sideA, sideB, a, b)
              /\ reports[n].a = a /\ reports[n].b = b
        BY <2>4, <4>1
      <4>3. sideA[a].body = sideB[b].body /\ sideA[a].status = sideB[b].status
        BY <2>1, <4>1, <4>2, ReportTells
      <4>. QED  BY <4>2, <4>3 DEF URLAt
    <3>2. /\ D!Content(sideA) = {C(sideA, n) : n \in DOMAIN sideA}
          /\ D!Content(sideB) = {C(sideB, n) : n \in DOMAIN sideB}
      BY DEF D!Content
    <3>. HIDE DEF C
    <3>3. /\ \A a \in DOMAIN sideA : \E n \in DOMAIN reports : reports[n].a = a
          /\ \A b \in DOMAIN sideB : \E n \in DOMAIN reports : reports[n].b = b
      <4>1. /\ D!Positions(reports, "a") = DOMAIN sideA
            /\ D!Positions(reports, "b") = DOMAIN sideB
        BY <2>1, <2>3, Zenon DEF Reports
      <4>2. \A a \in DOMAIN sideA : \E n \in DOMAIN reports : reports[n].a = a
        BY <4>1, Zenon DEF D!Positions
      <4>3. \A b \in DOMAIN sideB : \E n \in DOMAIN reports : reports[n].b = b
        BY <4>1, Zenon DEF D!Positions
      <4>. QED  BY <4>2, <4>3
    <3>. QED  BY <3>1, <3>2, <3>3
  <2>. QED  BY <2>5, <2>6, Zenon DEF DifferencesShow, D!DifferencesShow
<1>2. DiffIdle => DifferencesShow
  BY DEF DiffIdle, DifferencesShow, D!DifferencesShow
<1>3. DInv /\ diffpc # "done" => DifferencesShow
  BY DEF DifferencesShow, D!DifferencesShow
<1>4. DiffInv => DifferencesShow
  BY <1>1, <1>2, <1>3 DEF DiffInv
<1>. QED  BY <1>4, DiffInvHolds, PTL

-----------------------------------------------------------------------------
(* httrack's cache: what httrack writes.                                   *)

\* The operators that the reader takes from the libraries.
LEMMA HttrackOperators ==
  /\ \A s : H!FlattenSeq(s) = FlattenSeq(s)
  /\ \A T : H!Max(T) = Max(T)
  /\ \A T : H!Min(T) = Min(T)
BY DEF H!FlattenSeq, FlattenSeq, H!Max, Max, H!Min, Min

\* The parts of a cache before its directory, and how many cells the first k have.
Locals(c, k) == [n \in 1 .. k |-> H!LocalPart(c[n])]
Place(c, k) == Len(FlattenSeq(Locals(c, k)))
Centrals(c) == [n \in 1 .. Len(c) |-> H!CentralPart(c[n], Place(c, n - 1))]

DataOf(c) == FlattenSeq(Locals(c, Len(c)))
DirectoryOf(c) == FlattenSeq(Centrals(c))
EndOf(c) ==
  [cell |-> "end", records |-> H!Narrow16(Len(c)), size |-> Len(DirectoryOf(c)),
   offset |-> Len(DataOf(c)), commentLen |-> 0]

LEMMA ArchiveForm ==
  ASSUME NEW c, DOMAIN c = 1 .. Len(c)
  PROVE  H!Archive(c) = DataOf(c) \o DirectoryOf(c) \o <<EndOf(c)>>
<1>1. \A k : H!FlattenSeq([n \in 1 .. k |-> H!LocalPart(c[n])]) = FlattenSeq(Locals(c, k))
  BY HttrackOperators DEF Locals
<1>2. H!FlattenSeq([n \in 1 .. Len(c) |-> H!CentralPart(c[n], Place(c, n - 1))]) = DirectoryOf(c)
  BY HttrackOperators DEF DirectoryOf, Centrals
<1>. QED  BY <1>1, <1>2, Zenon DEF H!Archive, H!UpTo, Place, DataOf, EndOf

\* What httrack stores of a file.
IsItem(r) ==
  /\ \E parses \in BOOLEAN :
       r.response = H!Response(parses, r.response.xSize, r.response.size, r.response.inCache)
  /\ IsSequence(r.body)

LocalCell(r) == [cell |-> "local", method |-> r.method, nameLen |-> 1, extraLen |-> 1]
BodyPart(r) ==
  IF r.method = "Deflate" THEN <<[cell |-> "deflated", content |-> r.body]>> ELSE r.body

\* The cells of a file in a cache.
LEMMA LocalPartIs ==
  ASSUME NEW r, IsItem(r)
  PROVE  LET p == H!LocalPart(r)
         IN /\ IsSequence(p) /\ Len(p) = 3 + Len(BodyPart(r)) /\ IsSequence(BodyPart(r))
            /\ p[1] = LocalCell(r) /\ p[2] = H!Text(r.url) /\ p[3] = r.response
            /\ Stands(p, 3, BodyPart(r))
<1>. DEFINE a == <<LocalCell(r), H!Text(r.url), r.response>>
            b == BodyPart(r)
            p == H!LocalPart(r)
<1>1. p = a \o b
  BY DEF H!LocalPart, LocalCell, BodyPart
<1>2. IsSequence(b)
  BY OneIsSequence DEF BodyPart, IsItem
<1>3. IsSequence(a) /\ Len(a) = 3 /\ a[1] = LocalCell(r) /\ a[2] = H!Text(r.url)
      /\ a[3] = r.response
  <2>1. a \in Seq({LocalCell(r), H!Text(r.url), r.response})
    OBVIOUS
  <2>2. IsSequence(a)
    BY <2>1, SequenceIs
  <2>. QED  BY <2>2
<1>. HIDE DEF a, b, p
<1>4. Joins(a, b, p)
  BY <1>1, <1>2, <1>3, Joined
<1>5. /\ IsSequence(p) /\ Len(p) = 3 + Len(b)
      /\ \A k \in 1 .. 3 : p[k] = a[k]
  BY <1>3, <1>4 DEF Joins
<1>6. Stands(p, 3, b)
  BY <1>1, <1>2, <1>3, StandsLast
<1>. QED  BY <1>2, <1>3, <1>5, <1>6 DEF p, b

IsCache(c) == IsSequence(c) /\ \A k \in 1 .. Len(c) : IsItem(c[k])

\* A header of the directory has two cells.
CentralCell(r, offset) ==
  [cell |-> "central", method |-> r.method, utf8 |-> FALSE, descriptor |-> FALSE, dos |-> 1,
   crc |-> r.body, csize |-> Len(BodyPart(r)), usize |-> Len(r.body),
   nameLen |-> 1, extraLen |-> 0, commentLen |-> 0, offset |-> offset]

LEMMA CentralPartIs ==
  ASSUME NEW r, IsItem(r), NEW offset
  PROVE  LET p == H!CentralPart(r, offset)
         IN /\ IsSequence(p) /\ Len(p) = 2
            /\ p[1] = CentralCell(r, offset) /\ p[2] = H!Text(r.url)
<1>. DEFINE x == CentralCell(r, offset)
            y == H!Text(r.url)
            p == H!CentralPart(r, offset)
<1>1. Len(H!LocalPart(r)) - 3 = Len(BodyPart(r))
  <2>1. Len(H!LocalPart(r)) = 3 + Len(BodyPart(r)) /\ Len(BodyPart(r)) \in Nat
    BY LocalPartIs, SequenceFacts
  <2>. QED  BY <2>1
<1>2. p = <<x, y>>
  BY <1>1 DEF H!CentralPart, CentralCell, H!Crc32
<1>. HIDE DEF x, y
<1>3. <<x, y>> \in Seq({x, y}) /\ Len(<<x, y>>) = 2 /\ <<x, y>>[1] = x /\ <<x, y>>[2] = y
  OBVIOUS
<1>. QED  BY <1>2, <1>3, SequenceIs DEF x, y

\* The first parts, cut from all.
LEMMA LocalsUpto ==
  ASSUME NEW c, NEW n \in Nat, NEW k \in 0 .. n
  PROVE  SubSeq(Locals(c, n), 1, k) = Locals(c, k)
<1>. DEFINE s == Locals(c, n)
            t == Locals(c, k)
            R == {s[v] : v \in DOMAIN s}
            u == SubSeq(s, 1, k)
<1>1. /\ IsSequence(s) /\ Len(s) = n /\ \A v \in 1 .. n : s[v] = H!LocalPart(c[v])
      /\ IsSequence(t) /\ Len(t) = k /\ \A v \in 1 .. k : t[v] = H!LocalPart(c[v])
  <2>1. /\ s = [v \in 1 .. n |-> s[v]] /\ t = [v \in 1 .. k |-> t[v]] /\ k \in Nat
        /\ \A v \in 1 .. n : s[v] = H!LocalPart(c[v])
        /\ \A v \in 1 .. k : t[v] = H!LocalPart(c[v])
    BY DEF Locals
  <2>. HIDE DEF s, t
  <2>. QED  BY <2>1, FunctionIs
<1>2. s \in Seq(R)
  BY <1>1 DEF IsSequence
<1>. HIDE DEF R, s, t
<1>3. u \in Seq(R) /\ Len(u) = k /\ \A v \in 1 .. k : u[v] = s[v]
  BY <1>1, <1>2
<1>. HIDE DEF u
<1>4. IsSequence(u)
  BY <1>3, SequenceIs
<1>5. \A v \in 1 .. k : u[v] = t[v]
  BY <1>1, <1>3
<1>6. u = t
  BY <1>1, <1>3, <1>4, <1>5, SameSequence
<1>. QED  BY <1>6 DEF u, s, t

\* Where the parts of a cache are before its directory.
LEMMA DataIs ==
  ASSUME NEW c, IsCache(c)
  PROVE  /\ IsSequence(DataOf(c))
         /\ \A k \in 1 .. Len(c) : Stands(DataOf(c), Place(c, k - 1), H!LocalPart(c[k]))
         /\ \A w \in 1 .. Len(DataOf(c)) : \E k \in 1 .. Len(c) :
              \E v \in 1 .. Len(H!LocalPart(c[k])) : DataOf(c)[w] = H!LocalPart(c[k])[v]
<1>. DEFINE n == Len(c)
            s == Locals(c, n)
            d == FlattenSeq(s)
<1>0. n \in Nat
  BY SequenceFacts DEF IsCache
<1>1. IsSequence(s) /\ Len(s) = n /\ \A v \in 1 .. n : s[v] = H!LocalPart(c[v])
  <2>1. /\ s = [v \in 1 .. n |-> s[v]]
        /\ \A v \in 1 .. n : s[v] = H!LocalPart(c[v])
    BY DEF Locals
  <2>. HIDE DEF s, n
  <2>. QED  BY <1>0, <2>1, FunctionIs
<1>2. \A v \in 1 .. n : IsSequence(s[v])
  BY <1>1, LocalPartIs DEF IsCache
<1>3. \A k \in 0 .. n : Len(Upto(s, k)) = Place(c, k)
  <2>. SUFFICES ASSUME NEW k \in 0 .. n PROVE Len(Upto(s, k)) = Place(c, k)
    OBVIOUS
  <2>1. SubSeq(Locals(c, n), 1, k) = Locals(c, k)
    <3>. HIDE DEF n
    <3>. QED  BY <1>0, LocalsUpto
  <2>. QED  BY <2>1, Zenon DEF Upto, Place
<1>. HIDE DEF s
<1>4. IsParts(s, d)
  BY <1>1, <1>2, PartsStand
<1>. HIDE DEF d, n
<1>5. \A k \in 0 .. n - 1 : Stands(d, Len(Upto(s, k)), s[k + 1])
  BY <1>1, <1>4, Zenon DEF IsParts
<1>6. ASSUME NEW k \in 1 .. n PROVE Stands(d, Place(c, k - 1), H!LocalPart(c[k]))
  <2>1. k - 1 \in 0 .. n - 1 /\ k - 1 \in 0 .. n /\ k - 1 + 1 = k
    BY <1>0
  <2>2. Stands(d, Len(Upto(s, k - 1)), s[k - 1 + 1])
    BY <1>5, <2>1, Zenon
  <2>. QED  BY <1>1, <1>3, <2>1, <2>2
<1>7. \A w \in 1 .. Len(d) : \E k \in 1 .. n : \E v \in 1 .. Len(s[k]) : d[w] = s[k][v]
  BY <1>1, <1>4, Zenon DEF IsParts
<1>8. \A w \in 1 .. Len(d) : \E k \in 1 .. n :
        \E v \in 1 .. Len(H!LocalPart(c[k])) : d[w] = H!LocalPart(c[k])[v]
  <2>. SUFFICES ASSUME NEW w \in 1 .. Len(d)
       PROVE  \E k \in 1 .. n : \E v \in 1 .. Len(H!LocalPart(c[k])) : d[w] = H!LocalPart(c[k])[v]
    OBVIOUS
  <2>1. PICK k \in 1 .. n : \E v \in 1 .. Len(s[k]) : d[w] = s[k][v]
    BY <1>7, Zenon
  <2>2. s[k] = H!LocalPart(c[k])
    BY <1>1, Zenon
  <2>3. \E v \in 1 .. Len(H!LocalPart(c[k])) : d[w] = H!LocalPart(c[k])[v]
    <3>. HIDE DEF s, d
    <3>. QED  BY <2>1, <2>2, Zenon
  <2>. QED  BY <2>3, Zenon
<1>9. d = DataOf(c) /\ IsSequence(d) /\ n = Len(c)
  BY <1>4, Zenon DEF d, s, n, DataOf, IsParts
<1>. QED  BY <1>6, <1>8, <1>9, Zenon

\* Where the headers of the directory are in it.
LEMMA DirectoryOfIs ==
  ASSUME NEW c, IsCache(c)
  PROVE  /\ IsSequence(DirectoryOf(c)) /\ Len(DirectoryOf(c)) = 2 * Len(c)
         /\ \A k \in 1 .. Len(c) :
              Stands(DirectoryOf(c), 2 * (k - 1), H!CentralPart(c[k], Place(c, k - 1)))
         /\ \A w \in 1 .. Len(DirectoryOf(c)) : DirectoryOf(c)[w].cell \in {"central", "text"}
<1>. DEFINE n == Len(c)
            s == Centrals(c)
            d == FlattenSeq(s)
            R == {k \in Nat : k <= n => Len(Upto(s, k)) = 2 * k}
<1>0. n \in Nat
  BY SequenceFacts DEF IsCache
<1>1. /\ IsSequence(s) /\ Len(s) = n
      /\ \A v \in 1 .. n : s[v] = H!CentralPart(c[v], Place(c, v - 1))
  <2>1. /\ s = [v \in 1 .. n |-> s[v]]
        /\ \A v \in 1 .. n : s[v] = H!CentralPart(c[v], Place(c, v - 1))
    BY DEF Centrals
  <2>. HIDE DEF s, n
  <2>. QED  BY <1>0, <2>1, FunctionIs
<1>2. ASSUME NEW v \in 1 .. n
      PROVE  /\ IsSequence(s[v]) /\ Len(s[v]) = 2
             /\ s[v][1].cell = "central" /\ s[v][2].cell = "text"
  <2>1. IsItem(c[v]) /\ s[v] = H!CentralPart(c[v], Place(c, v - 1))
    BY <1>1 DEF IsCache
  <2>2. /\ IsSequence(s[v]) /\ Len(s[v]) = 2
        /\ s[v][1] = CentralCell(c[v], Place(c, v - 1)) /\ s[v][2] = H!Text(c[v].url)
    <3>. HIDE DEF s
    <3>. QED  BY <2>1, CentralPartIs
  <2>. HIDE DEF s
  <2>. QED  BY <2>2 DEF CentralCell, H!Text
<1>. HIDE DEF s
<1>3. IsParts(s, d)
  BY <1>1, <1>2, PartsStand
<1>. HIDE DEF d, n
<1>4. /\ IsSequence(d) /\ Len(Upto(s, 0)) = 0 /\ Len(Upto(s, n)) = Len(d)
      /\ \A k \in 0 .. n - 1 : /\ Stands(d, Len(Upto(s, k)), s[k + 1])
                               /\ Len(Upto(s, k + 1)) = Len(Upto(s, k)) + Len(s[k + 1])
      /\ \A w \in 1 .. Len(d) : \E k \in 1 .. n : \E v \in 1 .. Len(s[k]) : d[w] = s[k][v]
  BY <1>1, <1>3, Zenon DEF IsParts
<1>5. 0 \in R
  BY <1>4
<1>6. ASSUME NEW k \in R PROVE k + 1 \in R
  <2>. SUFFICES ASSUME k + 1 <= n PROVE Len(Upto(s, k + 1)) = 2 * (k + 1)
    OBVIOUS
  <2>1. k \in Nat /\ k <= n /\ k \in 0 .. n - 1 /\ k + 1 \in 1 .. n
    BY <1>0
  <2>2. Len(Upto(s, k)) = 2 * k /\ Len(s[k + 1]) = 2
    BY <1>2, <2>1
  <2>3. Len(Upto(s, k + 1)) = Len(Upto(s, k)) + Len(s[k + 1])
    BY <1>4, <2>1, Zenon
  <2>. QED  BY <2>1, <2>2, <2>3
<1>7. R = Nat
  <2>. HIDE DEF R
  <2>1. R \subseteq Nat
    BY DEF R
  <2>. QED  BY <1>5, <1>6, <2>1, NatInductionSet
<1>8. \A k \in 0 .. n : Len(Upto(s, k)) = 2 * k
  <2>1. \A k \in 0 .. n : k \in Nat /\ k <= n
    BY <1>0
  <2>. QED  BY <1>7, <2>1
<1>9. Len(d) = 2 * n
  BY <1>0, <1>4, <1>8
<1>10. ASSUME NEW k \in 1 .. n
       PROVE  Stands(d, 2 * (k - 1), H!CentralPart(c[k], Place(c, k - 1)))
  <2>1. k - 1 \in 0 .. n - 1 /\ k - 1 \in 0 .. n /\ k - 1 + 1 = k
    BY <1>0
  <2>2. Stands(d, Len(Upto(s, k - 1)), s[k - 1 + 1])
    BY <1>4, <2>1, Zenon
  <2>3. Len(Upto(s, k - 1)) = 2 * (k - 1) /\ s[k] = H!CentralPart(c[k], Place(c, k - 1))
    BY <1>1, <1>8, <2>1
  <2>. QED  BY <2>1, <2>2, <2>3
<1>11. ASSUME NEW w \in 1 .. Len(d) PROVE d[w].cell \in {"central", "text"}
  <2>1. PICK k \in 1 .. n : \E v \in 1 .. Len(s[k]) : d[w] = s[k][v]
    BY <1>4, Zenon
  <2>2. PICK v \in 1 .. Len(s[k]) : d[w] = s[k][v]
    BY <2>1, Zenon
  <2>3. v = 1 \/ v = 2
    <3>1. Len(s[k]) = 2
      BY <1>2
    <3>2. v \in 1 .. 2
      BY <3>1, Zenon
    <3>. QED  BY <3>2
  <2>. QED  BY <1>2, <2>2, <2>3
<1>12. d = DirectoryOf(c) /\ n = Len(c)
  BY DEF d, s, n, DirectoryOf
<1>. QED  BY <1>4, <1>9, <1>10, <1>11, <1>12, Zenon

\* The number of cells before the directory.
Base(c) == Len(DataOf(c))

\* An archive, cell for cell.
LEMMA ArchiveIs ==
  ASSUME NEW c, IsCache(c)
  PROVE  LET a == H!Archive(c)
         IN /\ IsSequence(a) /\ Base(c) \in Nat /\ Len(a) = Base(c) + 2 * Len(c) + 1
            /\ \A k \in 1 .. Len(c) :
                 /\ Stands(a, Place(c, k - 1), H!LocalPart(c[k]))
                 /\ a[Base(c) + 2 * (k - 1) + 1] = CentralCell(c[k], Place(c, k - 1))
                 /\ a[Base(c) + 2 * (k - 1) + 2] = H!Text(c[k].url)
            /\ a[Base(c) + 2 * Len(c) + 1] = EndOf(c)
            /\ \A w \in 1 .. Base(c) : a[w] = DataOf(c)[w]
<1>. DEFINE n == Len(c)
            d == DataOf(c)
            r == DirectoryOf(c)
            z == <<EndOf(c)>>
            a == H!Archive(c)
<1>1. n \in Nat /\ DOMAIN c = 1 .. n
  BY SequenceFacts DEF IsCache
<1>2. a = d \o r \o z
  BY <1>1, ArchiveForm
<1>3. /\ IsSequence(d) /\ IsSequence(r) /\ Len(r) = 2 * n
      /\ \A k \in 1 .. n : Stands(d, Place(c, k - 1), H!LocalPart(c[k]))
      /\ \A k \in 1 .. n : Stands(r, 2 * (k - 1), H!CentralPart(c[k], Place(c, k - 1)))
  BY DataIs, DirectoryOfIs
<1>4. IsSequence(z) /\ Len(z) = 1 /\ z[1] = EndOf(c)
  BY OneIsSequence
<1>5. Len(d) = Base(c)
  BY DEF Base
<1>. HIDE DEF d, r, z, a
<1>6. Joins(d, r, d \o r)
  BY <1>3, Joined
<1>. DEFINE u == d \o r
<1>7. IsSequence(u) /\ Len(u) = Len(d) + Len(r) /\ (\A k \in 1 .. Len(d) : u[k] = d[k])
  BY <1>6, Zenon DEF Joins
<1>8. \A k \in 1 .. n : Stands(u, Place(c, k - 1), H!LocalPart(c[k]))
  BY <1>3, StandsStill, Zenon
<1>9. Stands(u, Len(d), r)
  BY <1>3, StandsLast, Zenon
<1>10. a = u \o z
  BY <1>2
<1>. HIDE DEF u
<1>11. Joins(u, z, a)
  BY <1>4, <1>7, <1>10, Joined
<1>12. /\ IsSequence(a) /\ Len(a) = Len(u) + Len(z)
       /\ \A k \in 1 .. Len(u) : a[k] = u[k]
       /\ \A k \in 1 .. Len(z) : a[Len(u) + k] = z[k]
  BY <1>11, Zenon DEF Joins
<1>13. /\ \A k \in 1 .. n : Stands(a, Place(c, k - 1), H!LocalPart(c[k]))
       /\ Stands(a, Len(d), r)
  BY <1>4, <1>7, <1>8, <1>9, <1>10, StandsStill, Zenon
<1>14. Len(d) \in Nat
  BY <1>3, SequenceFacts
<1>15. Len(a) = Len(d) + 2 * n + 1 /\ a[Len(d) + 2 * n + 1] = z[1]
  <2>1. Len(u) = Len(d) + 2 * n /\ 1 \in 1 .. Len(z)
    BY <1>3, <1>4, <1>7
  <2>2. Len(a) = Len(u) + 1 /\ a[Len(u) + 1] = z[1]
    BY <1>4, <1>12, <2>1
  <2>. HIDE DEF n
  <2>. QED  BY <1>14, <2>1, <2>2
<1>16. \A w \in 1 .. Len(d) : a[w] = d[w]
  BY <1>1, <1>3, <1>7, <1>12, <1>14
<1>17. ASSUME NEW k \in 1 .. n
       PROVE  /\ a[Len(d) + 2 * (k - 1) + 1] = CentralCell(c[k], Place(c, k - 1))
              /\ a[Len(d) + 2 * (k - 1) + 2] = H!Text(c[k].url)
  <2>. DEFINE p == H!CentralPart(c[k], Place(c, k - 1))
  <2>1. /\ IsSequence(p) /\ Len(p) = 2
        /\ p[1] = CentralCell(c[k], Place(c, k - 1)) /\ p[2] = H!Text(c[k].url)
    BY CentralPartIs DEF IsCache
  <2>2. Stands(r, 2 * (k - 1), p) /\ Len(a) \in Nat
    BY <1>3, <1>12, SequenceFacts
  <2>. HIDE DEF p
  <2>3. Stands(a, Len(d) + 2 * (k - 1), p)
    BY <1>13, <2>2, StandsWithin
  <2>4. \A w \in 1 .. Len(p) : a[Len(d) + 2 * (k - 1) + w] = p[w]
    BY <2>3, Zenon DEF Stands
  <2>5. 1 \in 1 .. Len(p) /\ 2 \in 1 .. Len(p)
    BY <2>1
  <2>. QED  BY <2>1, <2>4, <2>5, Zenon
<1>18. d = DataOf(c) /\ a = H!Archive(c) /\ z[1] = EndOf(c) /\ n = Len(c)
  BY <1>4 DEF d, a
<1>. HIDE DEF n
<1>. QED  BY <1>5, <1>12, <1>13, <1>14, <1>15, <1>16, <1>17, <1>18, Zenon

\* No body of a cache holds an end record.
Bare(c) == \A k \in 1 .. Len(c) : \A v \in 1 .. Len(c[k].body) : c[k].body[v].cell # "end"

\* Then the only end record of the archive is its last cell.
LEMMA OnlyEnd ==
  ASSUME NEW c, IsCache(c), Bare(c), NEW w \in 1 .. Base(c) + 2 * Len(c)
  PROVE  H!Archive(c)[w].cell # "end"
<1>. DEFINE a == H!Archive(c)
            n == Len(c)
<1>1. n \in Nat /\ Base(c) \in Nat
  BY ArchiveIs, SequenceFacts DEF IsCache
<1>2. CASE w \in 1 .. Base(c)
  <2>1. PICK k \in 1 .. n : \E v \in 1 .. Len(H!LocalPart(c[k])) :
               DataOf(c)[w] = H!LocalPart(c[k])[v]
    BY <1>2, DataIs DEF Base
  <2>2. PICK v \in 1 .. Len(H!LocalPart(c[k])) : DataOf(c)[w] = H!LocalPart(c[k])[v]
    BY <2>1, Zenon
  <2>. DEFINE p == H!LocalPart(c[k])
              b == BodyPart(c[k])
  <2>3. IsItem(c[k])
    BY DEF IsCache
  <2>4. /\ IsSequence(p) /\ Len(p) = 3 + Len(b) /\ IsSequence(b)
        /\ p[1] = LocalCell(c[k]) /\ p[2] = H!Text(c[k].url) /\ p[3] = c[k].response
        /\ Stands(p, 3, b)
    BY <2>3, LocalPartIs
  <2>5. v \in 1 .. Len(p) /\ a[w] = p[v]
    BY <1>2, <2>2, ArchiveIs
  <2>6. c[k].response.cell = "response"
    BY <2>3 DEF IsItem, H!Response
  <2>7. \A m \in 1 .. Len(b) : b[m].cell # "end"
    <3>1. CASE c[k].method = "Deflate"
      <4>1. Len(b) = 1 /\ b[1].cell = "deflated"
        <5>. DEFINE x == [cell |-> "deflated", content |-> c[k].body]
        <5>1. b = <<x>> /\ x.cell = "deflated"
          BY <3>1, Zenon DEF BodyPart
        <5>. HIDE DEF x, b
        <5>. QED  BY <5>1, OneIsSequence
      <4>. HIDE DEF b
      <4>. QED  BY <4>1
    <3>2. CASE c[k].method # "Deflate"
      BY <3>2 DEF BodyPart, Bare
    <3>. QED  BY <3>1, <3>2
  <2>. HIDE DEF a, p, b
  <2>8. p[1].cell # "end" /\ p[2].cell # "end" /\ p[3].cell # "end"
    BY <2>4, <2>6 DEF LocalCell, H!Text
  <2>9. CASE v > 3
    <3>1. Len(b) \in Nat
      BY <2>4, SequenceFacts
    <3>2. v - 3 \in 1 .. Len(b) /\ 3 + (v - 3) = v
      BY <2>4, <2>5, <2>9, <3>1
    <3>3. p[3 + (v - 3)] = b[v - 3]
      BY <2>4, <3>2, Zenon DEF Stands
    <3>4. p[v] = b[v - 3]
      BY <3>2, <3>3
    <3>. QED  BY <2>5, <2>7, <3>2, <3>4 DEF a
  <2>10. CASE ~(v > 3)
    <3>1. v = 1 \/ v = 2 \/ v = 3
      <4>1. Len(b) \in Nat
        BY <2>4, SequenceFacts
      <4>. QED  BY <2>4, <2>5, <2>10, <4>1
    <3>. QED  BY <2>5, <2>8, <3>1 DEF a
  <2>. QED  BY <2>9, <2>10 DEF a
<1>3. CASE w \notin 1 .. Base(c)
  <2>1. PICK v \in 1 .. 2 * n : w = Base(c) + v
    <3>1. w \in Nat /\ w <= Base(c) + 2 * n /\ w > Base(c)
      BY <1>1, <1>3
    <3>. HIDE DEF n
    <3>2. w - Base(c) \in 1 .. 2 * n /\ w = Base(c) + (w - Base(c))
      BY <1>1, <3>1
    <3>. QED  BY <3>2
  <2>2. PICK k \in 1 .. n : v = 2 * (k - 1) + 1 \/ v = 2 * (k - 1) + 2
    <3>. DEFINE k == (v + 1) \div 2
    <3>1. v \in Nat /\ 1 <= v /\ v <= 2 * n
      BY <1>1
    <3>2. k \in Int /\ 2 * k <= v + 1 /\ v <= 2 * k
      BY <3>1
    <3>. HIDE DEF k
    <3>3. k \in 1 .. n /\ (v = 2 * (k - 1) + 1 \/ v = 2 * (k - 1) + 2)
      BY <1>1, <3>1, <3>2
    <3>. QED  BY <3>3
  <2>3. Base(c) + (2 * (k - 1) + 1) = Base(c) + 2 * (k - 1) + 1
        /\ Base(c) + (2 * (k - 1) + 2) = Base(c) + 2 * (k - 1) + 2
    BY <1>1
  <2>4. a[w] = CentralCell(c[k], Place(c, k - 1)) \/ a[w] = H!Text(c[k].url)
    <3>1. /\ a[Base(c) + 2 * (k - 1) + 1] = CentralCell(c[k], Place(c, k - 1))
          /\ a[Base(c) + 2 * (k - 1) + 2] = H!Text(c[k].url)
      BY ArchiveIs
    <3>. HIDE DEF a
    <3>. QED  BY <2>1, <2>2, <2>3, <3>1
  <2>. HIDE DEF a
  <2>5. a[w].cell # "end"
    BY <2>4 DEF CentralCell, H!Text
  <2>. QED  BY <2>5 DEF a
<1>. QED  BY <1>2, <1>3

-----------------------------------------------------------------------------
(* What is left of an archive, and what is found at its end.               *)

\* What a cell was overwritten with, unless that is a record.
Blot(z) == z.cell \notin H!Records /\ (z.cell = "deflated" => IsSequence(z.content))

LEMMA BlotIs ==
  ASSUME NEW z, Blot(z)
  PROVE  /\ z.cell # "local" /\ z.cell # "central" /\ z.cell # "end" /\ z.cell # "loc64"
         /\ z.cell = "deflated" => IsSequence(z.content)
BY DEF Blot, H!Records

\* A file with the cells of an archive, but for those that were overwritten.
Like(a, zip) ==
  /\ IsSequence(zip) /\ Len(zip) = Len(a)
  /\ \A k \in 1 .. Len(a) : zip[k] = a[k] \/ Blot(zip[k])

LEMMA RemainsAre ==
  ASSUME NEW a, IsSequence(a), NEW zip \in H!Remains(a),
         \A k \in DOMAIN zip : zip[k].cell \in H!Records => zip[k] = a[k]
  PROVE  Like(a, zip) \/ \E n \in 0 .. Len(a) - 1 : zip = SubSeq(a, 1, n)
<1>0. DOMAIN a = 1 .. Len(a) /\ Len(a) \in Nat
  BY SequenceFacts
<1>1. CASE zip = a
  BY <1>1 DEF Like
<1>2. ASSUME NEW k \in DOMAIN a, NEW z \in Blots \cup {H!Junk}, zip = [a EXCEPT ![k] = z]
      PROVE  Like(a, zip)
  <2>0. z.cell = "deflated" => IsSequence(z.content)
    BY HttrackAssumption DEF H!Junk
  <2>1. /\ zip = [v \in 1 .. Len(a) |-> zip[v]]
        /\ \A v \in 1 .. Len(a) : zip[v] = a[v] \/ zip[v] = z
    <3>. DEFINE T == {a[v] : v \in DOMAIN a}
    <3>1. a \in Seq(T)
      BY DEF IsSequence
    <3>. HIDE DEF T
    <3>2. a = [v \in 1 .. Len(a) |-> a[v]]
      BY <3>1
    <3>3. zip = [v \in 1 .. Len(a) |-> IF v = k THEN z ELSE a[v]]
      BY <1>0, <1>2, <3>2
    <3>. QED  BY <3>3
  <2>2. IsSequence(zip) /\ Len(zip) = Len(a)
    BY <1>0, <2>1, FunctionIs
  <2>3. ASSUME NEW v \in 1 .. Len(a) PROVE zip[v] = a[v] \/ Blot(zip[v])
    <3>1. v \in DOMAIN zip
      BY <2>1
    <3>. QED  BY <2>0, <2>1, <3>1 DEF Blot
  <2>. QED  BY <2>2, <2>3 DEF Like
<1>3. CASE zip \in {SubSeq(a, 1, n) : n \in 0 .. Len(a) - 1}
  BY <1>3
<1>. QED  BY <1>1, <1>2, <1>3 DEF H!Remains

\* Without an end record nothing is opened.
LEMMA NoEnd ==
  ASSUME NEW zip, \A k \in 1 .. Len(zip) : zip[k].cell # "end", Len(zip) \in Nat
  PROVE  /\ H!readDirectoryEnd(zip) = [err |-> "ErrFormat"]
         /\ H!OpenReader(zip) = [err |-> "ErrFormat"]
<1>1. ASSUME NEW b PROVE H!findSignatureInBlock(zip, b) = {}
  <2>1. ASSUME NEW q \in 0 .. Len(zip) - 1 PROVE ~H!IsCell(zip, q, "end")
    <3>1. q + 1 \in 1 .. Len(zip)
      OBVIOUS
    <3>. QED  BY <3>1 DEF H!IsCell, H!Cell
  <2>. QED  BY <2>1, Zenon DEF H!findSignatureInBlock
<1>2. H!readDirectoryEnd(zip) = [err |-> "ErrFormat"]
  BY <1>1, Zenon DEF H!readDirectoryEnd, H!LastEnd
<1>. DEFINE x == [err |-> "ErrFormat"]
<1>3. x.err # "none"
  OBVIOUS
<1>. HIDE DEF x
<1>4. H!readDirectoryEnd(zip) = x
  BY <1>2 DEF x
<1>5. H!OpenReader(zip) = x
  BY <1>3, <1>4, Zenon DEF H!OpenReader, H!Opened
<1>. QED  BY <1>4, <1>5 DEF x

\* An archive that httrack was stopped while writing has no end record.
LEMMA CutIs ==
  ASSUME NEW c, IsCache(c), Bare(c), NEW n \in 0 .. Len(H!Archive(c)) - 1
  PROVE  H!OpenReader(SubSeq(H!Archive(c), 1, n)) = [err |-> "ErrFormat"]
<1>. DEFINE a == H!Archive(c)
            zip == SubSeq(a, 1, n)
            T == {a[v] : v \in DOMAIN a}
<1>1. IsSequence(a) /\ Len(a) = Base(c) + 2 * Len(c) + 1 /\ Base(c) \in Nat /\ Len(c) \in Nat
  BY ArchiveIs, SequenceFacts DEF IsCache
<1>2. a \in Seq(T)
  BY <1>1, Zenon DEF IsSequence
<1>3. n \in 0 .. Base(c) + 2 * Len(c)
  BY <1>1
<1>4. \A k \in 1 .. n : a[k].cell # "end"
  <2>1. \A k \in 1 .. n : k \in 1 .. Base(c) + 2 * Len(c)
    BY <1>1, <1>3
  <2>. QED  BY <2>1, OnlyEnd
<1>5. n \in 0 .. Len(a)
  BY <1>1, <1>3
<1>. HIDE DEF T, a
<1>6. Len(zip) = n /\ \A k \in 1 .. n : zip[k] = a[k]
  BY <1>2, <1>5
<1>. HIDE DEF zip
<1>7. \A k \in 1 .. Len(zip) : zip[k].cell # "end"
  BY <1>4, <1>6
<1>8. H!OpenReader(zip) = [err |-> "ErrFormat"]
  BY <1>6, <1>7, NoEnd
<1>. QED  BY <1>8 DEF zip, a

\* What the end record says.
EndRead(c, zip) ==
  [err |-> "none", records |-> H!Narrow16(Len(c)), offset |-> Base(c),
   comment |-> H!Cells(zip, Len(zip), 0)]

\* The end record is found at the end of the file, or none is.
LEMMA EndIs ==
  ASSUME NEW c, IsCache(c), NEW zip, Like(H!Archive(c), zip), zip = H!Archive(c) \/ Bare(c)
  PROVE  \/ H!readDirectoryEnd(zip) = EndRead(c, zip)
         \/ zip # H!Archive(c) /\ H!OpenReader(zip) = [err |-> "ErrFormat"]
<1>. DEFINE a == H!Archive(c)
            n == Len(c)
            p == Base(c) + 2 * n
<1>1. /\ IsSequence(a) /\ Len(a) = p + 1 /\ Base(c) \in Nat /\ n \in Nat
      /\ a[p + 1] = EndOf(c)
  BY ArchiveIs, SequenceFacts DEF IsCache
<1>2. /\ IsSequence(zip) /\ Len(zip) = p + 1 /\ p \in Nat
      /\ \A k \in 1 .. p + 1 : zip[k] = a[k] \/ Blot(zip[k])
  <2>1. p \in Nat
    BY <1>1
  <2>. QED  BY <1>1, <2>1 DEF Like
<1>3. p >= 1 => zip[p].cell # "loc64"
  <2>. SUFFICES ASSUME p >= 1 PROVE zip[p].cell # "loc64"
    OBVIOUS
  <2>1. n >= 1
    <3>. SUFFICES ASSUME n = 0 PROVE FALSE
      BY <1>1
    <3>1. Base(c) >= 1 /\ Len(DataOf(c)) = Base(c) /\ 1 \in 1 .. Base(c)
      BY <1>1 DEF Base
    <3>2. \E k \in 1 .. n : TRUE
      BY <3>1, DataIs
    <3>. QED  BY <3>2
  <2>2. n \in 1 .. n /\ p = Base(c) + 2 * (n - 1) + 2 /\ p \in 1 .. p + 1
    BY <1>1, <2>1
  <2>3. a[p] = H!Text(c[n].url)
    BY <2>2, ArchiveIs
  <2>4. zip[p] = H!Text(c[n].url) \/ Blot(zip[p])
    BY <1>2, <2>2, <2>3, Zenon
  <2>5. H!Text(c[n].url).cell # "loc64"
    BY DEF H!Text
  <2>. QED  BY <2>4, <2>5, BlotIs
<1>. HIDE DEF a, n, p
<1>4. CASE zip[p + 1] = EndOf(c)
  <2>. DEFINE R == H!findSignatureInBlock(zip, Near)
  <2>1. H!Cell(zip, p) = EndOf(c) /\ H!Holds(zip, p)
    BY <1>2, <1>4 DEF H!Cell, H!Holds
  <2>2. EndOf(c).cell = "end" /\ EndOf(c).commentLen = 0 /\ EndOf(c).offset = Base(c)
        /\ EndOf(c).records = H!Narrow16(n)
    BY DEF EndOf, Base, n
  <2>3. H!IsCell(zip, p, "end")
    BY <2>1, <2>2 DEF H!IsCell
  <2>4. p \in R
    <3>1. p \in 0 .. Len(zip) - 1 /\ p >= Len(zip) - Near
      BY <1>2, HttrackAssumption
    <3>2. p + 1 + H!Cell(zip, p).commentLen <= Len(zip)
      BY <1>2, <2>1, <2>2
    <3>. QED  BY <2>3, <3>1, <3>2, Zenon DEF H!findSignatureInBlock
  <2>5. \A q \in R : q \in Int /\ q <= p
    <3>1. \A q \in R : q \in 0 .. Len(zip) - 1
      BY Zenon DEF H!findSignatureInBlock
    <3>. HIDE DEF R
    <3>. QED  BY <1>2, <3>1
  <2>. HIDE DEF R
  <2>6. H!Max(R) = p
    <3>1. p \in Int
      BY <1>2
    <3>2. Max(R) = p
      BY <2>4, <2>5, <3>1, MaxIs
    <3>. QED  BY <3>2, HttrackOperators
  <2>7. R # {} /\ H!readDirectoryEnd(zip) = H!LastEnd(zip, R)
    BY <2>4, Zenon DEF H!readDirectoryEnd, R
  <2>8. H!findDirectory64End(zip, p) = -1
    <3>1. ~H!IsCell(zip, p - 1, "loc64")
      <4>1. p - 1 >= 0 => p >= 1 /\ p - 1 + 1 = p
        BY <1>2
      <4>. QED  BY <1>2, <1>3, <4>1 DEF H!IsCell, H!Cell, H!Holds
    <3>. QED  BY <3>1, Zenon DEF H!findDirectory64End
  <2>9. H!LastEnd(zip, R) = H!DirectoryEnd(zip, p, -1)
    BY <2>6, <2>7, <2>8, Zenon DEF H!LastEnd
  <2>10. ~(Base(c) >= Len(zip)) /\ ~(-1 >= 0) /\ p + 1 = Len(zip)
    BY <1>1, <1>2 DEF p, n
  <2>11. H!DirectoryEnd(zip, p, -1) = EndRead(c, zip)
    BY <2>1, <2>2, <2>10, Zenon DEF H!DirectoryEnd, EndRead, n
  <2>. QED  BY <2>7, <2>9, <2>11
<1>5. CASE zip[p + 1] # EndOf(c)
  <2>1. p + 1 \in 1 .. p + 1
    BY <1>2
  <2>2. zip # a
    BY <1>1, <1>5
  <2>3. Bare(c)
    BY <2>2 DEF a
  <2>4. ASSUME NEW k \in 1 .. Len(zip) PROVE zip[k].cell # "end"
    <3>1. CASE Blot(zip[k])
      BY <3>1, BlotIs
    <3>2. CASE ~Blot(zip[k])
      <4>1. k # p + 1 /\ k \in 1 .. p + 1
        BY <1>1, <1>2, <1>5, <2>1, <3>2
      <4>2. k \in 1 .. Base(c) + 2 * Len(c) /\ zip[k] = a[k]
        <5>1. k \in 1 .. p
          BY <1>2, <4>1
        <5>. QED  BY <1>2, <3>2, <4>1, <5>1 DEF p, n
      <4>. QED  BY <2>3, <4>2, OnlyEnd DEF a
    <3>. QED  BY <3>1, <3>2
  <2>5. Len(zip) \in Nat
    BY <1>2
  <2>. QED  BY <2>2, <2>4, <2>5, NoEnd DEF a
<1>. QED  BY <1>4, <1>5

-----------------------------------------------------------------------------
(* Reading the directory of a cache.                                       *)

\* No cells, and one.
LEMMA CellsAre ==
  ASSUME NEW zip, IsSequence(zip), NEW off \in 0 .. Len(zip)
  PROVE  /\ H!Cells(zip, off, 0) = <<>>
         /\ off < Len(zip) => H!Cells(zip, off, 1) = <<zip[off + 1]>>
<1>0. Len(zip) \in Nat
  BY SequenceFacts
<1>1. H!Cells(zip, off, 0) = <<>>
  <2>1. IsSequence(<<>>) /\ Len(<<>>) = 0
    BY NoneIsSequence
  <2>2. Stands(zip, off, <<>>)
    BY <1>0, <2>1 DEF Stands
  <2>3. SubSeq(zip, off + 1, off + Len(<<>>)) = <<>>
    BY <2>2, StandsCells
  <2>. QED  BY <2>1, <2>3 DEF H!Cells
<1>2. ASSUME off < Len(zip) PROVE H!Cells(zip, off, 1) = <<zip[off + 1]>>
  <2>. DEFINE x == <<zip[off + 1]>>
  <2>1. IsSequence(x) /\ Len(x) = 1 /\ x[1] = zip[off + 1]
    BY OneIsSequence
  <2>. HIDE DEF x
  <2>2. Stands(zip, off, x)
    BY <1>0, <1>2, <2>1 DEF Stands
  <2>3. SubSeq(zip, off + 1, off + Len(x)) = x
    BY <2>2, StandsCells
  <2>. QED  BY <2>1, <2>3 DEF H!Cells, x
<1>. QED  BY <1>1, <1>2

\* Where the header of a file is in the directory.
At(c, k) == Base(c) + 2 * (k - 1)

\* What a header that was not overwritten says of a file.
IsFile(c, zip, k, r) ==
  /\ r.name = <<zip[At(c, k) + 2]>>
  /\ r.method = c[k].method /\ r.descriptor = FALSE /\ r.crc = c[k].body
  /\ r.csize = Len(BodyPart(c[k])) /\ r.usize = Len(c[k].body) /\ r.offset = Place(c, k - 1)

\* The numbers of a cache fit.
LEMMA PlaceFits ==
  ASSUME NEW c, IsCache(c), NEW k \in 1 .. Len(c)
  PROVE  /\ Place(c, k - 1) \in Nat /\ Len(BodyPart(c[k])) \in Nat
         /\ Place(c, k - 1) + 3 + Len(BodyPart(c[k])) <= Base(c)
<1>. DEFINE p == H!LocalPart(c[k])
<1>1. Stands(DataOf(c), Place(c, k - 1), p)
  BY DataIs
<1>2. Len(p) = 3 + Len(BodyPart(c[k])) /\ IsSequence(BodyPart(c[k]))
  BY LocalPartIs DEF IsCache
<1>. HIDE DEF p
<1>3. Place(c, k - 1) \in Nat /\ Place(c, k - 1) + Len(p) <= Base(c)
  BY <1>1 DEF Stands, Base
<1>4. Len(BodyPart(c[k])) \in Nat
  BY <1>2, SequenceFacts
<1>. QED  BY <1>2, <1>3, <1>4

\* Two numbers that fit need no field of zip64, and the size of what was
\* compressed is not looked for in one.
LEMMA NumbersAre ==
  ASSUME NEW x, x.csize # uint32max, x.offset # uint32max
  PROVE  LET numbers == H!Zip64Numbers(x, <<>>)
         IN numbers = [err |-> "none", usize |-> x.usize, csize |-> x.csize, offset |-> x.offset]
<1>1. \A tags : H!FieldsOf(<<>>, tags) = {}
  BY DEF H!FieldsOf
<1>2. H!FieldsOf(<<>>, {"zip64"}) = {}
  BY <1>1
<1>. QED  BY <1>2, Zenon DEF H!Zip64Numbers

\* A header is read as it was written, or it was overwritten.
LEMMA HeaderAt ==
  ASSUME NEW c, IsCache(c), Len(H!Archive(c)) <= uint32max,
         NEW zip, Like(H!Archive(c), zip), NEW k \in 1 .. Len(c)
  PROVE  LET h == H!readDirectoryHeader(zip, At(c, k))
         IN \/ h = [err |-> "ErrFormat"] /\ zip # H!Archive(c)
            \/ /\ h = [err |-> "none", next |-> At(c, k) + 2, file |-> h.file]
               /\ IsFile(c, zip, k, h.file)
<1>. DEFINE a == H!Archive(c)
            n == Len(c)
            o == At(c, k)
            x == CentralCell(c[k], Place(c, k - 1))
<1>1. /\ IsSequence(a) /\ Len(a) = Base(c) + 2 * n + 1 /\ Base(c) \in Nat /\ n \in Nat
      /\ a[o + 1] = x
  BY ArchiveIs, SequenceFacts DEF IsCache, At
<1>2. IsSequence(zip) /\ Len(zip) = Len(a) /\ \A q \in 1 .. Len(a) : zip[q] = a[q] \/ Blot(zip[q])
  BY DEF Like
<1>3. o \in Nat /\ o + 2 < Len(zip) /\ o + 1 \in 1 .. Len(a)
  BY <1>1, <1>2 DEF At
<1>4. H!Holds(zip, o) /\ H!Cell(zip, o) = zip[o + 1]
  BY <1>3 DEF H!Holds, H!Cell
<1>5. /\ x.cell = "central" /\ x.method = c[k].method /\ x.utf8 = FALSE /\ x.descriptor = FALSE
      /\ x.dos = 1 /\ x.crc = c[k].body /\ x.csize = Len(BodyPart(c[k]))
      /\ x.usize = Len(c[k].body) /\ x.nameLen = 1 /\ x.extraLen = 0 /\ x.commentLen = 0
      /\ x.offset = Place(c, k - 1)
  BY DEF CentralCell
<1>6. x.csize # uint32max /\ x.offset # uint32max
  <2>. DEFINE s == Len(BodyPart(c[k]))
              q == Place(c, k - 1)
  <2>1. q \in Nat /\ s \in Nat /\ q + 3 + s <= Base(c)
    BY PlaceFits
  <2>2. Len(a) <= uint32max /\ uint32max \in Nat /\ x.csize = s /\ x.offset = q
    BY <1>5, HttrackAssumption
  <2>. HIDE DEF s, q, x, a, n
  <2>. QED  BY <1>1, <2>1, <2>2
<1>. HIDE DEF a, n, o, x
<1>7. CASE Blot(zip[o + 1])
  <2>0. zip[o + 1].cell # "central"
    BY <1>7, BlotIs
  <2>1. ~H!IsCell(zip, o, "central")
    BY <1>4, <2>0 DEF H!IsCell
  <2>2. H!readDirectoryHeader(zip, o) = [err |-> "ErrFormat"]
    BY <1>4, <2>1, Zenon DEF H!readDirectoryHeader
  <2>3. zip # a
    BY <1>1, <1>5, <2>0
  <2>. QED  BY <2>2, <2>3 DEF o, a
<1>8. CASE zip[o + 1] = x
  <2>1. H!IsCell(zip, o, "central") /\ H!Cell(zip, o) = x
    BY <1>4, <1>5, <1>8 DEF H!IsCell
  <2>2. ~(o + 2 > Len(zip)) /\ Len(zip) \in Nat /\ o + 1 \in 0 .. Len(zip) /\ o + 1 < Len(zip)
        /\ o + 2 \in 0 .. Len(zip) /\ o + 1 + 1 = o + 2 /\ o + 2 + 0 = o + 2
    BY <1>2, <1>3, SequenceFacts
  <2>3. /\ H!Cells(zip, o + 1, 1) = <<zip[o + 2]>> /\ H!Cells(zip, o + 2, 0) = <<>>
    BY <1>2, <2>2, CellsAre
  <2>. DEFINE name == <<zip[o + 2]>>
              numbers == H!Zip64Numbers(x, <<>>)
              h == H!DirectoryHeader(x, name, <<>>, <<>>, numbers, o + 2)
  <2>4. H!readDirectoryHeader(zip, o) = h
    BY <1>4, <1>5, <2>1, <2>2, <2>3, Zenon DEF H!readDirectoryHeader
  <2>5. numbers = [err |-> "none", usize |-> x.usize, csize |-> x.csize, offset |-> x.offset]
    BY <1>6, NumbersAre
  <2>6. numbers.err = "none" /\ numbers.usize = x.usize /\ numbers.csize = x.csize
        /\ numbers.offset = x.offset
    BY <2>5
  <2>. HIDE DEF numbers
  <2>. DEFINE note == H!detectUTF8(<<>>)
              row == [name |-> name, extra |-> <<>>, comment |-> <<>>,
                      method |-> x.method, descriptor |-> x.descriptor,
                      crc |-> x.crc, csize |-> numbers.csize, usize |-> numbers.usize,
                      offset |-> numbers.offset,
                      modified |-> H!Modified(x.dos, <<>>),
                      nonUTF8 |-> H!NonUTF8(H!detectUTF8(name), note, x.utf8)]
  <2>7. h = [err |-> "none", next |-> o + 2, file |-> row]
    BY <2>6, Zenon DEF H!DirectoryHeader
  <2>8. IsFile(c, zip, k, row)
    <3>1. /\ row.name = name /\ row.method = x.method /\ row.descriptor = x.descriptor
          /\ row.crc = x.crc /\ row.csize = numbers.csize /\ row.usize = numbers.usize
          /\ row.offset = numbers.offset
      OBVIOUS
    <3>. HIDE DEF row
    <3>. QED  BY <1>5, <2>6, <3>1 DEF IsFile, o
  <2>. HIDE DEF row, h
  <2>9. h.file = row
    BY <2>7
  <2>10. h = [err |-> "none", next |-> o + 2, file |-> h.file] /\ IsFile(c, zip, k, h.file)
    BY <2>7, <2>8, <2>9
  <2>. QED  BY <2>4, <2>10 DEF o
<1>. QED  BY <1>1, <1>2, <1>3, <1>7, <1>8

\* What is not a header of the directory is not read as one.
LEMMA NoHeaderAt ==
  ASSUME NEW c, IsCache(c), NEW zip, Like(H!Archive(c), zip),
         NEW off \in Base(c) .. Len(zip), \A k \in 1 .. Len(c) : off # At(c, k)
  PROVE  /\ H!readDirectoryHeader(zip, off).err # "none"
         /\ off = Base(c) + 2 * Len(c) => H!readDirectoryHeader(zip, off) = [err |-> "ErrFormat"]
<1>. DEFINE a == H!Archive(c)
            n == Len(c)
<1>1. /\ IsSequence(a) /\ Len(a) = Base(c) + 2 * n + 1 /\ Base(c) \in Nat /\ n \in Nat
      /\ a[Base(c) + 2 * n + 1] = EndOf(c)
      /\ \A k \in 1 .. n : a[At(c, k) + 2] = H!Text(c[k].url)
  BY ArchiveIs, SequenceFacts DEF IsCache, At
<1>2. IsSequence(zip) /\ Len(zip) = Len(a) /\ \A q \in 1 .. Len(a) : zip[q] = a[q] \/ Blot(zip[q])
  BY DEF Like
<1>. HIDE DEF a, n
<1>3. CASE off = Len(zip)
  <2>1. ~H!Holds(zip, off) /\ off # Base(c) + 2 * n
    BY <1>1, <1>2, <1>3 DEF H!Holds
  <2>2. H!readDirectoryHeader(zip, off) = [err |-> "EOF"]
    BY <2>1, Zenon DEF H!readDirectoryHeader
  <2>3. H!readDirectoryHeader(zip, off).err = "EOF"
    BY <2>2
  <2>. QED  BY <2>1, <2>3 DEF n
<1>4. CASE off # Len(zip)
  <2>1. off \in Nat /\ off < Len(zip) /\ off + 1 \in 1 .. Len(a)
    BY <1>1, <1>2, <1>4
  <2>2. a[off + 1].cell # "central"
    <3>1. CASE off = Base(c) + 2 * n
      BY <1>1, <3>1 DEF EndOf
    <3>2. CASE off # Base(c) + 2 * n
      <4>1. PICK m \in Int : m = off - Base(c)
        BY <1>1, <2>1
      <4>2. m \in 0 .. 2 * n - 1 /\ off = Base(c) + m
        <5>1. PICK b \in Nat, s \in Nat : b = Base(c) /\ s = n
          BY <1>1
        <5>2. off \in Int /\ b <= off /\ off < b + 2 * s + 1 /\ off # b + 2 * s /\ m = off - b
          BY <1>1, <1>2, <2>1, <3>2, <4>1, <5>1
        <5>3. m \in 0 .. 2 * s - 1 /\ off = b + m
          BY <5>1, <5>2
        <5>. QED  BY <5>1, <5>3
      <4>3. PICK k \in 1 .. n : m = 2 * (k - 1) \/ m = 2 * (k - 1) + 1
        <5>. DEFINE k == m \div 2 + 1
        <5>1. m \in Nat /\ m <= 2 * n - 1
          BY <1>1, <4>2
        <5>2. k \in Int /\ 2 * (k - 1) <= m /\ m <= 2 * (k - 1) + 1
          BY <5>1
        <5>. HIDE DEF k
        <5>3. k \in 1 .. n /\ (m = 2 * (k - 1) \/ m = 2 * (k - 1) + 1)
          BY <1>1, <5>1, <5>2
        <5>. QED  BY <5>3
      <4>4. off # At(c, k)
        BY DEF n
      <4>5. off + 1 = At(c, k) + 2
        <5>1. PICK b \in Nat : b = Base(c) /\ At(c, k) = b + 2 * (k - 1)
          BY <1>1 DEF At
        <5>2. off = b + m /\ off # b + 2 * (k - 1)
          BY <4>2, <4>4, <5>1
        <5>3. off + 1 = b + 2 * (k - 1) + 2
          BY <1>1, <4>3, <5>2
        <5>. QED  BY <5>1, <5>3
      <4>6. a[off + 1] = H!Text(c[k].url)
        BY <1>1, <4>5
      <4>. QED  BY <4>6 DEF H!Text
    <3>. QED  BY <3>1, <3>2
  <2>3. zip[off + 1].cell # "central"
    BY <1>2, <2>1, <2>2, BlotIs
  <2>4. H!Holds(zip, off) /\ ~H!IsCell(zip, off, "central")
    BY <2>1, <2>3 DEF H!Holds, H!IsCell, H!Cell
  <2>5. H!readDirectoryHeader(zip, off) = [err |-> "ErrFormat"]
    BY <2>4, Zenon DEF H!readDirectoryHeader
  <2>6. H!readDirectoryHeader(zip, off).err = "ErrFormat"
    BY <2>5
  <2>. QED  BY <2>5, <2>6
<1>. QED  BY <1>3, <1>4

\* Headers that stand one behind the other are read, each in its place, until
\* something else follows.
LEMMA ListingIs ==
  ASSUME NEW zip, NEW N \in Nat, Len(zip) = N, NEW off, NEW rows, IsSequence(rows),
         NEW h, \A at \in off[0] .. N : h[at] = H!readDirectoryHeader(zip, at),
         Chain(h, N, off, rows), Onward(h, off[0], N), off[0] \in 0 .. N
  PROVE  H!DirectoryFrom(zip, off[0]) = FoundFiles("ErrFormat", rows)
<1>1. PICK r : /\ Follows(h, off[0], N, r)
               /\ H!DirectoryFrom(zip, off[0]) = r[off[0]]
  <2>. DEFINE P(g) == g = [at \in off[0] .. N |-> After(H!readDirectoryHeader(zip, at), g)]
              r == CHOOSE g : P(g)
  <2>1. ASSUME NEW g PROVE P(g) <=> Follows(h, off[0], N, g)
    BY DEF Follows
  <2>. HIDE DEF P
  <2>2. \E g : Follows(h, off[0], N, g)
    <3>1. off[0] \in Nat /\ off[0] <= N
      OBVIOUS
    <3>. QED  BY <3>1, FollowingExists
  <2>3. P(r)
    <3>1. \E g : P(g)
      BY <2>1, <2>2, Zenon
    <3>. QED  BY <3>1, Zenon
  <2>4. H!DirectoryFrom(zip, off[0]) = r[off[0]]
    BY Zenon DEF H!DirectoryFrom, P, After
  <2>. HIDE DEF r
  <2>. QED  BY <2>1, <2>3, <2>4
<1>2. r[off[0]] = FoundFiles("ErrFormat", rows)
  <2>1. Reads(h, N, off, rows, r)
    BY <1>1 DEF Reads
  <2>. QED  BY <2>1, FollowingIs
<1>. QED  BY <1>1, <1>2

\* The headers before the first that was overwritten are read.
LEMMA DirectoryIs ==
  ASSUME NEW c, IsCache(c), Len(H!Archive(c)) <= uint32max,
         NEW zip, Like(H!Archive(c), zip)
  PROVE  \E m \in 0 .. Len(c) : \E rows :
           /\ IsSequence(rows) /\ Len(rows) = m
           /\ \A k \in 1 .. m : IsFile(c, zip, k, rows[k])
           /\ H!DirectoryFrom(zip, Base(c)) = FoundFiles("ErrFormat", rows)
           /\ zip = H!Archive(c) => m = Len(c)
<1>. DEFINE Head1(at) == H!readDirectoryHeader(zip, at)
            Bad == {k \in Nat : /\ k <= Len(c)
                                /\ k < Len(c) => Head1(At(c, k + 1)) = [err |-> "ErrFormat"]}
<1>0. PICK n \in Nat : n = Len(c)
  BY SequenceFacts DEF IsCache
<1>1. PICK b \in Nat : /\ b = Base(c)
                       /\ \A k \in Int : At(c, k + 1) = b + 2 * k /\ At(c, k) = b + 2 * (k - 1)
  <2>1. Base(c) \in Nat
    BY ArchiveIs
  <2>2. \A k \in Int : k + 1 - 1 = k
    OBVIOUS
  <2>3. \A k \in Int : At(c, k + 1) = Base(c) + 2 * k /\ At(c, k) = Base(c) + 2 * (k - 1)
    BY <2>1, <2>2 DEF At
  <2>. QED  BY <2>1, <2>3
<1>2. PICK N \in Nat : N = Len(zip) /\ N = b + 2 * n + 1
  <2>1. Len(zip) = Base(c) + 2 * Len(c) + 1
    BY ArchiveIs DEF Like
  <2>. QED  BY <1>0, <1>1, <2>1
<1>3. ASSUME NEW k \in 1 .. n
      PROVE  \/ Head1(At(c, k)) = [err |-> "ErrFormat"] /\ zip # H!Archive(c)
             \/ /\ Head1(At(c, k)) =
                     [err |-> "none", next |-> At(c, k) + 2, file |-> Head1(At(c, k)).file]
                /\ IsFile(c, zip, k, Head1(At(c, k)).file)
  BY <1>0, HeaderAt
<1>4. ASSUME NEW off \in b .. N, \A k \in 1 .. n : off # At(c, k)
      PROVE  /\ Head1(off).err # "none"
             /\ off = b + 2 * n => Head1(off) = [err |-> "ErrFormat"]
  <2>1. off \in Base(c) .. Len(zip)
    BY <1>1, <1>2
  <2>2. \A k \in 1 .. Len(c) : off # At(c, k)
    BY <1>0, <1>4
  <2>3. /\ Head1(off).err # "none"
        /\ off = Base(c) + 2 * Len(c) => Head1(off) = [err |-> "ErrFormat"]
    BY <2>1, <2>2, NoHeaderAt
  <2>. QED  BY <1>0, <1>1, <2>3
<1>. HIDE DEF Head1
<1>5. PICK m \in Bad : \A k \in Bad : ~(k < m)
  <2>1. Bad \subseteq Nat /\ n \in Bad
    BY <1>0
  <2>. HIDE DEF Bad
  <2>2. Bad # {}
    BY <2>1
  <2>. QED  BY <2>1, <2>2, NatLeast
<1>6. m \in 0 .. n /\ (m < n => Head1(At(c, m + 1)) = [err |-> "ErrFormat"])
  BY <1>0, <1>5
<1>7. ASSUME NEW k \in 0 .. m - 1 PROVE Head1(At(c, k + 1)) # [err |-> "ErrFormat"]
  <2>1. k \in Nat /\ k < m /\ k <= n
    BY <1>6
  <2>2. k \notin Bad
    <3>. HIDE DEF Bad
    <3>. QED  BY <1>5, <2>1
  <2>. QED  BY <1>0, <2>1, <2>2
<1>. HIDE DEF Bad
<1>. DEFINE rows == [k \in 1 .. m |-> Head1(At(c, k)).file]
            off == [k \in 0 .. m |-> b + 2 * k]
            h == [at \in b .. N |-> Head1(at)]
<1>8. IsSequence(rows) /\ Len(rows) = m /\ \A k \in 1 .. m : rows[k] = Head1(At(c, k)).file
  <2>1. /\ rows = [k \in 1 .. m |-> rows[k]] /\ m \in Nat
        /\ \A k \in 1 .. m : rows[k] = Head1(At(c, k)).file
    BY <1>6
  <2>. HIDE DEF rows
  <2>. QED  BY <2>1, FunctionIs
<1>9. off[0] = b /\ \A k \in 0 .. m : off[k] = b + 2 * k /\ off[k] \in b .. N
  <2>1. 0 \in 0 .. m /\ b + 2 * 0 = b
    BY <1>6
  <2>2. \A k \in 0 .. m : b + 2 * k \in b .. N
    BY <1>2, <1>6
  <2>3. \A k \in 0 .. m : off[k] = b + 2 * k
    OBVIOUS
  <2>. HIDE DEF off
  <2>. QED  BY <2>1, <2>2, <2>3
<1>10. \A at \in b .. N : h[at] = Head1(at)
  OBVIOUS
<1>. HIDE DEF rows, off, h
<1>11. ASSUME NEW k \in 0 .. m - 1
       PROVE  /\ Head1(b + 2 * k) = [err |-> "none", next |-> b + 2 * (k + 1), file |-> rows[k + 1]]
              /\ IsFile(c, zip, k + 1, rows[k + 1])
  <2>1. k + 1 \in 1 .. n /\ k + 1 \in 1 .. m /\ k \in Int /\ b + 2 * k + 2 = b + 2 * (k + 1)
    BY <1>6
  <2>2. At(c, k + 1) = b + 2 * k
    BY <1>1, <2>1
  <2>3. /\ Head1(At(c, k + 1)) =
             [err |-> "none", next |-> At(c, k + 1) + 2, file |-> Head1(At(c, k + 1)).file]
        /\ IsFile(c, zip, k + 1, Head1(At(c, k + 1)).file)
    BY <1>3, <1>7, <2>1, Zenon
  <2>4. rows[k + 1] = Head1(At(c, k + 1)).file
    BY <1>8, <2>1
  <2>. QED  BY <2>1, <2>2, <2>3, <2>4
<1>12. Head1(b + 2 * m) = [err |-> "ErrFormat"]
  <2>1. CASE m < n
    <3>1. At(c, m + 1) = b + 2 * m
      BY <1>1, <1>6
    <3>. QED  BY <1>6, <2>1, <3>1
  <2>2. CASE ~(m < n)
    <3>1. m = n /\ b + 2 * n \in b .. N
      BY <1>2, <1>6, <2>2
    <3>2. \A k \in 1 .. n : b + 2 * n # At(c, k)
      <4>. SUFFICES ASSUME NEW k \in 1 .. n PROVE b + 2 * n # At(c, k)
        OBVIOUS
      <4>1. At(c, k) = b + 2 * (k - 1)
        BY <1>1
      <4>. QED  BY <4>1
    <3>. QED  BY <1>4, <3>1, <3>2
  <2>. QED  BY <2>1, <2>2
<1>13. Chain(h, N, off, rows)
  <2>1. \A k \in 0 .. m - 1 : k \in 0 .. m /\ k + 1 \in 0 .. m
    BY <1>6
  <2>2. m \in 0 .. m /\ 0 \in 0 .. m
    BY <1>6
  <2>3. \A k \in 0 .. m : off[k] \in Nat /\ off[k] <= N /\ off[0] <= off[k]
    BY <1>9
  <2>4. \A k \in 0 .. m - 1 :
          h[off[k]] = [err |-> "none", next |-> off[k + 1], file |-> rows[k + 1]]
    <3>. SUFFICES ASSUME NEW k \in 0 .. m - 1
         PROVE  h[off[k]] = [err |-> "none", next |-> off[k + 1], file |-> rows[k + 1]]
      OBVIOUS
    <3>1. off[k] = b + 2 * k /\ off[k + 1] = b + 2 * (k + 1) /\ off[k] \in b .. N
      BY <1>9, <2>1
    <3>. QED  BY <1>10, <1>11, <3>1
  <2>5. h[off[m]] = [err |-> "ErrFormat"]
    <3>1. off[m] = b + 2 * m /\ off[m] \in b .. N
      BY <1>9, <2>2
    <3>. QED  BY <1>10, <1>12, <3>1
  <2>. QED  BY <1>8, <2>1, <2>2, <2>3, <2>4, <2>5, Zenon DEF Chain
<1>14. Onward(h, off[0], N)
  <2>. SUFFICES ASSUME NEW at \in b .. N
       PROVE  h[at].err # "none" \/ h[at].next \in at + 1 .. N
    BY <1>9 DEF Onward
  <2>1. CASE \E k \in 1 .. n : at = At(c, k)
    <3>1. PICK k \in 1 .. n : at = At(c, k)
      BY <2>1
    <3>2. At(c, k) = b + 2 * (k - 1)
      BY <1>1
    <3>3. at + 2 \in at + 1 .. N
      <4>1. at = b + 2 * (k - 1) /\ k <= n /\ k \in Int
        BY <3>1, <3>2
      <4>2. \A q \in Int : q <= n => b + 2 * (q - 1) + 2 <= N
        BY <1>2
      <4>. QED  BY <4>1, <4>2
    <3>4. \/ Head1(at) = [err |-> "ErrFormat"]
          \/ Head1(at) = [err |-> "none", next |-> at + 2, file |-> Head1(at).file]
      BY <1>3, <3>1
    <3>5. Head1(at).err # "none" \/ Head1(at).next = at + 2
      BY <3>4
    <3>. QED  BY <1>10, <3>3, <3>5
  <2>2. CASE \A k \in 1 .. n : at # At(c, k)
    BY <1>4, <1>10, <2>2
  <2>. QED  BY <2>1, <2>2
<1>15. H!DirectoryFrom(zip, b) = FoundFiles("ErrFormat", rows)
  <2>1. \A at \in off[0] .. N : h[at] = H!readDirectoryHeader(zip, at)
    BY <1>9, <1>10 DEF Head1
  <2>2. off[0] \in 0 .. N
    BY <1>2, <1>9
  <2>3. H!DirectoryFrom(zip, off[0]) = FoundFiles("ErrFormat", rows)
    BY <1>2, <1>8, <1>13, <1>14, <2>1, <2>2, ListingIs
  <2>. QED  BY <1>9, <2>3
<1>16. zip = H!Archive(c) => m = n
  <2>. SUFFICES ASSUME zip = H!Archive(c), m < n PROVE FALSE
    BY <1>6
  <2>1. m + 1 \in 1 .. n
    BY <1>6
  <2>2. Head1(At(c, m + 1)).err = "none" /\ Head1(At(c, m + 1)).err = "ErrFormat"
    BY <1>3, <1>6, <2>1
  <2>. QED  BY <2>2
<1>17. \A k \in 1 .. m : IsFile(c, zip, k, rows[k])
  <2>. SUFFICES ASSUME NEW k \in 1 .. m PROVE IsFile(c, zip, k, rows[k])
    OBVIOUS
  <2>1. k - 1 \in 0 .. m - 1 /\ k - 1 + 1 = k
    BY <1>6
  <2>2. IsFile(c, zip, k - 1 + 1, rows[k - 1 + 1])
    BY <1>11, <2>1, Zenon
  <2>. QED  BY <2>1, <2>2
<1>. QED  BY <1>0, <1>1, <1>6, <1>8, <1>15, <1>16, <1>17

\* What OpenReader makes of a cache, whole or damaged.
Reopens(c, zip) ==
  LET r == H!OpenReader(zip)
  IN /\ zip = H!Archive(c) => r.err = "none" /\ Len(r.files) = Len(c)
     /\ r.err = "none" =>
          /\ IsSequence(r.files) /\ Len(r.files) <= Len(c)
          /\ H!Narrow16(Len(r.files)) = H!Narrow16(Len(c))
          /\ \A k \in 1 .. Len(r.files) : IsFile(c, zip, k, r.files[k])

\* A number that was narrowed is not changed by narrowing it again.
LEMMA NarrowTwice ==
  ASSUME NEW n \in Nat PROVE H!Narrow16(H!Narrow16(n)) = H!Narrow16(n)
<1>1. \A d \in Nat \ {0} : n % d \in 0 .. d - 1
  OBVIOUS
<1>2. \A d \in Nat \ {0} : \A r \in 0 .. d - 1 : r % d = r
  OBVIOUS
<1>3. uint16max + 1 \in Nat \ {0}
  BY HttrackAssumption
<1>. QED  BY <1>1, <1>2, <1>3 DEF H!Narrow16

LEMMA OpenerIs ==
  ASSUME NEW c, IsCache(c), Len(H!Archive(c)) <= uint32max,
         NEW zip, Like(H!Archive(c), zip), zip = H!Archive(c) \/ Bare(c)
  PROVE  Reopens(c, zip)
<1>1. CASE zip # H!Archive(c) /\ H!OpenReader(zip) = [err |-> "ErrFormat"]
  <2>1. H!OpenReader(zip).err = "ErrFormat"
    BY <1>1
  <2>. QED  BY <1>1, <2>1 DEF Reopens
<1>2. CASE H!readDirectoryEnd(zip) = EndRead(c, zip)
  <2>0. PICK m \in 0 .. Len(c) : \E rows :
           /\ IsSequence(rows) /\ Len(rows) = m
           /\ \A k \in 1 .. m : IsFile(c, zip, k, rows[k])
           /\ H!DirectoryFrom(zip, Base(c)) = FoundFiles("ErrFormat", rows)
           /\ zip = H!Archive(c) => m = Len(c)
    BY DirectoryIs, Zenon
  <2>1. PICK rows :
           /\ IsSequence(rows) /\ Len(rows) = m
           /\ \A k \in 1 .. m : IsFile(c, zip, k, rows[k])
           /\ H!DirectoryFrom(zip, Base(c)) = FoundFiles("ErrFormat", rows)
           /\ zip = H!Archive(c) => m = Len(c)
    BY <2>0, Zenon
  <2>. DEFINE end == EndRead(c, zip)
              found == FoundFiles("ErrFormat", rows)
              whole == [err |-> "none", files |-> rows, comment |-> end.comment]
  <2>2. /\ end.err = "none" /\ end.records = H!Narrow16(Len(c)) /\ end.offset = Base(c)
        /\ found.err = "ErrFormat" /\ found.files = rows /\ found.err # "EOF"
        /\ whole.err = "none" /\ whole.files = rows
    BY DEF EndRead, FoundFiles
  <2>. HIDE DEF end, found
  <2>3. H!OpenReader(zip) = H!Opened(end, found)
    BY <1>2, <2>1, <2>2, Zenon DEF H!OpenReader, end, found
  <2>4. Len(c) \in Nat
    BY SequenceFacts DEF IsCache
  <2>5. H!Narrow16(end.records) = H!Narrow16(Len(c))
    BY <2>2, <2>4, NarrowTwice
  <2>6. CASE H!Narrow16(m) # H!Narrow16(Len(c))
    <3>1. H!Opened(end, found) = [err |-> "ErrFormat"]
      BY <2>1, <2>2, <2>5, <2>6, Zenon DEF H!Opened
    <3>2. H!OpenReader(zip).err = "ErrFormat"
      BY <2>3, <3>1
    <3>. QED  BY <2>1, <2>6, <3>2 DEF Reopens
  <2>7. CASE H!Narrow16(m) = H!Narrow16(Len(c))
    <3>1. H!OpenReader(zip) = whole
      BY <2>1, <2>2, <2>3, <2>5, <2>7, Zenon DEF H!Opened
    <3>. HIDE DEF whole
    <3>2. H!OpenReader(zip).err = "none" /\ H!OpenReader(zip).files = rows
      BY <2>2, <3>1
    <3>3. m <= Len(c)
      BY <2>1, <2>4
    <3>. QED  BY <2>1, <2>7, <3>2, <3>3, Zenon DEF Reopens
  <2>. QED  BY <2>6, <2>7
<1>. QED  BY <1>1, <1>2, EndIs

-----------------------------------------------------------------------------
(* Reading a file of a cache.                                              *)

\* The cells of a file, where its header says.
IsThere(zip, at, s) ==
  /\ at \in Nat /\ at + Len(s) <= Len(zip)
  /\ \A q \in 1 .. Len(s) : zip[at + q] = s[q] \/ Blot(zip[at + q])

LEMMA FileThere ==
  ASSUME NEW c, IsCache(c), NEW zip, Like(H!Archive(c), zip), NEW k \in 1 .. Len(c)
  PROVE  /\ IsThere(zip, Place(c, k - 1), H!LocalPart(c[k]))
         /\ zip = H!Archive(c) => Stands(zip, Place(c, k - 1), H!LocalPart(c[k]))
<1>. DEFINE a == H!Archive(c)
            s == H!LocalPart(c[k])
            o == Place(c, k - 1)
<1>1. Stands(a, o, s) /\ IsSequence(a) /\ Len(a) \in Nat
  BY ArchiveIs, SequenceFacts
<1>2. Len(zip) = Len(a) /\ \A q \in 1 .. Len(a) : zip[q] = a[q] \/ Blot(zip[q])
  BY DEF Like
<1>. HIDE DEF a, s, o
<1>3. o \in Nat /\ o + Len(s) <= Len(a) /\ Len(s) \in Nat /\ \A q \in 1 .. Len(s) : a[o + q] = s[q]
  BY <1>1, SequenceFacts DEF Stands
<1>4. \A q \in 1 .. Len(s) : o + q \in 1 .. Len(a)
  BY <1>1, <1>3
<1>5. IsThere(zip, o, s)
  BY <1>2, <1>3, <1>4 DEF IsThere
<1>6. zip = a => Stands(zip, o, s)
  BY <1>1
<1>. QED  BY <1>5, <1>6 DEF a, s, o

\* What is read of a local header.
LEMMA LocalAt ==
  ASSUME NEW c, IsCache(c), NEW zip, Like(H!Archive(c), zip), NEW k \in 1 .. Len(c),
         NEW r, IsFile(c, zip, k, r)
  PROVE  LET o == Place(c, k - 1)
         IN /\ o \in Nat /\ o + 3 <= Len(zip) /\ IsSequence(zip)
            /\ \/ H!LocalError(zip, r) = "ErrFormat" /\ zip # H!Archive(c)
               \/ /\ H!LocalError(zip, r) = "none"
                  /\ H!findBodyOffset(zip, r) = o + 3
                  /\ H!LocalExtraField(zip, r) = [err |-> "none", extra |-> <<zip[o + 3]>>]
            /\ zip = H!Archive(c) => zip[o + 3] = c[k].response
<1>. DEFINE s == H!LocalPart(c[k])
            o == Place(c, k - 1)
            x == LocalCell(c[k])
            b == BodyPart(c[k])
<1>1. /\ IsSequence(s) /\ Len(s) = 3 + Len(b) /\ s[1] = x /\ s[3] = c[k].response
      /\ Len(b) \in Nat
  <2>1. IsItem(c[k])
    BY DEF IsCache
  <2>. QED  BY <2>1, LocalPartIs, SequenceFacts
<1>2. IsThere(zip, o, s) /\ (zip = H!Archive(c) => Stands(zip, o, s))
  BY FileThere
<1>3. IsSequence(zip) /\ Len(zip) \in Nat
  BY SequenceFacts DEF Like
<1>4. x.cell = "local" /\ x.nameLen = 1 /\ x.extraLen = 1
  BY DEF LocalCell
<1>5. r.offset = o
  BY DEF IsFile
<1>. HIDE DEF s, o, x, b
<1>6. /\ o \in Nat /\ o + 3 <= Len(zip)
      /\ zip[o + 1] = x \/ Blot(zip[o + 1])
  <2>1. 1 \in 1 .. Len(s) /\ 3 \in 1 .. Len(s) /\ o \in Nat /\ o + Len(s) <= Len(zip)
    BY <1>1, <1>2 DEF IsThere
  <2>2. zip[o + 1] = s[1] \/ Blot(zip[o + 1])
    BY <1>2, <2>1 DEF IsThere
  <2>. QED  BY <1>1, <1>3, <2>1, <2>2
<1>7. zip = H!Archive(c) => zip[o + 1] = x /\ zip[o + 3] = c[k].response
  <2>1. 1 \in 1 .. Len(s) /\ 3 \in 1 .. Len(s)
    BY <1>1
  <2>. QED  BY <1>1, <1>2, <2>1 DEF Stands
<1>8. H!Holds(zip, o) /\ H!Cell(zip, o) = zip[o + 1]
  BY <1>3, <1>6 DEF H!Holds, H!Cell
<1>9. CASE Blot(zip[o + 1])
  <2>0. zip[o + 1].cell # "local"
    BY <1>9, BlotIs
  <2>1. ~H!IsCell(zip, o, "local") /\ zip # H!Archive(c)
    BY <1>4, <1>7, <1>8, <2>0 DEF H!IsCell
  <2>2. H!LocalError(zip, r) = "ErrFormat"
    BY <1>5, <1>8, <2>1, Zenon DEF H!LocalError
  <2>. QED  BY <1>3, <1>6, <1>7, <2>1, <2>2 DEF o
<1>10. CASE zip[o + 1] = x
  <2>1. H!IsCell(zip, o, "local") /\ H!Cell(zip, o) = x
    BY <1>4, <1>8, <1>10 DEF H!IsCell
  <2>2. H!LocalError(zip, r) = "none"
    BY <1>5, <1>8, <2>1, Zenon DEF H!LocalError
  <2>3. /\ o + 1 + 1 = o + 2 /\ o + 2 + 1 = o + 3 /\ ~(o + 3 > Len(zip))
        /\ o + 2 \in 0 .. Len(zip) /\ o + 2 < Len(zip)
    BY <1>3, <1>6
  <2>4. H!findBodyOffset(zip, r) = o + 3
    BY <1>4, <1>5, <2>1, <2>3 DEF H!findBodyOffset
  <2>5. H!Cells(zip, o + 2, 1) = <<zip[o + 3]>>
    BY <1>3, <2>3, CellsAre
  <2>6. H!LocalExtraField(zip, r) = [err |-> "none", extra |-> <<zip[o + 3]>>]
    BY <1>4, <1>5, <2>1, <2>2, <2>3, <2>5, Zenon DEF H!LocalExtraField
  <2>. QED  BY <1>3, <1>6, <1>7, <2>2, <2>4, <2>6 DEF o
<1>. QED  BY <1>6, <1>9, <1>10

\* The response in it is the one that is there, or none is found.
LEMMA ResponseAt ==
  ASSUME NEW c, IsCache(c), NEW zip, Like(H!Archive(c), zip), NEW k \in 1 .. Len(c),
         NEW r, IsFile(c, zip, k, r)
  PROVE  LET extra == H!LocalExtraField(zip, r)
         IN /\ H!IsResponse(extra) => Head(extra.extra) = zip[Place(c, k - 1) + 3]
            /\ zip = H!Archive(c) /\ c[k].response.parses =>
                 H!IsResponse(extra) /\ Head(extra.extra) = c[k].response
<1>. DEFINE o == Place(c, k - 1)
            extra == H!LocalExtraField(zip, r)
            y == zip[o + 3]
<1>1. /\ \/ H!LocalError(zip, r) = "ErrFormat" /\ zip # H!Archive(c)
         \/ extra = [err |-> "none", extra |-> <<y>>]
      /\ zip = H!Archive(c) => y = c[k].response
  BY LocalAt
<1>. HIDE DEF y
<1>2. CASE H!LocalError(zip, r) = "ErrFormat" /\ zip # H!Archive(c)
  <2>1. H!LocalError(zip, r) # "none"
    BY <1>2
  <2>2. extra = [err |-> "ErrFormat"]
    BY <1>2, <2>1, Zenon DEF H!LocalExtraField
  <2>. HIDE DEF extra
  <2>3. extra.err # "none"
    BY <2>2
  <2>4. ~H!IsResponse(extra)
    BY <2>3, Zenon DEF H!IsResponse
  <2>. QED  BY <1>2, <2>4, Zenon DEF extra
<1>3. CASE extra = [err |-> "none", extra |-> <<y>>]
  <2>. HIDE DEF extra
  <2>1. extra.err = "none" /\ extra.extra = <<y>>
    BY <1>3
  <2>2. Head(<<y>>) = y /\ <<y>> # <<>>
    OBVIOUS
  <2>3. Head(extra.extra) = y /\ extra.extra # <<>>
    BY <2>1, <2>2
  <2>4. H!IsResponse(extra) <=> y.cell = "response" /\ y.parses
    BY <2>1, <2>3, Zenon DEF H!IsResponse
  <2>5. c[k].response.cell = "response"
    <3>1. IsItem(c[k])
      BY DEF IsCache
    <3>. QED  BY <3>1 DEF IsItem, H!Response
  <2>6. zip = H!Archive(c) /\ c[k].response.parses => H!IsResponse(extra)
    BY <1>1, <2>4, <2>5
  <2>. QED  BY <1>1, <2>3, <2>6, Zenon DEF extra, y, o
<1>. QED  BY <1>1, <1>2, <1>3

\* What is read of a file without a descriptor, and checked against its header.
IsChecked(d, zip, r, body, after, x) ==
  /\ IsSequence(d) /\ r.descriptor = FALSE /\ r.crc = d /\ r.usize = Len(d)
  /\ body.err = "none" /\ IsSequence(body.data)
  /\ x = H!Checked(zip, r, body, after)

\* The checksum and the size together: what is accepted is what was stored.
LEMMA CheckedIs ==
  ASSUME NEW d, NEW zip, NEW r, NEW body, NEW after, NEW x,
         IsChecked(d, zip, r, body, after, x)
  PROVE  /\ x.err = "none" => x = body /\ body.data = d
         /\ body.data = d => x = body
<1>0. /\ IsSequence(d) /\ r.descriptor = FALSE /\ r.crc = d /\ r.usize = Len(d)
      /\ body.err = "none" /\ IsSequence(body.data)
      /\ x = H!Checked(zip, r, body, after)
  BY Zenon DEF IsChecked
<1>1. CASE Len(body.data) # Len(d)
  <2>1. x = [err |-> "ErrUnexpectedEOF"]
    BY <1>0, <1>1, Zenon DEF H!Checked
  <2>2. x.err # "none"
    BY <2>1
  <2>. QED  BY <1>1, <2>2
<1>2. CASE Len(body.data) = Len(d) /\ d # <<>> /\ body.data # d
  <2>1. x = [err |-> "ErrChecksum"]
    BY <1>0, <1>2, Zenon DEF H!Checked, H!Crc32
  <2>2. x.err # "none"
    BY <2>1
  <2>. QED  BY <1>2, <2>2
<1>3. CASE Len(body.data) = Len(d) /\ (d = <<>> \/ body.data = d)
  <2>1. x = body
    BY <1>0, <1>3, Zenon DEF H!Checked, H!Crc32
  <2>2. body.data = d
    <3>. SUFFICES ASSUME d = <<>> PROVE body.data = d
      BY <1>3
    <3>1. Len(body.data) = 0 /\ Len(d) = 0
      BY <1>3, NoneIsSequence
    <3>2. \A q \in 1 .. Len(body.data) : body.data[q] = d[q]
      BY <3>1
    <3>. QED  BY <1>0, <3>1, <3>2, SameSequence
  <2>. QED  BY <2>1, <2>2
<1>. QED  BY <1>1, <1>2, <1>3

\* The body is read as it was stored, or not at all (reader.go:223-258).
LEMMA BodyAt ==
  ASSUME NEW c, IsCache(c), NEW zip, Like(H!Archive(c), zip), NEW k \in 1 .. Len(c),
         NEW r, IsFile(c, zip, k, r)
  PROVE  LET read == H!ReadAll(zip, r)
         IN /\ read.err = "none" => read.data = c[k].body
            /\ zip = H!Archive(c) /\ c[k].method \in H!Decompressors => read.err = "none"
<1>. DEFINE read == H!ReadAll(zip, r)
            o == Place(c, k - 1)
            s == H!LocalPart(c[k])
            b == BodyPart(c[k])
            d == c[k].body
<1>1. CASE H!LocalError(zip, r) # "none"
  <2>1. read = [err |-> H!LocalError(zip, r)]
    BY <1>1, Zenon DEF H!ReadAll
  <2>2. zip # H!Archive(c)
    BY <1>1, LocalAt
  <2>. HIDE DEF read
  <2>3. read.err # "none"
    BY <1>1, <2>1
  <2>. QED  BY <2>2, <2>3 DEF read
<1>2. CASE H!LocalError(zip, r) = "none" /\ c[k].method \notin H!Decompressors
  <2>1. r.method = c[k].method
    BY DEF IsFile
  <2>2. read = [err |-> "ErrAlgorithm"]
    BY <1>2, <2>1, Zenon DEF H!ReadAll
  <2>. HIDE DEF read
  <2>3. read.err # "none"
    BY <2>2
  <2>. QED  BY <1>2, <2>3 DEF read
<1>3. CASE H!LocalError(zip, r) = "none" /\ c[k].method \in H!Decompressors
  <2>1. /\ r.method = c[k].method /\ r.csize = Len(b) /\ r.usize = Len(d) /\ r.crc = d
        /\ r.descriptor = FALSE
    BY DEF IsFile
  <2>2. IsItem(c[k])
    BY DEF IsCache
  <2>3. /\ IsSequence(b) /\ Len(b) \in Nat /\ IsSequence(d) /\ Len(s) = 3 + Len(b)
        /\ IsSequence(s) /\ Stands(s, 3, b)
    BY <2>2, LocalPartIs, SequenceFacts DEF IsItem
  <2>4. IsThere(zip, o, s) /\ (zip = H!Archive(c) => Stands(zip, o, s))
    BY FileThere
  <2>5. IsSequence(zip) /\ Len(zip) \in Nat
    BY SequenceFacts DEF Like
  <2>6. H!findBodyOffset(zip, r) = o + 3
    BY <1>3, LocalAt
  <2>. DEFINE cells == SubSeq(zip, o + 3 + 1, o + 3 + Len(b))
              Z == {zip[q] : q \in DOMAIN zip}
  <2>7. zip \in Seq(Z)
    BY <2>5, Zenon DEF IsSequence
  <2>. HIDE DEF read, o, s, Z
  <2>8. o \in Nat /\ o + 3 + Len(b) <= Len(zip)
    <3>. HIDE DEF b
    <3>. QED  BY <2>3, <2>4, <2>5 DEF IsThere
  <2>9. cells \in Seq(Z) /\ Len(cells) = Len(b) /\ \A q \in 1 .. Len(b) : cells[q] = zip[o + 3 + q]
    <3>. DEFINE m == o + 3
                l == Len(b)
    <3>1. m \in Nat /\ l \in Nat /\ m + l <= Len(zip)
      BY <2>3, <2>8
    <3>. HIDE DEF m, l
    <3>2. LET u == SubSeq(zip, m + 1, m + l)
          IN u \in Seq(Z) /\ Len(u) = l /\ \A q \in 1 .. l : u[q] = zip[m + q]
      BY <2>7, <3>1, SliceIs
    <3>. QED  BY <3>2, Zenon DEF m, l
  <2>10. zip = H!Archive(c) => cells = b
    <3>. SUFFICES ASSUME zip = H!Archive(c) PROVE cells = b
      OBVIOUS
    <3>1. Stands(zip, o + 3, b)
      BY <2>3, <2>4, <2>5, StandsWithin
    <3>. QED  BY <2>5, <3>1, StandsCells
  <2>11. \A q \in 1 .. Len(b) : cells[q] = b[q] \/ Blot(cells[q])
    <3>. SUFFICES ASSUME NEW q \in 1 .. Len(b) PROVE cells[q] = b[q] \/ Blot(cells[q])
      OBVIOUS
    <3>. HIDE DEF b, cells
    <3>1. 3 + q \in 1 .. Len(s) /\ o + (3 + q) = o + 3 + q
      BY <2>3, <2>8
    <3>2. zip[o + (3 + q)] = s[3 + q] \/ Blot(zip[o + (3 + q)])
      BY <2>4, <3>1, Zenon DEF IsThere
    <3>3. s[3 + q] = b[q]
      BY <2>3, Zenon DEF Stands
    <3>. QED  BY <2>9, <3>1, <3>2, <3>3
  <2>. HIDE DEF cells
  <2>12. H!Min({o + 3 + Len(b), Len(zip)}) = o + 3 + Len(b)
    <3>. DEFINE m == o + 3 + Len(b)
                R == {m, Len(zip)}
    <3>1. m \in R /\ m \in Int /\ \A y \in R : y \in Int /\ m <= y
      BY <2>3, <2>5, <2>8
    <3>. HIDE DEF m, R
    <3>2. Min(R) = m
      BY <3>1, MinIs
    <3>. QED  BY <3>2, HttrackOperators DEF R, m
  <2>. DEFINE body == H!Decompressed(c[k].method, cells)
              after == o + 3 + Len(b)
  <2>. HIDE DEF b
  <2>13. read = H!Checked(zip, r, body, after)
    BY <1>3, <2>1, <2>6, <2>12, Zenon DEF read, H!ReadAll, H!ReadBody, cells
  <2>14. \/ body.err # "none" /\ zip # H!Archive(c)
         \/ body.err = "none" /\ IsSequence(body.data) /\ (zip = H!Archive(c) => body.data = d)
    <3>1. CASE c[k].method = "Store"
      <4>1. body = [err |-> "none", data |-> cells]
        BY <3>1, Zenon DEF H!Decompressed
      <4>2. body.err = "none" /\ body.data = cells
        BY <4>1
      <4>3. IsSequence(cells)
        BY <2>9, SequenceIs
      <4>4. b = d
        BY <3>1 DEF b, BodyPart
      <4>. QED  BY <2>10, <4>2, <4>3, <4>4
    <3>2. CASE c[k].method = "Deflate"
      <4>. DEFINE y == [cell |-> "deflated", content |-> d]
      <4>1. b = <<y>> /\ y.cell = "deflated" /\ y.content = d
        BY <3>2, Zenon DEF b, BodyPart
      <4>. HIDE DEF y
      <4>2. Len(b) = 1 /\ b[1] = y /\ 1 \in 1 .. Len(b)
        BY <4>1, OneIsSequence
      <4>3. cells[1] = y \/ Blot(cells[1])
        BY <2>11, <4>2
      <4>4. cells # <<>> /\ Head(cells) = cells[1]
        <5>1. Len(cells) = 1
          BY <2>9, <4>2
        <5>. QED  BY <2>9, <5>1
      <4>5. c[k].method # "Store" /\ (zip = H!Archive(c) => cells[1] = y)
        BY <2>10, <3>2, <4>2
      <4>6. CASE cells[1].cell = "deflated"
        <5>. DEFINE z == cells[1].content
        <5>0. IsSequence(z) /\ (cells[1] = y => z = d)
          BY <2>3, <4>1, <4>3, <4>6, BlotIs
        <5>. HIDE DEF z
        <5>1. body = [err |-> "none", data |-> z]
          BY <4>4, <4>5, <4>6, Zenon DEF H!Decompressed, z
        <5>. HIDE DEF body
        <5>2. body.err = "none" /\ body.data = z
          BY <5>1
        <5>. QED  BY <4>5, <5>0, <5>2
      <4>7. CASE cells[1].cell # "deflated"
        <5>1. body = [err |-> "CorruptInput"]
          BY <4>4, <4>5, <4>7, Zenon DEF H!Decompressed
        <5>. HIDE DEF body
        <5>2. body.err # "none"
          BY <5>1
        <5>3. zip # H!Archive(c)
          BY <4>1, <4>5, <4>7
        <5>. QED  BY <5>2, <5>3
      <4>. QED  BY <4>6, <4>7
    <3>. QED  BY <1>3, <3>1, <3>2 DEF H!Decompressors
  <2>. HIDE DEF body, after, d
  <2>15. CASE body.err # "none" /\ zip # H!Archive(c)
    <3>1. read = body
      BY <2>13, <2>15, Zenon DEF H!Checked
    <3>. QED  BY <2>15, <3>1 DEF read
  <2>16. CASE body.err = "none" /\ IsSequence(body.data) /\ (zip = H!Archive(c) => body.data = d)
    <3>1. /\ read.err = "none" => read = body /\ body.data = d
          /\ body.data = d => read = body
      <4>1. IsChecked(d, zip, r, body, after, read)
        BY <2>1, <2>3, <2>13, <2>16, Zenon DEF IsChecked
      <4>. QED  BY <4>1, CheckedIs
    <3>. QED  BY <2>16, <3>1 DEF read, d
  <2>. QED  BY <2>14, <2>15, <2>16
<1>. QED  BY <1>1, <1>2, <1>3

-----------------------------------------------------------------------------
(* The commands that read a cache.                                         *)

\* What the assumptions say of the cache that is read.
LEMMA StoredIs ==
  ASSUME stored \in Stored
  PROVE  /\ IsCache(stored) /\ Len(H!Archive(stored)) <= uint32max
         /\ IsSequence(stored) /\ Len(stored) \in Nat /\ DOMAIN stored = 1 .. Len(stored)
         /\ ~H!HoldsArchive => Bare(stored)
<1>1. /\ IsSequence(stored)
      /\ \A k \in DOMAIN stored : IsItem(stored[k])
      /\ Len(H!Archive(stored)) <= uint32max
  BY HttrackAssumption DEF IsItem
<1>2. Len(stored) \in Nat /\ DOMAIN stored = 1 .. Len(stored)
  BY <1>1, SequenceFacts
<1>3. IsCache(stored)
  BY <1>1, <1>2 DEF IsCache
<1>4. ~H!HoldsArchive => Bare(stored)
  <2>. SUFFICES ASSUME ~H!HoldsArchive, NEW k \in 1 .. Len(stored),
                       NEW v \in 1 .. Len(stored[k].body)
                PROVE  stored[k].body[v].cell # "end"
    BY DEF Bare
  <2>1. DOMAIN stored[k].body = 1 .. Len(stored[k].body)
    BY <1>1, <1>2, SequenceFacts DEF IsItem
  <2>. QED  BY <1>2, <2>1 DEF H!HoldsArchive
<1>. QED  BY <1>1, <1>2, <1>3, <1>4

\* What is left is a cache that can be read, or it is not opened.
LEMMA FileIs ==
  ASSUME stored \in Stored, file \in H!Remains(H!Archive(stored)), H!Readable
  PROVE  /\ Reopens(stored, file)
         /\ H!OpenReader(file).err = "none" => Like(H!Archive(stored), file)
<1>. DEFINE a == H!Archive(stored)
<1>1. IsCache(stored) /\ Len(a) <= uint32max /\ IsSequence(a)
      /\ (file = a \/ Bare(stored))
      /\ \A k \in DOMAIN file : file[k].cell \in H!Records => file[k] = a[k]
  BY StoredIs, ArchiveIs DEF H!Readable, H!IsWhole, H!BecameRecord
<1>2. CASE Like(a, file)
  BY <1>1, <1>2, OpenerIs
<1>3. CASE ~Like(a, file)
  <2>1. PICK n \in 0 .. Len(a) - 1 : file = SubSeq(a, 1, n)
    BY <1>1, <1>3, RemainsAre
  <2>2. file # a
    BY <1>1, <1>3 DEF Like
  <2>3. H!OpenReader(file) = [err |-> "ErrFormat"]
    BY <1>1, <2>1, <2>2, CutIs
  <2>. HIDE DEF a
  <2>4. H!OpenReader(file).err # "none"
    BY <2>3
  <2>. QED  BY <2>2, <2>4 DEF Reopens, a
<1>. QED  BY <1>2, <1>3

\* The files that OpenReader returned.
FilesRead ==
  /\ Like(H!Archive(stored), file)
  /\ IsSequence(zipFiles) /\ Len(zipFiles) <= Len(stored)
  /\ H!Narrow16(Len(zipFiles)) = H!Narrow16(Len(stored))
  /\ \A k \in 1 .. Len(zipFiles) : IsFile(stored, file, k, zipFiles[k])
  /\ H!IsWhole => Len(zipFiles) = Len(stored)
  /\ Len(cached) <= Len(zipFiles)

\* Entry k of the cache is what stands at the places of its file k.
IsEntry(k) ==
  /\ k <= Len(stored)
  /\ IsFile(stored, file, k, cached[k].zf)
  /\ cached[k] = H!Entry(cached[k].zf, file[Place(stored, k - 1) + 3])

LEMMA PlacesAre ==
  ASSUME stored \in Stored, NEW k \in 1 .. Len(stored)
  PROVE  /\ H!ResponseOf(k) = file[Place(stored, k - 1) + 3]
         /\ H!NameOf(k) = file[At(stored, k) + 2]
         /\ H!IsWhole => /\ H!ResponseOf(k) = stored[k].response
                         /\ H!NameOf(k) = H!Text(stored[k].url)
<1>. DEFINE a == H!Archive(stored)
            s == H!LocalPart(stored[k])
            o == Place(stored, k - 1)
<1>1. IsCache(stored) /\ Len(stored) \in Nat
  BY StoredIs
<1>2. \A m : H!UpTo(stored, m) = FlattenSeq(Locals(stored, m))
  BY HttrackOperators, Zenon DEF H!UpTo, Locals
<1>3. H!ResponseOf(k) = file[o + 3]
  BY <1>2, Zenon DEF H!ResponseOf, Place
<1>4. /\ Base(stored) \in Nat /\ Stands(a, o, s)
      /\ a[Base(stored) + 2 * (k - 1) + 2] = H!Text(stored[k].url)
  BY <1>1, ArchiveIs
<1>5. H!NameOf(k) = file[At(stored, k) + 2]
  <2>1. H!NameOf(k) = file[Base(stored) + 2 * k]
    BY <1>2, Zenon DEF H!NameOf, Base, DataOf
  <2>2. Base(stored) + 2 * k = At(stored, k) + 2
    <3>1. PICK b \in Nat : b = Base(stored)
      BY <1>4
    <3>2. b + 2 * k = b + 2 * (k - 1) + 2
      BY <3>1
    <3>. QED  BY <3>1, <3>2 DEF At
  <2>. QED  BY <2>1, <2>2
<1>6. a[o + 3] = stored[k].response
  <2>1. IsItem(stored[k])
    BY <1>1 DEF IsCache
  <2>2. Len(s) = 3 + Len(BodyPart(stored[k])) /\ s[3] = stored[k].response
        /\ Len(BodyPart(stored[k])) \in Nat
    BY <2>1, LocalPartIs, SequenceFacts
  <2>3. 3 \in 1 .. Len(s)
    BY <2>2
  <2>. HIDE DEF s, a
  <2>. QED  BY <1>4, <2>2, <2>3, Zenon DEF Stands
<1>. QED  BY <1>3, <1>4, <1>5, <1>6 DEF H!IsWhole, At

Loading ==
  /\ IsSequence(cached) /\ \A k \in 1 .. Len(cached) : IsEntry(k)
  /\ hpc = "start" => cached = <<>>
  /\ hpc \in {"loading", "loaded", "done"} => FilesRead
  /\ hpc \in {"loaded", "done"} => Len(cached) = Len(zipFiles)
  /\ H!IsWhole /\ hpc = "failed" /\ Len(cached) < Len(stored) =>
       ~H!Acceptable(stored[Len(cached) + 1])

HInv ==
  /\ stored \in Stored /\ file \in H!Remains(H!Archive(stored))
  /\ hpc = "failed" => handle = "closed"
  /\ H!Readable => Loading
  /\ H!ShownIsStored

HttrackInv == IF command = "httrack" THEN HInv ELSE HttrackIdle

LEMMA HttrackInit == H!Init => HInv
<1>. SUFFICES ASSUME H!Init PROVE HInv
  OBVIOUS
<1>1. /\ stored \in Stored /\ file \in H!Remains(H!Archive(stored))
      /\ cached = <<>> /\ shown = <<>> /\ hpc = "start"
  BY DEF H!Init
<1>2. IsSequence(cached) /\ Len(cached) = 0
  BY <1>1, NoneIsSequence
<1>3. Loading
  BY <1>1, <1>2 DEF Loading
<1>4. H!ShownIsStored
  BY <1>1 DEF H!ShownIsStored
<1>. QED  BY <1>1, <1>3, <1>4 DEF HInv

\* What show prints is in the file f under the name of the URL, with the body
\* that was stored in the cache c; from an intact file it is the first that was
\* stored for the URL.
WasStored(c, f, x) ==
  x.err = "none" =>
    \E k \in DOMAIN c :
      /\ f[Len(H!UpTo(c, Len(c))) + 2 * k] = H!Text(x.url)
      /\ x.response = f[Len(H!UpTo(c, k - 1)) + 3]
      /\ x.body = c[k].body

IsFirst(c, x) ==
  LET of == {k \in DOMAIN c : c[k].url = x.url}
      first == c[H!Min(of)]
  IN of # {} =>
       \/ x.err = "none" /\ x.response = first.response /\ x.body = first.body
       \/ x.err = "length" /\ first.response.xSize = "number"
                          /\ first.response.size # Len(first.body)
       \/ first.method \notin H!Decompressors

LEMMA ShownIs ==
  H!ShownIsStored <=>
    (H!Readable =>
       \A n \in DOMAIN shown :
         WasStored(stored, file, shown[n]) /\ (H!IsWhole => IsFirst(stored, shown[n])))
BY Zenon DEF H!ShownIsStored, H!NameOf, H!ResponseOf, WasStored, IsFirst

\* The cache and its file do not change, and neither does what is said of them.
LEMMA SameCache ==
  ASSUME UNCHANGED <<stored, file>>
  PROVE  /\ H!IsWhole' <=> H!IsWhole
         /\ H!Readable' <=> H!Readable
         /\ UNCHANGED shown => (H!ShownIsStored' <=> H!ShownIsStored)
<1>1. H!Archive(stored)' = H!Archive(stored)
  BY DEF H!Archive, H!UpTo, H!LocalPart, H!CentralPart
<1>2. H!IsWhole' <=> H!IsWhole
  BY <1>1 DEF H!IsWhole
<1>3. H!Readable' <=> H!Readable
  <2>1. H!HoldsArchive' <=> H!HoldsArchive
    BY DEF H!HoldsArchive
  <2>2. H!BecameRecord' <=> H!BecameRecord
    BY <1>1 DEF H!BecameRecord
  <2>. QED  BY <1>2, <2>1, <2>2 DEF H!Readable
<1>4. ASSUME UNCHANGED shown PROVE H!ShownIsStored' <=> H!ShownIsStored
  <2>1. H!ShownIsStored' <=>
          (H!Readable =>
             \A n \in DOMAIN shown :
               WasStored(stored, file, shown[n]) /\ (H!IsWhole => IsFirst(stored, shown[n])))'
    BY ShownIs, PTL
  <2>. QED  BY <1>2, <1>3, <1>4, <2>1, ShownIs
<1>. QED  BY <1>2, <1>3, <1>4

LEMMA OpenStep ==
  ASSUME HInv, H!Open PROVE HInv'
<1>. DEFINE r == H!OpenReader(file)
<1>1. /\ hpc = "start" /\ UNCHANGED <<stored, file, cached, listed, shown>>
      /\ \/ r.err = "none" /\ zipFiles' = r.files /\ handle' = "open" /\ hpc' = "loading"
         \/ r.err # "none" /\ handle' = "closed" /\ hpc' = "failed" /\ UNCHANGED zipFiles
  BY DEF H!Open, H!Opening
<1>2. /\ stored \in Stored /\ file \in H!Remains(H!Archive(stored))
      /\ H!Readable => Loading
      /\ H!ShownIsStored
  BY DEF HInv
<1>3. /\ H!IsWhole' <=> H!IsWhole
      /\ H!Readable' <=> H!Readable
      /\ H!ShownIsStored'
  BY <1>1, <1>2, SameCache
<1>4. ASSUME H!Readable PROVE Loading'
  <2>1. Reopens(stored, file) /\ (r.err = "none" => Like(H!Archive(stored), file))
    BY <1>2, <1>4, FileIs
  <2>2. cached = <<>> /\ IsSequence(cached) /\ Len(cached) = 0
    BY <1>1, <1>2, <1>4, NoneIsSequence DEF Loading
  <2>3. H!IsWhole => r.err = "none" /\ Len(r.files) = Len(stored)
    BY <2>1 DEF Reopens, H!IsWhole
  <2>4. r.err = "none" =>
          /\ IsSequence(r.files) /\ Len(r.files) <= Len(stored)
          /\ H!Narrow16(Len(r.files)) = H!Narrow16(Len(stored))
          /\ \A k \in 1 .. Len(r.files) : IsFile(stored, file, k, r.files[k])
    BY <2>1 DEF Reopens
  <2>. HIDE DEF r
  <2>5. CASE r.err = "none" /\ zipFiles' = r.files /\ hpc' = "loading"
    <3>1. Len(r.files) \in Nat
      BY <2>4, <2>5, SequenceFacts
    <3>2. FilesRead'
      BY <1>1, <1>3, <2>1, <2>2, <2>3, <2>4, <2>5, <3>1 DEF FilesRead
    <3>. QED  BY <1>1, <2>2, <2>5, <3>2 DEF Loading
  <2>6. CASE r.err # "none" /\ hpc' = "failed"
    BY <1>1, <1>3, <2>2, <2>3, <2>6 DEF Loading
  <2>. QED  BY <1>1, <2>5, <2>6
<1>. QED  BY <1>1, <1>2, <1>3, <1>4 DEF HInv

LEMMA LoadStep ==
  ASSUME HInv, H!Load PROVE HInv'
<1>. DEFINE n == Len(cached)
            r == zipFiles[n + 1]
            extra == H!LocalExtraField(file, r)
            response == Head(extra.extra)
            good == H!IsResponse(extra) /\ response.inCache \in {"", "0", "1"}
<1>1. /\ hpc = "loading" /\ n < Len(zipFiles)
      /\ UNCHANGED <<stored, file, zipFiles, listed, shown>>
      /\ \/ good /\ cached' = Append(cached, H!Entry(r, response)) /\ UNCHANGED <<handle, hpc>>
         \/ ~good /\ handle' = "closed" /\ hpc' = "failed" /\ UNCHANGED cached
  BY DEF H!Load
<1>2. /\ stored \in Stored /\ file \in H!Remains(H!Archive(stored))
      /\ H!Readable => Loading
      /\ H!ShownIsStored
  BY DEF HInv
<1>3. /\ H!IsWhole' <=> H!IsWhole
      /\ H!Readable' <=> H!Readable
      /\ H!ShownIsStored'
  BY <1>1, <1>2, SameCache
<1>4. ASSUME H!Readable PROVE Loading'
  <2>1. IsSequence(cached) /\ FilesRead /\ \A k \in 1 .. n : IsEntry(k)
    BY <1>1, <1>2, <1>4 DEF Loading
  <2>2. /\ n \in Nat /\ Len(zipFiles) \in Nat /\ Len(stored) \in Nat /\ IsCache(stored)
        /\ Len(zipFiles) <= Len(stored)
    BY <1>2, <2>1, SequenceFacts, StoredIs DEF FilesRead
  <2>3. n + 1 \in 1 .. Len(stored) /\ n + 1 \in 1 .. Len(zipFiles)
    <3>1. n < Len(zipFiles)
      BY DEF H!Load
    <3>. HIDE DEF n
    <3>. QED  BY <2>2, <3>1
  <2>. HIDE DEF n
  <2>4. IsFile(stored, file, n + 1, r) /\ Like(H!Archive(stored), file)
    BY <2>1, <2>3 DEF FilesRead
  <2>. HIDE DEF r
  <2>5. /\ H!IsResponse(extra) => response = file[Place(stored, n) + 3]
        /\ H!IsWhole /\ stored[n + 1].response.parses =>
             H!IsResponse(extra) /\ response = stored[n + 1].response
    <3>0. n + 1 - 1 = n
      BY <2>2
    <3>1. /\ H!IsResponse(extra) => response = file[Place(stored, n + 1 - 1) + 3]
          /\ file = H!Archive(stored) /\ stored[n + 1].response.parses =>
               H!IsResponse(extra) /\ response = stored[n + 1].response
      BY <2>2, <2>3, <2>4, ResponseAt
    <3>. HIDE DEF extra, response
    <3>. QED  BY <3>0, <3>1 DEF H!IsWhole
  <2>. HIDE DEF extra, response
  <2>6. CASE good /\ cached' = Append(cached, H!Entry(r, response)) /\ UNCHANGED <<handle, hpc>>
    <3>. DEFINE t == Append(cached, H!Entry(r, response))
    <3>1. IsLonger(cached, H!Entry(r, response), t)
      BY <2>1, LongerIs
    <3>2. /\ IsSequence(t) /\ Len(t) = n + 1 /\ t[n + 1] = H!Entry(r, response)
          /\ \A k \in 1 .. n : t[k] = cached[k]
      BY <3>1 DEF IsLonger, n
    <3>3. cached' = t
      BY <2>6
    <3>. HIDE DEF t, good
    <3>4. response = file[Place(stored, n) + 3]
      BY <2>5, <2>6 DEF good
    <3>5. H!Entry(r, response).zf = r
      BY DEF H!Entry
    <3>6. ASSUME NEW k \in 1 .. n + 1 PROVE IsEntry(k)'
      <4>1. CASE k \in 1 .. n
        <5>1. IsEntry(k) /\ cached'[k] = cached[k]
          BY <2>1, <3>2, <3>3, <4>1
        <5>. QED  BY <1>1, <5>1 DEF IsEntry, H!Entry
      <4>2. CASE k = n + 1
        <5>0. k - 1 = n
          BY <2>2, <4>2
        <5>1. cached'[k] = H!Entry(r, file[Place(stored, k - 1) + 3]) /\ cached'[k].zf = r
          BY <3>2, <3>3, <3>4, <3>5, <4>2, <5>0
        <5>2. k <= Len(stored) /\ IsFile(stored, file, k, r)
          BY <2>2, <2>3, <2>4, <4>2
        <5>. QED  BY <1>1, <5>1, <5>2 DEF IsEntry, H!Entry
      <4>. QED  BY <2>2, <4>1, <4>2
    <3>7. FilesRead'
      <4>1. Len(cached') <= Len(zipFiles)
        BY <1>1, <2>2, <3>2, <3>3
      <4>. QED  BY <1>1, <1>3, <2>1, <4>1 DEF FilesRead, H!Archive, H!UpTo, H!LocalPart, H!CentralPart
    <3>8. hpc' = "loading"
      BY <1>1, <2>6
    <3>9. IsSequence(cached') /\ Len(cached') = n + 1
      BY <3>2, <3>3
    <3>. QED  BY <3>6, <3>7, <3>8, <3>9 DEF Loading
  <2>7. CASE ~good /\ hpc' = "failed" /\ UNCHANGED cached
    <3>1. H!IsWhole => ~H!Acceptable(stored[n + 1])
      BY <2>5, <2>7 DEF H!Acceptable
    <3>. HIDE DEF good
    <3>2. \A k \in 1 .. n : IsEntry(k)'
      BY <1>1, <2>1, <2>7 DEF IsEntry, H!Entry
    <3>3. n' = n
      BY <2>7 DEF n
    <3>4. H!IsWhole' => ~H!Acceptable(stored[n + 1])'
      BY <1>1, <1>3, <3>1, <3>3 DEF H!Acceptable
    <3>. QED  BY <1>1, <2>1, <2>7, <3>2, <3>3, <3>4 DEF Loading, n
  <2>. QED  BY <1>1, <2>6, <2>7
<1>5. hpc' = "failed" => handle' = "closed"
  BY <1>1
<1>. QED  BY <1>1, <1>2, <1>3, <1>4, <1>5 DEF HInv

\* A step that keeps the files and the entries keeps what is said of them.
LEMMA LoadedStep ==
  ASSUME HInv, H!Loaded PROVE HInv'
<1>1. /\ hpc = "loading" /\ Len(cached) = Len(zipFiles) /\ hpc' = "loaded"
      /\ UNCHANGED <<stored, file, zipFiles, cached, handle, listed, shown>>
  BY DEF H!Loaded
<1>2. /\ stored \in Stored /\ file \in H!Remains(H!Archive(stored))
      /\ H!Readable => Loading
      /\ H!ShownIsStored
  BY DEF HInv
<1>3. /\ H!IsWhole' <=> H!IsWhole
      /\ H!Readable' <=> H!Readable
      /\ H!ShownIsStored'
  BY <1>1, <1>2, SameCache
<1>4. ASSUME H!Readable PROVE Loading'
  <2>1. IsSequence(cached) /\ FilesRead /\ \A k \in 1 .. Len(cached) : IsEntry(k)
    BY <1>1, <1>2, <1>4 DEF Loading
  <2>2. FilesRead'
    BY <1>1, <1>3, <2>1 DEF FilesRead
  <2>3. \A k \in 1 .. Len(cached) : IsEntry(k)'
    BY <1>1, <2>1 DEF IsEntry, H!Entry
  <2>. QED  BY <1>1, <2>1, <2>2, <2>3 DEF Loading
<1>5. hpc' = "failed" => handle' = "closed"
  BY <1>1
<1>. QED  BY <1>1, <1>2, <1>3, <1>4, <1>5 DEF HInv

LEMMA ListStep ==
  ASSUME HInv, H!List PROVE HInv'
<1>1. UNCHANGED <<stored, file, zipFiles, cached, handle, shown, hpc>>
  BY DEF H!List
<1>2. /\ stored \in Stored /\ file \in H!Remains(H!Archive(stored))
      /\ H!Readable => Loading
      /\ H!ShownIsStored /\ (hpc = "failed" => handle = "closed")
  BY DEF HInv
<1>3. /\ H!IsWhole' <=> H!IsWhole
      /\ H!Readable' <=> H!Readable
      /\ H!ShownIsStored'
  BY <1>1, <1>2, SameCache
<1>4. Loading' <=> Loading
  <2>1. FilesRead' <=> FilesRead
    BY <1>1, <1>3 DEF FilesRead
  <2>2. ASSUME NEW k \in 1 .. Len(cached) PROVE IsEntry(k)' <=> IsEntry(k)
    BY <1>1 DEF IsEntry
  <2>. QED  BY <1>1, <1>3, <2>1, <2>2 DEF Loading
<1>. QED  BY <1>1, <1>2, <1>3, <1>4 DEF HInv

\* The entry of a URL is one that has its name in the file; of a cache that is
\* whole it is the first that was stored for it.
LEMMA FoundIs ==
  ASSUME stored \in Stored, Loading, hpc = "loaded", NEW u
  PROVE  LET x == H!FindEntry(u)
             of == {k \in DOMAIN stored : stored[k].url = u}
         IN /\ H!IsWhole /\ x = H!NoEntry => of = {}
            /\ x # H!NoEntry =>
                 \E k \in 1 .. Len(stored) :
                   /\ IsEntry(k) /\ x = cached[k] /\ H!NameOf(k) = H!Text(u)
                   /\ H!IsWhole => k \in of /\ H!Min(of) = k
<1>. DEFINE x == H!FindEntry(u)
            of == {k \in DOMAIN stored : stored[k].url = u}
            found == {k \in DOMAIN cached : cached[k].url = <<H!Text(u)>>}
            a == H!Archive(stored)
<1>1. /\ IsSequence(cached) /\ FilesRead /\ Len(cached) = Len(zipFiles)
      /\ \A k \in 1 .. Len(cached) : IsEntry(k)
  BY DEF Loading
<1>0. /\ IsCache(stored) /\ Like(a, file)
      /\ H!IsWhole => Len(cached) = Len(stored)
  BY <1>1, StoredIs DEF FilesRead
<1>2. /\ Len(cached) \in Nat /\ DOMAIN cached = 1 .. Len(cached)
      /\ Len(stored) \in Nat /\ DOMAIN stored = 1 .. Len(stored)
      /\ Len(cached) <= Len(stored)
  BY <1>1, SequenceFacts, StoredIs DEF FilesRead
<1>3. ASSUME NEW k \in 1 .. Len(cached)
      PROVE  /\ cached[k].url = <<H!NameOf(k)>>
             /\ H!IsWhole => H!NameOf(k) = H!Text(stored[k].url)
  <2>1. IsEntry(k)
    BY <1>1
  <2>2. cached[k].url = cached[k].zf.name
    <3>1. H!Entry(cached[k].zf, file[Place(stored, k - 1) + 3]).url = cached[k].zf.name
      BY DEF H!Entry
    <3>. QED  BY <2>1, <3>1 DEF IsEntry
  <2>3. cached[k].zf.name = <<file[At(stored, k) + 2]>>
    BY <2>1 DEF IsEntry, IsFile
  <2>4. k \in 1 .. Len(stored)
    BY <1>2
  <2>. QED  BY <2>2, <2>3, <2>4, PlacesAre
<1>4. ASSUME NEW k \in 1 .. Len(cached)
      PROVE  /\ k \in found => H!NameOf(k) = H!Text(u)
             /\ H!IsWhole => (k \in found <=> k \in of)
  <2>1. H!Text(stored[k].url) = H!Text(u) => stored[k].url = u
    BY DEF H!Text
  <2>2. k \in DOMAIN cached /\ k \in DOMAIN stored
    BY <1>2
  <2>3. k \in found => H!NameOf(k) = H!Text(u)
    BY <1>3
  <2>4. H!IsWhole => (k \in found <=> k \in of)
    BY <1>3, <2>1, <2>2, <2>3
  <2>. QED  BY <2>3, <2>4
<1>5. x = IF found = {} THEN H!NoEntry ELSE cached[H!Min(found)]
  BY DEF H!FindEntry
<1>6. /\ found \subseteq 1 .. Len(cached) /\ of \subseteq 1 .. Len(stored)
  BY <1>2
<1>. HIDE DEF found, of, x, a
<1>7. CASE found = {}
  <2>1. H!IsWhole => of = {}
    BY <1>0, <1>4, <1>6, <1>7
  <2>2. x = H!NoEntry
    BY <1>5, <1>7
  <2>. QED  BY <2>1, <2>2 DEF x, of
<1>8. CASE found # {}
  <2>1. PICK k \in found : \A y \in found : ~(y < k)
    <3>1. found \subseteq Nat
      BY <1>2, <1>6
    <3>. QED  BY <1>8, <3>1, NatLeast
  <2>2. Min(found) = k
    <3>1. k \in Int /\ \A y \in found : y \in Int /\ k <= y
      BY <1>2, <1>6, <2>1
    <3>. QED  BY <3>1, MinIs
  <2>3. x = cached[k]
    BY <1>5, <1>8, <2>2, HttrackOperators
  <2>4. k \in 1 .. Len(cached) /\ k \in 1 .. Len(stored) /\ IsEntry(k)
        /\ H!NameOf(k) = H!Text(u)
    BY <1>1, <1>2, <1>4, <1>6, <2>1
  <2>5. H!IsWhole => k \in of /\ Min(of) = k
    <3>. SUFFICES ASSUME H!IsWhole PROVE k \in of /\ Min(of) = k
      OBVIOUS
    <3>1. k \in of /\ k \in Int
      BY <1>4, <2>1, <2>4
    <3>2. \A y \in of : y \in Int /\ k <= y
      BY <1>0, <1>2, <1>4, <1>6, <2>1, <2>4
    <3>. QED  BY <3>1, <3>2, MinIs
  <2>6. x # H!NoEntry
    <3>1. x = H!Entry(x.zf, file[Place(stored, k - 1) + 3])
      BY <2>3, <2>4 DEF IsEntry
    <3>2. "url" \in DOMAIN H!Entry(x.zf, file[Place(stored, k - 1) + 3])
      BY DEF H!Entry
    <3>3. "url" \notin DOMAIN H!NoEntry
      BY DEF H!NoEntry
    <3>. QED  BY <3>1, <3>2, <3>3
  <2>. QED  BY <2>3, <2>4, <2>5, <2>6, HttrackOperators DEF x, of
<1>. QED  BY <1>7, <1>8

\* A body is only refused for its length.
LEMMA RefusedIs ==
  ASSUME NEW r, NEW x, x = H!Entry(x.zf, r), NEW body, H!DumpFails(x.size, body)
  PROVE  r.xSize = "number" /\ r.size # Len(body)
<1>1. x.size = IF r.xSize = "number" THEN r.size ELSE 0
  <2>1. H!Entry(x.zf, r).size = IF r.xSize = "number" THEN r.size ELSE 0
    BY DEF H!Entry
  <2>. QED  BY <2>1
<1>2. x.size # 0 /\ x.size # Len(body)
  BY DEF H!DumpFails
<1>. QED  BY <1>1, <1>2

LEMMA ShowStep ==
  ASSUME HInv, NEW u \in AskedNames, H!Show(u) PROVE HInv'
<1>. DEFINE x == H!FindEntry(u)
            read == H!ReadAll(file, x.zf)
            err == IF x = H!NoEntry THEN "not found"
                   ELSE IF read.err # "none" THEN read.err
                   ELSE IF H!DumpFails(x.size, read.data) THEN "length" ELSE "none"
            of == {k \in DOMAIN stored : stored[k].url = u}
            refused == [url |-> u, err |-> err]
            whole == [url |-> u, err |-> err, inCache |-> x.inCache, response |-> x.response,
                      header |-> x.header, body |-> read.data]
<1>1. /\ hpc = "loaded" /\ hpc' = "done"
      /\ UNCHANGED <<stored, file, zipFiles, cached, handle, listed>>
      /\ \/ err # "none" /\ shown' = <<refused>>
         \/ err = "none" /\ shown' = <<whole>>
  BY DEF H!Show
<1>2. /\ stored \in Stored /\ file \in H!Remains(H!Archive(stored))
      /\ H!Readable => Loading
  BY DEF HInv
<1>3. /\ H!IsWhole' <=> H!IsWhole
      /\ H!Readable' <=> H!Readable
  BY <1>1, SameCache
<1>. HIDE DEF err, refused, whole
<1>4. ASSUME H!Readable PROVE Loading'
  <2>1. Loading
    BY <1>2, <1>4
  <2>2. FilesRead' <=> FilesRead
    BY <1>1, <1>3 DEF FilesRead
  <2>3. ASSUME NEW k \in 1 .. Len(cached) PROVE IsEntry(k)' <=> IsEntry(k)
    BY <1>1 DEF IsEntry
  <2>. QED  BY <1>1, <2>1, <2>2, <2>3 DEF Loading
<1>5. ASSUME H!Readable, NEW p, shown' = <<p>>
      PROVE  WasStored(stored, file, p) /\ (H!IsWhole => IsFirst(stored, p))
  <2>1. Loading /\ IsCache(stored) /\ FilesRead
    BY <1>1, <1>2, <1>5, StoredIs DEF Loading
  <2>2. /\ p.url = u /\ p.err = err
        /\ err = "none" => p.response = x.response /\ p.body = read.data
    <3>1. p = refused \/ p = whole
      BY <1>1, <1>5
    <3>2. refused.url = u /\ refused.err = err
      BY DEF refused
    <3>3. whole.url = u /\ whole.err = err
          /\ whole.response = x.response /\ whole.body = read.data
      BY DEF whole
    <3>4. err = "none" => p = whole
      <4>1. refused # whole
        BY DEF refused, whole
      <4>. QED  BY <1>1, <1>5
    <3>. HIDE DEF x, read
    <3>. QED  BY <3>1, <3>2, <3>3, <3>4
  <2>3. CASE x = H!NoEntry
    <3>1. err = "not found"
      BY <2>3 DEF err
    <3>2. H!IsWhole => of = {}
      BY <1>1, <1>2, <2>1, <2>3, FoundIs
    <3>. HIDE DEF x, read
    <3>. QED  BY <2>2, <3>1, <3>2 DEF WasStored, IsFirst
  <2>4. CASE x # H!NoEntry
    <3>1. PICK k \in 1 .. Len(stored) :
                 /\ IsEntry(k) /\ x = cached[k] /\ H!NameOf(k) = H!Text(u)
                 /\ H!IsWhole => k \in of /\ H!Min(of) = k
      BY <1>1, <1>2, <2>1, <2>4, FoundIs
    <3>. DEFINE y == file[Place(stored, k - 1) + 3]
    <3>2. /\ k \in DOMAIN stored /\ H!ResponseOf(k) = y
          /\ H!IsWhole => y = stored[k].response
      BY <1>2, StoredIs, PlacesAre
    <3>3. IsFile(stored, file, k, x.zf) /\ x = H!Entry(x.zf, y)
      BY <3>1 DEF IsEntry
    <3>4. /\ read.err = "none" => read.data = stored[k].body
          /\ H!IsWhole /\ stored[k].method \in H!Decompressors => read.err = "none"
      BY <2>1, <3>2, <3>3, BodyAt DEF FilesRead, H!IsWhole
    <3>. HIDE DEF y
    <3>5. x.response = y
      <4>1. H!Entry(x.zf, y).response = y
        BY DEF H!Entry
      <4>. HIDE DEF x
      <4>. QED  BY <3>3, <4>1
    <3>6. read.err = "none" /\ H!DumpFails(x.size, read.data) =>
            y.xSize = "number" /\ y.size # Len(stored[k].body)
      <4>. HIDE DEF x, read
      <4>. QED  BY <3>3, <3>4, RefusedIs
    <3>. HIDE DEF x, read
    <3>7. /\ read.err # "none" => err = read.err
          /\ read.err = "none" /\ H!DumpFails(x.size, read.data) => err = "length"
          /\ read.err = "none" /\ ~H!DumpFails(x.size, read.data) => err = "none"
      BY <2>4 DEF err
    <3>8. WasStored(stored, file, p)
      <4>1. err = "none" => p.response = H!ResponseOf(k) /\ p.body = stored[k].body
        BY <2>2, <3>2, <3>4, <3>5, <3>7
      <4>. QED  BY <2>2, <3>1, <3>2, <4>1 DEF WasStored, H!NameOf, H!ResponseOf
    <3>9. ASSUME H!IsWhole PROVE IsFirst(stored, p)
      <4>1. \/ p.err = "none" /\ p.response = stored[k].response /\ p.body = stored[k].body
            \/ p.err = "length" /\ stored[k].response.xSize = "number"
                               /\ stored[k].response.size # Len(stored[k].body)
            \/ stored[k].method \notin H!Decompressors
        BY <2>2, <3>2, <3>4, <3>5, <3>6, <3>7, <3>9
      <4>2. k \in of /\ H!Min(of) = k
        BY <3>1, <3>9
      <4>. QED  BY <2>2, <4>1, <4>2 DEF IsFirst
    <3>. QED  BY <3>8, <3>9
  <2>. QED  BY <2>3, <2>4
<1>6. H!ShownIsStored'
  <2>1. H!ShownIsStored' <=>
          (H!Readable =>
             \A n \in DOMAIN shown :
               WasStored(stored, file, shown[n]) /\ (H!IsWhole => IsFirst(stored, shown[n])))'
    BY ShownIs, PTL
  <2>2. PICK p : shown' = <<p>>
    BY <1>1
  <2>3. DOMAIN shown' = {1} /\ shown'[1] = p
    BY <2>2
  <2>. QED  BY <1>1, <1>3, <1>5, <2>1, <2>2, <2>3
<1>. HIDE DEF x, read
<1>. QED  BY <1>1, <1>2, <1>3, <1>4, <1>6 DEF HInv

LEMMA HttrackStep == HInv /\ H!Next => HInv'
<1>1. ASSUME HInv, NEW u \in AskedNames, H!Show(u) PROVE HInv'
  BY <1>1, ShowStep
<1>. QED  BY <1>1, OpenStep, LoadStep, LoadedStep, ListStep DEF H!Next

\* Nothing of this changes while another command runs.
LEMMA HttrackStutter == HInv /\ UNCHANGED httrackVars => HInv'
<1>. SUFFICES ASSUME HInv, UNCHANGED httrackVars PROVE HInv'
  OBVIOUS
<1>1. UNCHANGED <<stored, file, zipFiles, cached, handle, listed, shown, hpc>>
  BY DEF httrackVars
<1>2. /\ H!IsWhole' <=> H!IsWhole
      /\ H!Readable' <=> H!Readable
      /\ H!ShownIsStored' <=> H!ShownIsStored
  BY <1>1, SameCache
<1>3. Loading' <=> Loading
  <2>1. FilesRead' <=> FilesRead
    BY <1>1, <1>2 DEF FilesRead
  <2>2. ASSUME NEW k \in 1 .. Len(cached) PROVE IsEntry(k)' <=> IsEntry(k)
    BY <1>1 DEF IsEntry
  <2>. QED  BY <1>1, <1>2, <2>1, <2>2 DEF Loading
<1>. QED  BY <1>1, <1>2, <1>3 DEF HInv

LEMMA HttrackInvHolds == Spec => []HttrackInv
<1>1. Init => HttrackInv
  BY HttrackInit DEF Init, HttrackInv
<1>2. HttrackInv /\ [Next]_vars => HttrackInv'
  <2>. SUFFICES ASSUME HttrackInv, [Next]_vars PROVE HttrackInv'
    OBVIOUS
  <2>1. CASE command = "httrack" /\ H!Next /\ command' = command
    BY <2>1, HttrackStep DEF HttrackInv
  <2>2. CASE UNCHANGED <<command, httrackVars>>
    <3>1. command' = command /\ UNCHANGED httrackVars
      BY <2>2
    <3>2. CASE command = "httrack"
      BY <3>1, <3>2, HttrackStutter DEF HttrackInv
    <3>3. CASE command # "httrack"
      BY <3>1, <3>3 DEF HttrackInv, HttrackIdle, httrackVars
    <3>. QED  BY <3>2, <3>3
  <2>. QED  BY <2>1, <2>2 DEF Next, vars
<1>. QED  BY <1>1, <1>2, PTL DEF Spec

\* A cache is loaded whole and in its order, each entry with the name and the
\* response at its place in the file, or the command fails and its file is
\* closed; no cache that httrack was stopped while writing is loaded
\* (httrack.go:25-36, 64-119).
THEOREM CacheHolds == Spec => []CacheIsWhole
<1>1. ASSUME HInv PROVE H!CacheIsWhole
  <2>1. /\ stored \in Stored /\ (H!Readable => Loading)
        /\ hpc = "failed" => handle = "closed"
    BY <1>1 DEF HInv
  <2>2. ASSUME H!Readable, hpc \in {"loaded", "done"}
        PROVE  /\ ~H!IsCut
               /\ H!IsWhole => Len(cached) = Len(stored)
               /\ H!Narrow16(Len(cached)) = H!Narrow16(Len(stored))
    <3>1. FilesRead /\ Len(cached) = Len(zipFiles)
      BY <2>1, <2>2 DEF Loading
    <3>2. Len(file) = Len(H!Archive(stored)) /\ Len(H!Archive(stored)) \in Nat
      BY <2>1, <3>1, StoredIs, ArchiveIs, SequenceFacts DEF FilesRead, Like
    <3>. QED  BY <3>1, <3>2 DEF FilesRead, H!IsCut
  <2>3. ASSUME H!Readable, NEW k \in DOMAIN cached
        PROVE  /\ cached[k].url = <<H!NameOf(k)>> /\ cached[k].response = H!ResponseOf(k)
               /\ H!IsWhole => /\ H!NameOf(k) = H!Text(stored[k].url)
                               /\ H!ResponseOf(k) = stored[k].response
    <3>1. Loading /\ IsCache(stored) /\ Len(stored) \in Nat
      BY <2>1, <2>3, StoredIs
    <3>2. k \in 1 .. Len(cached) /\ IsEntry(k)
      BY <3>1, SequenceFacts DEF Loading
    <3>3. k \in 1 .. Len(stored) /\ IsFile(stored, file, k, cached[k].zf)
      BY <3>1, <3>2 DEF IsEntry
    <3>. DEFINE y == file[Place(stored, k - 1) + 3]
    <3>4. cached[k] = H!Entry(cached[k].zf, y)
      BY <3>2 DEF IsEntry
    <3>. HIDE DEF y
    <3>5. H!Entry(cached[k].zf, y).response = y /\ H!Entry(cached[k].zf, y).url = cached[k].zf.name
      BY DEF H!Entry
    <3>6. cached[k].response = y /\ cached[k].url = cached[k].zf.name
      BY <3>4, <3>5
    <3>7. cached[k].zf.name = <<file[At(stored, k) + 2]>>
      BY <3>3 DEF IsFile
    <3>. QED  BY <2>1, <3>3, <3>6, <3>7, PlacesAre DEF y
  <2>4. H!IsWhole /\ hpc = "failed" /\ Len(cached) < Len(stored) =>
          ~H!Acceptable(stored[Len(cached) + 1])
    BY <2>1 DEF Loading, H!Readable
  <2>. QED  BY <2>1, <2>2, <2>3, <2>4, Zenon DEF H!CacheIsWhole
<1>2. ASSUME HttrackInv PROVE CacheIsWhole
  <2>1. CASE command = "httrack"
    BY <1>1, <1>2, <2>1 DEF HttrackInv, CacheIsWhole
  <2>2. CASE command # "httrack"
    BY <1>2, <2>2 DEF HttrackInv, HttrackIdle, CacheIsWhole, H!CacheIsWhole
  <2>. QED  BY <2>1, <2>2
<1>. QED  BY <1>2, HttrackInvHolds, PTL

\* What show prints for a URL is a file that has its name, with the response at
\* its place and the body that was stored with it, whole; from an intact file it
\* is the first that was stored for the URL, and it is printed unless the
\* response says another length than its body has (main.go:614-645).
THEOREM ShownHolds == Spec => []ShownIsStored
<1>1. ASSUME HttrackInv PROVE ShownIsStored
  <2>1. CASE command = "httrack"
    BY <1>1, <2>1 DEF HttrackInv, HInv, ShownIsStored
  <2>2. CASE command # "httrack"
    BY <1>1, <2>2 DEF HttrackInv, HttrackIdle, ShownIsStored, H!ShownIsStored
  <2>. QED  BY <2>1, <2>2
<1>. QED  BY <1>1, HttrackInvHolds, PTL
=============================================================================
