-------------------------------- MODULE URLs --------------------------------
(***************************************************************************)
(* What the program computes with URLs: urlnorm.Canonical, repository.Key  *)
(* and urlrebase.Rebase.  A URL is a record; its path is url.URL.Path, the *)
(* decoded one, as a sequence of "/" and of pieces of names, its query a   *)
(* sequence of parameters.                                                 *)
(***************************************************************************)
EXTENDS Integers, SequencesExt, AnySequences

IsURL(u) ==
  /\ u = [scheme |-> u.scheme, host |-> u.host, port |-> u.port, path |-> u.path,
          query |-> u.query, fragment |-> u.fragment]
  /\ IsSequence(u.path)

\* strings.ToLower, for the spellings of schemes and hosts that the models use.
Lower(s) ==
  CASE s = "HTTP" -> "http"
    [] s = "HTTPS" -> "https"
    [] s = "HOST" -> "host"
    [] OTHER -> s

IsAbs(u) == u.scheme # ""

DefaultPort(scheme) ==
  CASE scheme = "http" -> "80" [] scheme = "https" -> "443" [] OTHER -> ""

Canonical(u) ==
  LET scheme == Lower(u.scheme)
  IN  [u EXCEPT
        !.scheme = scheme,
        !.host = Lower(@),
        !.port = IF @ = DefaultPort(scheme) THEN "" ELSE @,
        !.path = IF IsAbs(u) /\ u.host # "" /\ @ = <<>> THEN <<"/">> ELSE @]

Tracking == {"utm_source", "utm_medium", "utm_campaign", "utm_term", "utm_content"}

\* The values of each parameter, in order; the names are sorted, so their
\* order does not count.
Parameters(query) ==
  [name \in {query[i].name : i \in DOMAIN query} \ Tracking |->
    FlattenSeq([i \in DOMAIN query |->
                 IF query[i].name = name THEN <<query[i].value>> ELSE <<>>])]

Key(u) == [Canonical(u) EXCEPT !.query = Parameters(@), !.fragment = ""]

-----------------------------------------------------------------------------
(* Rebase: the new URL, or why there is none.                              *)

EndsInSlash(path) == path # <<>> /\ Last(path) = "/"

NoBase == [result |-> "no base"]
BadBase == [result |-> "error"]
Moved(u) == [result |-> "url", url |-> u]

\* Mutant: the path keeps the last character of the old base's.
RebaseOffByOne(u, old, new) ==
  LET at(path) == Moved([u EXCEPT !.scheme = new.scheme, !.host = new.host,
                                  !.port = new.port, !.path = path])
  IN  IF <<u.scheme, u.host, u.port>> # <<old.scheme, old.host, old.port>> THEN NoBase
      ELSE IF ~EndsInSlash(old.path) THEN
        IF u.path = old.path THEN at(new.path) ELSE NoBase
      ELSE IF ~IsPrefix(old.path, u.path) THEN NoBase
      ELSE IF ~EndsInSlash(new.path) THEN BadBase
      ELSE at(new.path \o SubSeq(u.path, Len(old.path), Len(u.path)))

\* The query and the fragment stay.
RebaseCanonical(u, old, new) ==
  LET at(path) == Moved([u EXCEPT !.scheme = new.scheme, !.host = new.host,
                                  !.port = new.port, !.path = path])
  IN  IF <<u.scheme, u.host, u.port>> # <<old.scheme, old.host, old.port>> THEN NoBase
      ELSE IF ~EndsInSlash(old.path) THEN
        IF u.path = old.path THEN at(new.path) ELSE NoBase
      ELSE IF ~IsPrefix(old.path, u.path) THEN NoBase
      ELSE IF ~EndsInSlash(new.path) THEN BadBase
      ELSE at(new.path \o SubSeq(u.path, Len(old.path) + 1, Len(u.path)))

Rebase(u, old, new) ==
  IF ~IsAbs(u) THEN NoBase
  ELSE RebaseCanonical(Canonical(u), Canonical(old), Canonical(new))
=============================================================================
