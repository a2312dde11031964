------------------------------ MODULE MCScraper ------------------------------
(* A small site.  home2 is home with a fragment: the same key and the same
   answer.  page redirects to another site, loop to itself; the redirect's
   own document has a link.                                                *)
EXTENDS Scraper, TLC

CONSTANTS home, home2, page, loop, away, khome, kpage, kloop, kaway

MCURLs == {home, home2, page, loop, away}
MCKeys == {khome, kpage, kloop, kaway}
MCKeyOf ==
  home :> khome @@ home2 :> khome @@ page :> kpage @@ loop :> kloop
  @@ away :> kaway
MCLinks ==
  home :> <<page, away, home2>> @@ home2 :> <<page, away, home2>>
  @@ page :> <<loop>> @@ loop :> <<>> @@ away :> <<home>>
MCRedirectTo ==
  home :> NoTask @@ home2 :> NoTask @@ page :> away @@ loop :> loop
  @@ away :> NoTask
MCFollowURL == {home, home2, page, loop}
MCInitial == <<home>>
=============================================================================
