SPECIFICATION Spec
CONSTANTS
  Workers = {w1, w2}
  home = home
  home2 = home2
  page = page
  loop = loop
  away = away
  khome = khome
  kpage = kpage
  kloop = kloop
  kaway = kaway
  NoTask = NoTask
  NoDocument = NoDocument
  URLs <- MCURLs
  Keys <- MCKeys
  KeyOf <- MCKeyOf
  Links <- MCLinks
  RedirectTo <- MCRedirectTo
  FollowURL <- MCFollowURL
  InitialTasks <- MCInitial
  MaxRedirects = 2
  Faults = {"body"}
INVARIANTS
  StoredIsWhole
