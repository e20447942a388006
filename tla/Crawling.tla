-------------------------------- MODULE Crawling --------------------------------
(* The crawl of a website (src/app/ingestion/website.py): a queue of links of the host of the   *)
(* seed, the redirects of each fetch, and what becomes of the pages.  Sites answer as they      *)
(* like; a URL stands for its normal form, and those that cannot be parsed are one.             *)
EXTENDS Naturals, Sequences, FiniteSets

CONSTANTS Urls, Seed,
          Robots,        \* the URL of robots.txt
          SameHost,      \* the URLs on the host of the seed
          PageLimit,
          QueueFactor,   \* how many links are queued for each page of the limit: 10 in the code
          MaxRedirects,
          Texts,         \* what pages say; "none" is no text
          LinkLists      \* the links of a page, in order

NoUrl == "nothing"
Malformed == "malformed"  \* a link, a canonical URL or a Location that urljoin cannot parse

ASSUME CrawlingAssumption ==
  /\ Seed \in SameHost /\ Robots \in SameHost /\ SameHost \subseteq Urls
  /\ Urls \cap {NoUrl, Malformed} = {}
  /\ PageLimit \in Nat \ {0} /\ QueueFactor \in Nat \ {0} /\ MaxRedirects \in Nat
  /\ LinkLists \subseteq Seq(Urls \cup {Malformed})

VARIABLES
  crawl,       \* "seed", "robots", "next", "fetch", "done" or "failed"
  follows,     \* whether links are followed
  disallowed,  \* by robots.txt
  private,     \* URLs whose host has an address that is not public
  queue, queued,
  asked,       \* the URL at work: as it was queued, where redirects have led, and how many
  fetched,     \* how many responses arrived
  pages,       \* indexed pages: the URL asked for, the one that answered, canonical URL and text
  failures,    \* the URLs the manifest lists failures under
  attempts,    \* history: URLs taken from the queue, in order
  contacted    \* history: the URL that was connected to last

crawlVars == <<crawl, follows, disallowed, private, queue, queued, asked, fetched, pages, failures,
               attempts, contacted>>
site == <<follows, disallowed, private>>

NotAsking == [first |-> NoUrl, now |-> NoUrl, hops |-> 0]
Ask(url) == [first |-> url, now |-> url, hops |-> 0]
Among(s) == {s[i] : i \in DOMAIN s}

OnHost(url) == url \in SameHost

CrawlInit ==
  /\ crawl = "seed"
  /\ follows \in BOOLEAN /\ disallowed \in SUBSET Urls /\ private \in SUBSET Urls
  /\ queue = <<Seed>> /\ queued = {Seed}
  /\ asked = NotAsking /\ fetched = 0
  /\ pages = <<>> /\ failures = <<>>
  /\ attempts = <<>> /\ contacted = NoUrl

\* The host may be missing from the list of the workspace.
RefuseSeed ==
  /\ crawl = "seed"
  /\ crawl' = "failed"
  /\ UNCHANGED <<site, queue, queued, asked, fetched, pages, failures, attempts, contacted>>

\* robots.txt is fetched first, as a page is.
AskRobots ==
  /\ crawl = "seed"
  /\ crawl' = "robots" /\ asked' = Ask(Robots)
  /\ UNCHANGED <<site, queue, queued, fetched, pages, failures, attempts, contacted>>

\* A failure is listed and the crawl goes on, but that of the seed ends it.
Notes(url) == crawl' = "next" /\ asked' = NotAsking /\ failures' = Append(failures, url)
Breaks == crawl' = "failed" /\ asked' = NotAsking /\ UNCHANGED failures
SkipOf(url) == IF url = Seed THEN Breaks ELSE Notes(url)

\* Mutant: one page more than the limit.
OneMore == fetched <= PageLimit

UnderLimit == fetched < PageLimit

TakeUrl ==
  /\ crawl = "next" /\ queue # <<>> /\ UnderLimit
  /\ queue' = Tail(queue)
  /\ attempts' = Append(attempts, Head(queue))
  /\ IF Head(queue) \in disallowed THEN SkipOf(Head(queue))
     ELSE crawl' = "fetch" /\ asked' = Ask(Head(queue)) /\ UNCHANGED failures
  /\ UNCHANGED <<site, queued, fetched, pages, contacted>>

\* The address of every URL is checked before it is connected to.
Contact == asked.now \notin private /\ contacted' = asked.now

\* Without robots.txt everything is allowed.
Abandons ==
  \/ crawl = "fetch" /\ SkipOf(asked.first) /\ UNCHANGED disallowed
  \/ crawl = "robots" /\ crawl' = "next" /\ asked' = NotAsking /\ disallowed' = {} /\ UNCHANGED failures

\* The address is not public, the connection fails, or the response is not of the type wanted.
FetchFails ==
  /\ Abandons
  /\ Contact \/ UNCHANGED contacted
  /\ UNCHANGED <<follows, private, queue, queued, fetched, pages, attempts>>

\* A location that cannot be parsed raises an error that nothing handles, and the crawl ends.
Redirect(location) ==
  /\ crawl \in {"robots", "fetch"} /\ Contact
  /\ \/ asked.hops >= MaxRedirects /\ Abandons
     \/ asked.hops < MaxRedirects /\ location = Malformed /\ Breaks /\ UNCHANGED disallowed
     \/ /\ asked.hops < MaxRedirects /\ location # Malformed
        /\ asked' = [asked EXCEPT !.now = location, !.hops = @ + 1]
        /\ UNCHANGED <<crawl, disallowed, failures>>
  /\ UNCHANGED <<follows, private, queue, queued, fetched, pages, attempts>>

LoadRobots ==
  /\ crawl = "robots" /\ Contact
  /\ crawl' = "next" /\ asked' = NotAsking
  /\ UNCHANGED <<site, queue, queued, fetched, pages, failures, attempts>>

\* New links of the host join the queue while there is room, in their order.
Room == PageLimit * QueueFactor
FreshLinks(links) ==
  LET first == {i \in DOMAIN links : /\ OnHost(links[i]) /\ links[i] \notin queued
                                     /\ \A j \in 1 .. i - 1 : links[j] # links[i]}
      rank(i) == Cardinality({j \in first : j <= i})
      taken == {i \in first : Cardinality(queued) + rank(i) <= Room}
  IN [n \in 1 .. Cardinality(taken) |-> links[CHOOSE i \in taken : rank(i) = n]]

\* Links are parsed while there is room, and one that cannot be parsed raises.
LinksBreak(links) ==
  \E i \in DOMAIN links :
    /\ links[i] = Malformed
    /\ Cardinality(queued \cup {links[j] : j \in {k \in 1 .. i - 1 : OnHost(links[k])}}) < Room

\* A page may name its canonical URL, which is then on the host that answered; "none" stands for
\* no text and for one of another scheme or port too.
Extracted == [canonical : SameHost \cup {Malformed}, text : Texts \cup {"none"}, links : LinkLists]

SameUrl(page) == \E p \in Among(pages) : p.canonical = page.canonical
SameText(page) == \E p \in Among(pages) : p.text = page.text

\* A response counts before it is looked at.  A duplicate is listed under the URL that answered, or
\* the canonical one of the page, and not under the one asked for.
Arrive(page) ==
  LET usable == OnHost(asked.now) /\ page.text # "none"
      readable == usable /\ page.canonical # Malformed
      breaks == follows /\ LinksBreak(page.links)
      new == IF follows THEN FreshLinks(page.links) ELSE <<>>
      rest == <<queue, queued, pages>>
  IN
  /\ crawl = "fetch" /\ Contact
  /\ fetched' = fetched + 1
  /\ \/ ~usable /\ SkipOf(asked.first) /\ UNCHANGED rest
     \/ usable /\ ~readable /\ Breaks /\ UNCHANGED rest
     \/ readable /\ SameUrl(page) /\ Notes(asked.now) /\ UNCHANGED rest
     \/ readable /\ ~SameUrl(page) /\ SameText(page) /\ Notes(page.canonical) /\ UNCHANGED rest
     \/ readable /\ ~SameUrl(page) /\ ~SameText(page) /\ breaks /\ Breaks /\ UNCHANGED rest
     \/ /\ readable /\ ~SameUrl(page) /\ ~SameText(page) /\ ~breaks
        /\ crawl' = "next" /\ asked' = NotAsking
        /\ pages' = Append(pages, [first |-> asked.first, at |-> asked.now,
                                   canonical |-> page.canonical, text |-> page.text])
        /\ queue' = queue \o new /\ queued' = queued \cup Among(new)
        /\ UNCHANGED failures
  /\ UNCHANGED <<site, attempts>>

EndCrawl ==
  /\ crawl = "next" /\ (queue = <<>> \/ ~UnderLimit)
  /\ crawl' = IF pages = <<>> THEN "failed" ELSE "done"
  /\ UNCHANGED <<site, queue, queued, asked, fetched, pages, failures, attempts, contacted>>

CrawlNext ==
  \/ RefuseSeed \/ AskRobots \/ LoadRobots \/ TakeUrl \/ FetchFails \/ EndCrawl
  \/ \E location \in Urls \cup {Malformed} : Redirect(location)
  \/ \E page \in Extracted : Arrive(page)

CrawlSpec == CrawlInit /\ [][CrawlNext]_crawlVars
-----------------------------------------------------------------------------
(* Properties *)

\* Every variable keeps its type.
CrawlTypeOK ==
  /\ crawl \in {"seed", "robots", "next", "fetch", "done", "failed"} /\ follows \in BOOLEAN
  /\ disallowed \subseteq Urls /\ private \subseteq Urls
  /\ Among(queue) \subseteq queued /\ queued \subseteq SameHost
  /\ asked \in [first : Urls \cup {NoUrl}, now : Urls \cup {NoUrl}, hops : 0 .. MaxRedirects]
  /\ fetched \in Nat /\ Among(failures) \subseteq SameHost /\ contacted \in Urls \cup {NoUrl}
  /\ Among(pages) \subseteq [first : SameHost, at : SameHost, canonical : SameHost, text : Texts]
  /\ Among(attempts) \subseteq SameHost

\* Wherever redirects and links lead: no private address is connected to; pages were asked for by
\* URLs robots.txt allows, and differ in canonical URL and text; the first one is that of the
\* seed, whose title names the source; no URL is asked for twice; neither the limit of pages nor
\* the room in the queue is exceeded; and a crawl that ends below the limit has asked for every
\* link it queued.  The manifest lists as many failures as URLs asked for gave no page: under
\* which URLs is not said, since a duplicate is listed under another one than the one asked for.
CrawlSound ==
  /\ contacted \notin private
  /\ \A i \in DOMAIN pages : pages[i].first \notin disallowed /\ (pages[i].first = Seed <=> i = 1)
  /\ \A i, j \in DOMAIN pages : i # j => pages[i].canonical # pages[j].canonical /\ pages[i].text # pages[j].text
  /\ \A i, j \in DOMAIN attempts : i # j => attempts[i] # attempts[j]
  /\ fetched <= PageLimit /\ Len(pages) <= fetched /\ Cardinality(queued) <= Room
  /\ crawl = "done" => /\ pages # <<>>
                       /\ fetched = PageLimit \/ Among(attempts) = queued
                       /\ Len(attempts) = Len(pages) + Len(failures)
=============================================================================
