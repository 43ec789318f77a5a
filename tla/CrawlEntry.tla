----------------------------- MODULE CrawlEntry -----------------------------
(***************************************************************************)
(* The constants and the entry type shared by the abstract frontier and by  *)
(* the crawler that implements it.                                          *)
(***************************************************************************)
EXTENDS Naturals, Sequences

CONSTANTS
  Worker,     \* the spider workers (spider_worker_num of crowdspider.conf)
  Url,        \* the URLs of the web
  StartUrl,   \* start_url of crowdspider.conf
  MaxDepth,   \* pages deeper than this are fetched and not expanded (3)
  NoEntry     \* what a worker works on between two entries

ASSUME EntryAssumption ==
  /\ StartUrl \in Url
  /\ MaxDepth \in Nat

\* uri_t; the position in which an entry was pushed is its identity.
Entry == [id : Nat \ {0}, url : Url, depth : 0 .. MaxDepth + 1]

ASSUME NoEntryAssumption == NoEntry \notin Entry

StartEntry == [id |-> 1, url |-> StartUrl, depth |-> 0]

=============================================================================
