------------------------------- MODULE Paginate -------------------------------
(***************************************************************************)
(* Lists read page by page from a site that may change between two pages    *)
(* (utils/paginate, collectFlowRuns): the loops with and without a filter,   *)
(* the one over flow runs, the one over Pulse's tokens, and a client of the  *)
(* tools that hand out a page per call.                                      *)
(***************************************************************************)
EXTENDS Lists, SequencesExt

CONSTANTS Items,        \* the items a list may have, numbers; newer ones are larger
          Listings,     \* the lists a site starts with
          Filters,      \* what a filter may let through
          MaxLimit,     \* bound on limits; 0 is no limit
          MAX_PAGE_SIZE,
          ServerPage,   \* the page size where none is asked for
          DefaultLimit, \* DEFAULT_FLOW_RUNS_LIMIT
          MaxChanges    \* bound on changes of the list

ASSUME PaginateAssumption ==
  /\ Items \subseteq Nat
  /\ \A s \in Listings : s \in Seq(Items) /\ IsInjective(s)
  /\ Filters \subseteq SUBSET Items
  /\ {MAX_PAGE_SIZE, ServerPage, DefaultLimit} \subseteq Nat \ {0}
  /\ {MaxLimit, MaxChanges} \subseteq Nat

VARIABLES
  ask,     \* the loop, its page size, the limit asked for, the configured one, the filter
  list,    \* the items of the site, in the order of the listing
  changes, \* how often that list has changed
  page,    \* the last page read
  size,    \* the page size asked for; 0 leaves it to the server
  total,   \* totalAvailable as last reported
  raw,     \* the number of items read
  seen,    \* the items read, of flow runs
  got,     \* the items kept
  status   \* "reading", "done" or "error"

pagesVars == <<ask, list, changes, page, size, total, raw, seen, got, status>>

Loops == {"paginate", "filtered", "flow runs", "flow runs by recency", "pulse", "client"}
FlowRuns == {"flow runs", "flow runs by recency"}
Unlimited == 0

SmallerOf(a, b) == IF a < b THEN a ELSE b
First(n, s)   == SubSeq(s, 1, SmallerOf(n, Len(s)))
Upto(limit, s) == IF limit = Unlimited THEN s ELSE First(limit, s)
Passing(s)    == Where(s, ask.passing)

(* The configured limit caps the one asked for; flow runs have a default.    *)
EffectiveLimit(asked, cap) ==
  IF asked # Unlimited THEN (IF cap # Unlimited THEN SmallerOf(cap, asked) ELSE asked)
  ELSE IF cap = Unlimited /\ ask.loop \in FlowRuns THEN DefaultLimit ELSE cap
Limit == EffectiveLimit(ask.limit, ask.cap)
PageSize == IF ask.loop \in FlowRuns THEN MAX_PAGE_SIZE
            ELSE IF size = 0 THEN ServerPage ELSE SmallerOf(size, MAX_PAGE_SIZE)

PagesTypes ==
  /\ ask \in [loop : Loops, size : Nat, limit : 0..MaxLimit, cap : 0..MaxLimit,
              passing : SUBSET Items]
  /\ changes \in 0..MaxChanges /\ page \in Nat /\ total \in Nat /\ raw \in Nat
  /\ size \in Int /\ seen \in SUBSET Items /\ status \in {"reading", "done", "error"}
  /\ got \in Seq(Items) /\ list \in Seq(Items)

PagesInit ==
  /\ ask \in [loop : Loops, size : 0..(MAX_PAGE_SIZE + 1), limit : 0..MaxLimit,
              cap : 0..MaxLimit, passing : {Items} \cup Filters]
  /\ ask.loop \in FlowRuns \cup {"client"} => ask.size = 0
  /\ ask.loop \in {"paginate", "pulse", "client"} => ask.passing = Items
  /\ ask.loop = "client" => ask.limit <= MAX_PAGE_SIZE
  /\ list \in Listings
  /\ size = ask.size /\ changes = 0 /\ page = 0 /\ total = 0 /\ raw = 0 /\ seen = {} /\ got = << >>
  /\ status = "reading"

-----------------------------------------------------------------------------
(* External: the site's page n.                                              *)
Page(n, per) == SubSeq(list, (n - 1) * per + 1, SmallerOf(n * per, Len(list)))

Reads(data) ==
  /\ page' = page + 1
  /\ total' = Len(list)
  /\ raw' = raw + Len(data)

Ends(s) == status' = s /\ UNCHANGED <<page, total, raw, seen, got>>

(* paginateWithMetadata, without and with filterFn: with one, a match beyond  *)
(* the limit is looked for.                                                  *)
MoreWanted ==
  Limit = Unlimited \/ IF ask.loop = "filtered" THEN Len(got) <= Limit ELSE Len(got) < Limit

PaginateStep ==
  /\ ask.loop \in {"paginate", "filtered"} /\ status = "reading"
  /\ IF page = 0 \/ (total > raw /\ MoreWanted)
     THEN LET data == Page(page + 1, PageSize)
          IN IF page > 0 /\ data = << >> THEN Ends("error")
             ELSE /\ Reads(data)
                  /\ got' = got \o Passing(data)
                  /\ UNCHANGED <<seen, status>>
     ELSE Ends("done")
  /\ UNCHANGED <<ask, list, changes, size>>

(* collectFlowRuns: there is no total; a short page, enough runs or a page of *)
(* known runs ends the loop.                                                 *)
\* Mutant: a run that two pages show is listed twice.
New_All(data) == data
New(data) == Where(data, Items \ seen)

FlowRunsStep ==
  /\ ask.loop \in FlowRuns /\ status = "reading"
  /\ LET data == Page(page + 1, PageSize)
         new  == New(data)
     IN /\ Reads(data)
        /\ got' = got \o Passing(new)
        /\ seen' = seen \cup Range(data)
        /\ status' = IF Len(data) < PageSize \/ Len(got') > Limit \/ new = << >>
                     THEN "done" ELSE "reading"
  /\ UNCHANGED <<ask, list, changes, size>>

(* pulsePaginate: without a page size, what is missing after the first page is *)
(* asked for in one, which the server may still cut.  A token points after the *)
(* last item returned; there is none at the end.                             *)
Missing(read) == IF Limit = Unlimited THEN Len(list) - read
                 ELSE SmallerOf(Len(list) - read, Limit - read)

PulseStep ==
  /\ ask.loop = "pulse" /\ status = "reading"
  /\ LET asked == IF size = 0 THEN ServerPage ELSE SmallerOf(size, MAX_PAGE_SIZE)
         data == SubSeq(list, raw + 1, SmallerOf(raw + asked, Len(list)))
     IN IF page = 0 \/ (raw < Len(list) /\ (Limit = Unlimited \/ Limit > Len(got)))
        THEN IF page > 0 /\ data = << >> THEN Ends("error") /\ UNCHANGED size
             ELSE /\ Reads(data)
                  /\ size' = IF page = 0 /\ size = 0 THEN Missing(Len(data)) ELSE size
                  /\ got' = got \o data
                  /\ UNCHANGED <<seen, status>>
        ELSE Ends("done") /\ UNCHANGED size
  /\ UNCHANGED <<ask, list, changes>>

(* getPage: one full page, cut at the configured limit and at the one asked   *)
(* for.  The client asks for page after page until it has the total it is     *)
(* told, a page beyond the limit is refused, or a page beyond the end is empty. *)
PageExceedsLimit(n) == ask.cap # Unlimited /\ (n - 1) * MAX_PAGE_SIZE >= ask.cap
GetPage(n) ==
  LET data == Page(n, MAX_PAGE_SIZE)
      kept == IF ask.cap = Unlimited THEN data
              ELSE First(ask.cap - (n - 1) * MAX_PAGE_SIZE, data)
  IN [data |-> Upto(ask.limit, kept),
      totalAvailable |-> IF ask.cap = Unlimited THEN Len(list) ELSE SmallerOf(Len(list), ask.cap)]

ClientStep ==
  /\ ask.loop = "client" /\ status = "reading"
  /\ IF (page > 0 /\ Len(got) >= total) \/ PageExceedsLimit(page + 1) \/ page > Len(list)
     THEN Ends("done")
     ELSE LET answer == GetPage(page + 1)
          IN /\ page' = page + 1
             /\ total' = answer.totalAvailable
             /\ raw' = raw + Len(answer.data)
             /\ got' = got \o answer.data
             /\ UNCHANGED <<seen, status>>
  /\ UNCHANGED <<ask, list, changes, size>>

(* External: an item leaves the list, joins it, or moves within it.           *)
ListChanges ==
  /\ changes < MaxChanges /\ status = "reading" /\ page > 0
  /\ changes' = changes + 1
  /\ \/ \E i \in 1..Len(list) : list' = RemoveAt(list, i)
     \/ \E i \in Items \ Range(list) : list' = <<i>> \o list
     \/ \E i \in 1..Len(list) : list' = <<list[i]>> \o RemoveAt(list, i) /\ list' # list
  /\ UNCHANGED <<ask, page, size, total, raw, seen, got, status>>

PagesNext == PaginateStep \/ FlowRunsStep \/ PulseStep \/ ClientStep \/ ListChanges
PagesSpec == PagesInit /\ [][PagesNext]_pagesVars

-----------------------------------------------------------------------------
(* What the caller is given; flow runs by recency, the newest first.          *)
Newest(s) ==
  [k \in 1..Len(s) |-> CHOOSE i \in Range(s) : Cardinality({j \in Range(s) : j > i}) = k - 1]
Result ==
  CASE ask.loop = "client"              -> got
    [] ask.loop = "flow runs by recency" -> Upto(Limit, Newest(got))
    [] OTHER                            -> Upto(Limit, got)
Truncated ==
  IF ask.loop = "paginate" THEN total > Len(Result) ELSE Len(got) > Len(Result)

(* buildTruncationInfo                                                       *)
Reason ==
  IF ~Truncated THEN "none"
  ELSE IF ask.loop \in FlowRuns /\ ask.limit = Unlimited /\ ask.cap = Unlimited THEN "default-cap"
  ELSE IF /\ ask.cap # Unlimited /\ Limit = ask.cap
          /\ ask.limit = Unlimited \/ ask.limit > ask.cap
  THEN "admin-cap"
  ELSE "requested-limit"

PagesDone == status = "done"
Wanted == Passing(list)

(* No limit is exceeded and no flow run listed twice, however the list changes *)
(* under the loop.  A list that does not change is read without an error and to *)
(* the limit exactly; where `truncated' is reported, it says whether there is     *)
(* more, and a reason of `admin-cap' that asking for more would be in vain.   *)
PagesAreHonest ==
  /\ PagesDone /\ ask.loop # "client" /\ Limit # Unlimited => Len(Result) <= Limit
  /\ PagesDone /\ ask.loop = "client" /\ ask.cap # Unlimited => Len(Result) <= ask.cap
  /\ ask.loop \in FlowRuns => IsInjective(got)
  /\ changes = 0 => status # "error"
  /\ PagesDone /\ changes = 0 /\ ask.loop \notin {"client", "flow runs by recency"} =>
       Result = Upto(Limit, Wanted)
  /\ PagesDone /\ changes = 0 /\ ask.loop = "client" /\ ask.limit = Unlimited =>
       Result = Upto(ask.cap, list)
  /\ PagesDone /\ changes = 0 /\ ask.loop \notin {"pulse", "client"} =>
       /\ Truncated = (Len(Wanted) > Len(Result))
       /\ Reason = "admin-cap" =>
            EffectiveLimit(ask.limit + 1, ask.cap) = Limit \/ ask.limit = Unlimited

-----------------------------------------------------------------------------
(* listWorkbooks, listViews: increment pageNumber until totalAvailable items   *)
(* have been collected.                                                      *)
CollectsTotal == PagesDone /\ changes = 0 /\ ask.loop = "client" => Len(got) >= total
=============================================================================
