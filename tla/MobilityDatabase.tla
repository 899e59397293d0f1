-------------------------- MODULE MobilityDatabase --------------------------
(***************************************************************************)
(* The mobility_database asset: exchange the token, then page through two  *)
(* lists by limit and offset, halving a window that the server fails on.   *)
(*                                                                         *)
(* A step is one request and what the client does with the answer.  The    *)
(* server keeps its lists in order and may add or remove a record between  *)
(* two requests.  It fails on every window that holds one of its bad       *)
(* records, and on all of them while it is down.  The recursion of         *)
(* fetch_window is the stack of windows it has still to fetch.             *)
(***************************************************************************)
EXTENDS Integers, SequencesExt

CONSTANTS
    PageSize,       \* PAGE_SIZES, of the two paths in the order of the code
    Listing,        \* what each list holds at the start
    Spare,          \* records that may be added to each
    Bad,            \* the records that make the server fail
    MaxEdits,       \* bound: how often a list is edited while it is read
    MaxOutages      \* bound: how often the server goes down

Paths == 1 .. 2

VARIABLES
    pc,
    path,           \* the list being read
    windows,        \* what fetch_window has still to fetch of a page
    offset,         \* of the page
    page,           \* its rows so far
    skipped,        \* how many of its records have been given up on
    fetched,        \* fetched[p]: what iter_feeds has yielded of a list
    list,           \* the server's lists
    down, outages,
    stayed,         \* history, not in the code: the records that have been
                    \* in the list since its first request,
    gaps,           \* how many were removed from it, or given up on without
    additions       \* being bad, and how many were added

client == <<pc, path, windows, offset, page, skipped, fetched>>
server == <<list, down, outages>>
history == <<stayed, gaps, additions>>
vars == <<client, server, history>>

Window(limit, start) == [limit |-> limit, offset |-> start]

Init ==
    /\ pc = "token"
    /\ path = 1 /\ windows = <<>> /\ offset = 0
    /\ page = <<>> /\ skipped = 0
    /\ fetched = [p \in Paths |-> <<>>]
    /\ list = Listing /\ down = FALSE /\ outages = 0
    /\ stayed = {} /\ gaps = 0 /\ additions = 0

(* Without a refresh token the catalog is left out, which is no failure.   *)
NoToken ==
    /\ pc = "token"
    /\ pc' = "done"
    /\ UNCHANGED <<path, windows, offset, page, skipped, fetched, server,
                   history>>

BeginPage(p, start) ==
    /\ offset' = start
    /\ windows' = <<Window(PageSize[p], start)>>
    /\ page' = <<>> /\ skipped' = 0

BeginPath(p) ==
    /\ path' = p
    /\ BeginPage(p, 0)
    /\ stayed' = ToSet(list[p]) /\ additions' = 0

FetchAccessToken ==
    /\ pc = "token"
    /\ pc' = "paging"
    /\ BeginPath(1)
    /\ UNCHANGED <<fetched, gaps, server>>

-----------------------------------------------------------------------------
(* Faulty variant: a page is taken to hold what it yielded.                *)
NextOffsetByRows(rows) == offset + Len(rows)

NextOffset(rows) == offset + PageSize[path]

(* Faulty variant: an API that fails at every offset is not told from one  *)
(* bad record.                                                             *)
AllFailedNever(skips) == skips > PageSize[path]

AllFailed(skips) == skips = PageSize[path]

(* iter_feeds, once a page is complete: raise if all of it failed, else    *)
(* yield it and go on to the next page, the next list or the end.          *)
EndOfPage(rows, skips, exhausted) ==
    \/ /\ AllFailed(skips)
       /\ pc' = "failed"
       /\ UNCHANGED <<path, windows, offset, page, skipped, fetched, stayed,
                      additions>>
    \/ /\ ~AllFailed(skips)
       /\ fetched' = [fetched EXCEPT ![path] = @ \o rows]
       /\ \/ /\ ~exhausted
             /\ BeginPage(path, NextOffset(rows))
             /\ UNCHANGED <<pc, path, stayed, additions>>
          \/ exhausted /\ path = 1 /\ BeginPath(2) /\ UNCHANGED pc
          \/ /\ exhausted /\ path = 2
             /\ pc' = "done"
             /\ UNCHANGED <<path, windows, offset, page, skipped, stayed,
                            additions>>

(* One window is done.  The end of the list ends the page as well: what is *)
(* left of it is not asked for.                                            *)
EndOfWindow(rows, skips, exhausted) ==
    IF exhausted \/ Len(windows) = 1
    THEN EndOfPage(rows, skips, exhausted)
    ELSE /\ windows' = Tail(windows)
         /\ page' = rows /\ skipped' = skips
         /\ UNCHANGED <<pc, path, offset, fetched, stayed, additions>>

RowsIn(w) == SubSeq(list[path], w.offset + 1,
                    IF w.offset + w.limit < Len(list[path])
                    THEN w.offset + w.limit ELSE Len(list[path]))
HoldsBad(w) == ToSet(RowsIn(w)) \cap Bad # {}

(* The server answers with what it holds in the window by now.             *)
Answer ==
    /\ pc = "paging" /\ ~down
    /\ LET w == Head(windows)
       IN  /\ ~HoldsBad(w)
           /\ EndOfWindow(page \o RowsIn(w), skipped, Len(RowsIn(w)) < w.limit)
    /\ gaps' = IF path' = path THEN gaps ELSE 0
    /\ UNCHANGED server

(* Faulty variant: the second half begins one short of the first.          *)
HalvesUneven(w) ==
    LET half == w.limit \div 2
    IN  <<Window(half, w.offset), Window(w.limit - half, w.offset + w.limit - half)>>

Halves(w) ==
    LET half == w.limit \div 2
    IN  <<Window(half, w.offset), Window(w.limit - half, w.offset + half)>>

(* A 5xx on more than one record: each half on its own.                    *)
Halve ==
    /\ pc = "paging"
    /\ LET w == Head(windows)
       IN  /\ down \/ HoldsBad(w)
           /\ w.limit > 1
           /\ windows' = Halves(w) \o Tail(windows)
    /\ UNCHANGED <<pc, path, offset, page, skipped, fetched, server, history>>

(* Faulty variant: a single record is asked for again and again.           *)
SkipRetried ==
    /\ pc = "paging" /\ down
    /\ Head(windows).limit = 1
    /\ UNCHANGED vars

(* A 5xx on a single record: it is given up on.                            *)
Skip ==
    /\ pc = "paging"
    /\ LET w == Head(windows)
       IN  /\ down \/ HoldsBad(w)
           /\ w.limit = 1
           /\ EndOfWindow(page, skipped + 1, FALSE)
           /\ gaps' = IF HoldsBad(w) \/ RowsIn(w) = <<>> THEN gaps ELSE gaps + 1
    /\ UNCHANGED server

(* Any other status, a timeout, a token that is refused: the asset raises. *)
Raise ==
    /\ pc \in {"token", "paging"}
    /\ pc' = "failed"
    /\ UNCHANGED <<path, windows, offset, page, skipped, fetched, server,
                   history>>

(* The asset returns its rows, and its process is gone.                    *)
Exit ==
    /\ pc = "done"
    /\ pc' = "token"
    /\ path' = 1 /\ windows' = <<>> /\ offset' = 0
    /\ page' = <<>> /\ skipped' = 0
    /\ fetched' = [p \in Paths |-> <<>>]
    /\ list' = Listing /\ down' = FALSE /\ outages' = 0
    /\ stayed' = {} /\ gaps' = 0 /\ additions' = 0

-----------------------------------------------------------------------------
(* The catalog is edited while it is read, and goes down and comes back.   *)

MayBeEdited == pc = "paging" /\ gaps + additions < MaxEdits

Withdraw ==
    /\ MayBeEdited
    /\ \E i \in DOMAIN list[path] :
        /\ list' = [list EXCEPT ![path] = RemoveAt(@, i)]
        /\ stayed' = stayed \ {list[path][i]}
    /\ gaps' = gaps + 1
    /\ UNCHANGED <<client, down, outages, additions>>

Insert ==
    /\ MayBeEdited
    /\ \E r \in Spare[path] \ ToSet(list[path]), i \in 1 .. Len(list[path]) + 1 :
        list' = [list EXCEPT ![path] = InsertAt(@, i, r)]
    /\ additions' = additions + 1
    /\ UNCHANGED <<client, down, outages, stayed, gaps>>

GoDown ==
    /\ pc = "paging" /\ ~down
    /\ outages < MaxOutages
    /\ down' = TRUE /\ outages' = outages + 1
    /\ UNCHANGED <<client, list, history>>

ComeBack ==
    /\ pc = "paging" /\ down
    /\ down' = FALSE
    /\ UNCHANGED <<client, list, outages, history>>

Server == Withdraw \/ Insert \/ GoDown \/ ComeBack

Request == FetchAccessToken \/ NoToken \/ Answer \/ Halve \/ Skip

-----------------------------------------------------------------------------
(* Properties                                                              *)

(* No page is asked for that begins more than a page beyond the end of the *)
(* list, nor a window outside of its page.                                 *)
TypeOK ==
    /\ pc \in {"token", "paging", "done", "failed"}
    /\ path \in Paths
    /\ \A i \in DOMAIN windows :
        windows[i].limit \in 1 .. PageSize[path] /\ windows[i].offset >= offset
    /\ skipped \in 0 .. PageSize[path]
    /\ offset < Len(Listing[path]) + Cardinality(Spare[path]) + PageSize[path]
    /\ down \in BOOLEAN /\ outages \in 0 .. MaxOutages

(* Reading a list ends well.                                               *)
Finished(p) == path = p /\ pc = "paging" /\ (path' # p \/ pc' = "done")
=============================================================================
