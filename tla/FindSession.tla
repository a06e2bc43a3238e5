------------------------------ MODULE FindSession ------------------------------
(***************************************************************************)
(* Cross-directory find on the transfer screen: the keys that edit the two *)
(* panes' queries, the run loop that drains search events and launches a   *)
(* pending search once the debounce window has passed, and one walker      *)
(* thread per search, listing directories through the cache of its side    *)
(* (DirListCache), which answers at once or keeps its lock for a fetch.    *)
(*                                                                         *)
(* A launch installs a new channel and a new cancel flag together, and     *)
(* cancel_search drops them together: `rx' is the search they belong to.   *)
(* A search is known by its generation.  Entering a directory of a pane in *)
(* `Remote' asks the SFTP worker for a listing, which is answered later.   *)
(***************************************************************************)
EXTENDS Naturals, Sequences

CONSTANTS Side,         \* the panes, each with a searcher and a cache
          Remote,       \* the panes whose directories are listed by the worker
          Plain,        \* queries that only filter the current directory
          Find,         \* queries that launch a search
          Empty,        \* the empty query
          Edit,         \* pairs of queries one keystroke apart
          Slashed,      \* the find queries that end in a slash
          Depth,        \* Depth[q]: directories a search for q lists in turn
          None,         \* no pending search, no pane
          MaxSearches,  \* bound: searches launched
          MaxHits       \* bound: matches one search sends

Query == Plain \cup Find \cup {Empty}
Gen == 1..MaxSearches
Request == [side : Side, query : Find]

ASSUME FindAssumption ==
         /\ MaxSearches \in Nat
         /\ MaxHits \in Nat
         /\ Remote \subseteq Side
         /\ Edit \subseteq Query \X Query
         /\ Slashed \subseteq Find
         /\ Depth \in [Find -> Nat \ {0}]
         /\ Empty \notin Plain \cup Find
         /\ None \notin Request \cup Side
         /\ Plain \cap Find = {}

VARIABLES
  focus,      \* the focused pane
  query,      \* BrowserCore::query of each pane
  search,     \* Pane::search, None outside find mode
  pending,    \* pending_search
  recent,     \* the last key is younger than the debounce window
  switching,  \* panes with a switch_origin: their new directory is not listed yet
  gen,        \* search_gen
  rx,         \* the search of search_rx and search_cancel, 0 for None
  owner,      \* search_side
  events,     \* buffered events of search_rx
  asked,      \* what each launched search was launched for
  stop,       \* cancel flags that were set
  walker,     \* each search thread
  lock,       \* who holds each side's cache, 0 when free
  dropped,    \* history: panes whose last request was never launched
  displaced   \* history: panes whose last search gave way to the other pane's

historyVars == <<dropped, displaced>>
screenVars == <<focus, query, search, pending, recent, switching>>
searchVars == <<gen, rx, owner, asked, stop>>
threadVars == <<walker, lock>>
vars == <<screenVars, searchVars, events, threadVars, historyVars>>

\* PaneSearch: `results' holds the searches its hits came from, `dot' that of
\* the "." row.  Cursor, ranking and message are left out: a key may act on any row, and
\* a row may be a directory or a file.
PaneSearch == [searching : BOOLEAN, results : SUBSET Gen, dot : Gen \cup {0},
               gen : Gen \cup {0}]

Event == [gen : Gen, kind : {"Match", "Drilled", "Done", "Error"}]

Walker == [pc : {"off", "want", "fetch", "emit", "ending"},
           level : Nat, hits : 0..MaxHits]

Idle == [pc |-> "off", level |-> 1, hits |-> 0]

TypeOK ==
    /\ focus \in Side
    /\ query \in [Side -> Query]
    /\ search \in [Side -> PaneSearch \cup {None}]
    /\ pending \in Request \cup {None}
    /\ recent \in BOOLEAN
    /\ switching \subseteq Remote
    /\ gen \in 0..MaxSearches
    /\ rx \in Gen \cup {0}
    /\ owner \in Side \cup {None}
    /\ events \in Seq(Event)
    /\ asked \in [Gen -> Request \cup {None}]
    /\ stop \subseteq Gen
    /\ walker \in [Gen -> Walker]
    /\ lock \in [Side -> Gen \cup {0}]
    /\ dropped \subseteq Side
    /\ displaced \subseteq Side
    /\ \A g \in Gen : asked[g] # None => walker[g].level <= Depth[asked[g].query]

Init ==
    /\ focus \in Side
    /\ query = [s \in Side |-> Empty]
    /\ search = [s \in Side |-> None]
    /\ pending = None
    /\ recent = FALSE
    /\ switching = {}
    /\ gen = 0
    /\ rx = 0
    /\ owner = None
    /\ events = <<>>
    /\ asked = [g \in Gen |-> None]
    /\ stop = {}
    /\ walker = [g \in Gen |-> Idle]
    /\ lock = [s \in Side |-> 0]
    /\ dropped = {}
    /\ displaced = {}

InFind(s) == search[s] # None
Spinning(s) == InFind(s) /\ search[s].searching
PendingFor(s) == pending # None /\ pending.side = s

\* A search of this pane still has something to say: its thread runs, or
\* events of it wait in the channel.
Running(s) == rx # 0 /\ owner = s /\ (walker[rx].pc # "off" \/ events # <<>>)
Owed(s) == PendingFor(s) \/ Running(s)

(***************************************************************************)
(* search_request, after the query of pane s has become q.                 *)
(***************************************************************************)
EmptySearch == [searching |-> TRUE, results |-> {}, dot |-> 0, gen |-> 0]

\* Replacing the pending request of the other pane leaves that pane unanswered.
Replaced(s) == {t \in Side \ {s} : PendingFor(t)}

Answerable(s, lost) ==
    /\ dropped' = lost \ {s}
    /\ displaced' = displaced \ {s}

\* The results of the last query stay until the first event of a new search.
AskFind(s, q) ==
    /\ gen < MaxSearches
    /\ search' = [search EXCEPT ![s] =
                    IF @ = None THEN EmptySearch
                    ELSE [@ EXCEPT !.searching = TRUE]]
    /\ pending' = [side |-> s, query |-> q]
    /\ Answerable(s, dropped \cup Replaced(s))

AskFilter(s) ==
    /\ search' = [search EXCEPT ![s] = None]
    /\ pending' = None
    /\ Answerable(s, dropped \cup Replaced(s))

\* The early return: pending_search is left alone.
AskNothing(s) ==
    /\ search' = [search EXCEPT ![s] = None]
    /\ Answerable(s, dropped)
    /\ UNCHANGED pending

SearchRequest(s, q) ==
    \/ q \in Find /\ AskFind(s, q)
    \/ q \in Plain /\ AskFilter(s)
    \/ q = Empty /\ AskNothing(s)

(***************************************************************************)
(* Keys.  Each stamps last_search_key, which opens the debounce window.    *)
(***************************************************************************)
KeyPressed == recent' = TRUE /\ UNCHANGED <<events, threadVars>>

\* A printable key or Backspace that changes the query.
KeyEdit(q) ==
    /\ KeyPressed
    /\ <<query[focus], q>> \in Edit
    /\ query' = [query EXCEPT ![focus] = q]
    /\ SearchRequest(focus, q)
    /\ UNCHANGED <<focus, switching, searchVars>>

Rows(s) == search[s].results \cup ({search[s].dot} \ {0})

\* Tab, complete_focused: a find result or, in filter mode, a listed entry
\* becomes the query.  A file name without a slash is a filter query.
KeyComplete(q) ==
    /\ KeyPressed
    /\ \/ ~InFind(focus) /\ query[focus] # Empty /\ q \in Plain \cup Find
       \/ InFind(focus) /\ ~Spinning(focus) /\ q \in Find
          /\ query[focus] # Empty /\ search[focus].results # {}
    /\ query' = [query EXCEPT ![focus] = q]
    /\ SearchRequest(focus, q)
    /\ UNCHANGED <<focus, switching, searchVars>>

\* Shift-Tab, or Tab in filter mode with nothing to complete.
KeyFlip ==
    /\ KeyPressed
    /\ focus' \in Side \ {focus}
    /\ UNCHANGED <<query, search, pending, switching, searchVars, historyVars>>

\* Entering a directory.  A local one is listed before the next key; of a
\* remote one begin_switch keeps where the pane came from until the answer.
Entered == switching' = switching \cup ({focus} \cap Remote)

\* Enter on a directory row in find mode.  A pending search stays pending and
\* a running one keeps running.
KeyJump ==
    /\ KeyPressed
    /\ InFind(focus)
    /\ Rows(focus) # {}
    /\ search' = [search EXCEPT ![focus] = None]
    /\ query' = [query EXCEPT ![focus] = Empty]
    /\ Answerable(focus, dropped)
    /\ Entered
    /\ UNCHANGED <<focus, pending, searchVars>>

\* Entering a directory in filter mode: begin_switch clears the query.
KeyStep ==
    /\ KeyPressed
    /\ ~InFind(focus)
    /\ query' = [query EXCEPT ![focus] = Empty]
    /\ Entered
    /\ UNCHANGED <<focus, search, pending, searchVars, historyVars>>

\* Esc in find mode, cancel_search: the search in flight is told to stop, and
\* the pane cleared is that search's, which need not be the focused one.
\* Mutant of CancelTarget: the focused pane.
CancelFocus == focus

CancelTarget == IF owner = None THEN focus ELSE owner

KeyCancel ==
    /\ KeyPressed
    /\ InFind(focus)
    /\ stop' = IF rx = 0 THEN stop ELSE stop \cup {rx}
    /\ rx' = 0
    /\ pending' = None
    /\ search' = [search EXCEPT ![CancelTarget] = None]
    /\ query' = [query EXCEPT ![CancelTarget] = Empty]
    /\ owner' = None
    /\ Answerable(CancelTarget, dropped \cup {s \in Side : PendingFor(s)})
    /\ UNCHANGED <<focus, switching, gen, asked>>

\* Esc in filter mode with a query, clear_query.
KeyClear ==
    /\ KeyPressed
    /\ ~InFind(focus)
    /\ query[focus] # Empty
    /\ query' = [query EXCEPT ![focus] = Empty]
    /\ UNCHANGED <<focus, search, pending, switching, searchVars, historyVars>>

\* Enter on a file, arrows, marks: nothing here changes but the window.
KeyOther ==
    /\ KeyPressed
    /\ UNCHANGED <<focus, query, search, pending, switching, searchVars, historyVars>>

Key ==
    \/ \E q \in Query : KeyEdit(q)
    \/ \E q \in Query : KeyComplete(q)
    \/ KeyFlip
    \/ KeyJump
    \/ KeyStep
    \/ KeyCancel
    \/ KeyClear
    \/ KeyOther

\* The debounce window passes.
Quiet ==
    /\ recent
    /\ recent' = FALSE
    /\ UNCHANGED <<focus, query, search, pending, switching, searchVars,
                   events, threadVars, historyVars>>

(***************************************************************************)
(* The worker's answer, apply_remote_listing.                              *)
(***************************************************************************)
Answered(s) ==
    /\ s \in switching
    /\ switching' = switching \ {s}
    /\ UNCHANGED <<focus, search, pending, recent, searchVars,
                   events, threadVars, historyVars>>

\* finish_switch: the directory the pane is in was listed.  An answer for one
\* it has left meanwhile is dropped and changes nothing.
SwitchEnds(s) == Answered(s) /\ UNCHANGED query

\* revert_switch: the listing failed, the pane goes back and its query, typed
\* since or not, is cleared; find mode and a pending search are left as they are.
SwitchFails(s) == Answered(s) /\ query' = [query EXCEPT ![s] = Empty]

(***************************************************************************)
(* The run loop, drain_transfer_events step 2 (a): apply_search_event.     *)
(***************************************************************************)
Cleared(old) == [old EXCEPT !.results = {}, !.dot = 0]

\* The first event of a generation drops what earlier ones left.
\* Mutant of Base: results are never dropped.
BaseKept(old, ev) == old

Base(old, ev) == IF old.gen # ev.gen THEN Cleared(old) ELSE old

Applied(old, ev) ==
    CASE ev.kind = "Match" ->
           [Base(old, ev) EXCEPT !.results = @ \cup {ev.gen},
                                 !.gen = ev.gen]
      [] ev.kind = "Drilled" ->
           \* a second drilled directory makes "." ambiguous
           [Base(old, ev) EXCEPT !.dot = IF @ = 0 THEN ev.gen ELSE 0,
                                 !.gen = ev.gen]
      [] ev.kind = "Done" ->
           [Base(old, ev) EXCEPT !.searching = FALSE, !.gen = ev.gen]
      [] ev.kind = "Error" ->
           [Cleared(old) EXCEPT !.searching = FALSE, !.gen = ev.gen]

\* Events go to the pane recorded at launch.
Target == owner

DrainEvent ==
    /\ events # <<>>
    /\ events' = Tail(events)
    /\ IF Head(events).gen = gen /\ Target # None /\ InFind(Target)
       THEN search' = [search EXCEPT ![Target] = Applied(@, Head(events))]
       ELSE UNCHANGED search
    /\ UNCHANGED <<focus, query, pending, recent, switching, searchVars,
                   threadVars, historyVars>>

(***************************************************************************)
(* Step 2 (b): launch the pending search.  The displaced one is told to    *)
(* stop and its channel is dropped; begin_search stops the spinner of the  *)
(* pane it ran for, if that is another.                                    *)
(***************************************************************************)
Displaced(s) == {t \in Side \ {s} : owner = t /\ InFind(t)}

\* Mutant of BeginSearch: the displaced pane's spinner is left running.
BeginSearchOnly(s) == owner' = s /\ UNCHANGED search

BeginSearch(s) ==
    /\ owner' = s
    /\ search' = [t \in Side |-> IF t \in Displaced(s)
                                 THEN [search[t] EXCEPT !.searching = FALSE]
                                 ELSE search[t]]

\* Mutant of StopPrevious: only the channel is replaced.
StopNothing == UNCHANGED stop

StopPrevious == stop' = IF rx = 0 THEN stop ELSE stop \cup {rx}

Launch ==
    /\ pending # None
    /\ ~recent
    /\ gen' = gen + 1
    /\ StopPrevious
    /\ BeginSearch(pending.side)
    /\ rx' = gen + 1
    /\ events' = <<>>
    /\ asked' = [asked EXCEPT ![gen + 1] = pending]
    /\ walker' = [walker EXCEPT ![gen + 1] = [Idle EXCEPT !.pc = "want"]]
    /\ pending' = None
    /\ displaced' = displaced \cup {t \in Displaced(pending.side) : Running(t)}
    /\ UNCHANGED <<focus, query, recent, switching, lock, dropped>>

(***************************************************************************)
(* The search thread, walk_levels: an exact descent, one listing per       *)
(* level, then one listing of the directory it led to.                     *)
(***************************************************************************)
ThreadStep == UNCHANGED <<screenVars, searchVars, historyVars>>

SideOf(g) == asked[g].side
\* Mutant of AtLeaf: one level too deep.
PastLeaf(g) == walker[g].level > Depth[asked[g].query]

AtLeaf(g) == walker[g].level = Depth[asked[g].query]

\* Sender::send: lost once the receiver has been dropped.
Sent(g, kind) == IF rx = g THEN Append(events, [gen |-> g, kind |-> kind])
                           ELSE events

Goto(g, pc) == walker' = [walker EXCEPT ![g].pc = pc]

\* The cancel flag is read before each listing.  One set after that, while the
\* thread waits for the lock, is not noticed: then LookUp happens.
Quit(g) ==
    /\ walker[g].pc = "want"
    /\ g \in stop
    /\ Goto(g, "off")
    /\ ThreadStep
    /\ UNCHANGED <<events, lock>>

\* A directory was listed.  On the way down the next segment is among its
\* entries or it is not; at the end of the descent its entries are matched,
\* and after a trailing slash the directory itself is announced first.
Listed(g) ==
    \/ /\ ~AtLeaf(g)
       /\ \/ walker' = [walker EXCEPT ![g].pc = "want", ![g].level = @ + 1]
          \/ Goto(g, "ending")
       /\ UNCHANGED events
    \/ /\ AtLeaf(g)
       /\ Goto(g, "emit")
       /\ events' = IF asked[g].query \in Slashed THEN Sent(g, "Drilled") ELSE events

\* get_or_fetch: a cached listing answers at once; otherwise the lock is kept
\* through the fetch.
LookUp(g) ==
    /\ walker[g].pc = "want"
    /\ lock[SideOf(g)] = 0
    /\ \/ Listed(g) /\ UNCHANGED lock
       \/ /\ Goto(g, "fetch")
          /\ lock' = [lock EXCEPT ![SideOf(g)] = g]
          /\ UNCHANGED events
    /\ ThreadStep

\* The fetch returns, or fails, which is reported.
Fetched(g) ==
    /\ walker[g].pc = "fetch"
    /\ \/ Listed(g)
       \/ events' = Sent(g, "Error") /\ Goto(g, "ending")
    /\ lock' = [lock EXCEPT ![SideOf(g)] = 0]
    /\ ThreadStep

\* One entry that matches; a dropped receiver ends the thread.
EmitMatch(g) ==
    /\ walker[g].pc = "emit"
    /\ walker[g].hits < MaxHits
    /\ events' = Sent(g, "Match")
    /\ IF rx = g THEN walker' = [walker EXCEPT ![g].hits = @ + 1]
                 ELSE Goto(g, "off")
    /\ ThreadStep
    /\ UNCHANGED lock

\* Done.  After a descent that found nothing the flag is read once more; a
\* search told to stop has lost its channel, so its Done is lost either way.
\* Mutant of Finish: the thread ends without a word.
FinishSilently(g) ==
    /\ walker[g].pc \in {"emit", "ending"}
    /\ Goto(g, "off")
    /\ ThreadStep
    /\ UNCHANGED <<events, lock>>

Finish(g) ==
    /\ walker[g].pc \in {"emit", "ending"}
    /\ events' = Sent(g, "Done")
    /\ Goto(g, "off")
    /\ ThreadStep
    /\ UNCHANGED lock

Walks(g) ==
    \/ Quit(g)
    \/ LookUp(g)
    \/ Fetched(g)
    \/ EmitMatch(g)
    \/ Finish(g)

Next ==
    \/ Key
    \/ Quiet
    \/ DrainEvent
    \/ Launch
    \/ \E s \in Side : SwitchEnds(s) \/ SwitchFails(s)
    \/ \E g \in Gen : Walks(g)

Spec == Init /\ [][Next]_vars

\* The run loop ticks every 50 ms, time passes, and a listing returns or
\* fails: a search thread that can move does.
FairSpec ==
    /\ Spec
    /\ WF_vars(Quiet)
    /\ WF_vars(DrainEvent)
    /\ WF_vars(Launch)
    /\ \A g \in Gen : WF_vars(Walks(g))

-----------------------------------------------------------------------------
(***************************************************************************)
(* Properties.                                                             *)
(***************************************************************************)

\* Everything a pane shows comes from one search, and from one launched for
\* that pane (search_dispatch.rs:38, run_loop.rs:579): stale events of a
\* superseded search neither mix with newer results nor reach the other pane.
ResultsOfOneSearch ==
    \A s \in Side : InFind(s) =>
        /\ \A g \in Rows(s) : g = search[s].gen
        /\ search[s].gen # 0 => asked[search[s].gen].side = s

\* A pane spins only while its search is owed an answer, unless its request
\* was replaced or cancelled before it was launched (search_dispatch.rs:337).
SpinsForAReason ==
    \A s \in Side : Spinning(s) => Owed(s) \/ s \in dropped

\* When nothing is owed to a pane in find mode, what it shows was searched for
\* that pane and answers the query it shows, unless a failed listing cleared
\* that query (search_dispatch.rs:38, browser_core.rs:243).
SettledAnswersQuery ==
    \A s \in Side : InFind(s) /\ ~Owed(s) /\ s \notin dropped \cup displaced =>
        /\ search[s].gen # 0
        /\ asked[search[s].gen].side = s
        /\ query[s] \in {asked[search[s].gen].query, Empty}

\* A pane is in find mode only while its query has several segments
\* (pane.rs:77): the answer to a listing leaves no results without a query.
\* (Refuted by any listing that fails after a find was typed: SwitchFails.)
FindModeHasQuery == \A s \in Side : InFind(s) => query[s] \in Find

\* All running search threads but one have been told to stop.
OneSearchRuns ==
    \A g, h \in Gen : walker[g].pc # "off" /\ walker[h].pc # "off"
                      /\ g \notin stop /\ h \notin stop => g = h

\* Once the user pauses, a pane whose request was not given up stops spinning.
SpinnerStops == \A s \in Side : []<>(recent \/ ~Spinning(s) \/ s \in dropped)
===============================================================================
