--------------------------- MODULE FindSession_proofs ---------------------------
(***************************************************************************)
(* What TLC checks of FindSession on a small instance, proved for every    *)
(* number of panes, queries, searches and matches: the types, that at most *)
(* one search thread has not been told to stop, that what a pane shows     *)
(* comes from one search of its own, that it spins only while an answer is *)
(* owed, and that what it settles on answers the query it shows.           *)
(*                                                                         *)
(* The argument is the link between a launch and what outlives it: the     *)
(* channel carries events of the last search only, every other thread has  *)
(* a set cancel flag, the last word of a search is Done, and a pane in     *)
(* find mode knows which search its rows answer.                           *)
(***************************************************************************)
EXTENDS FindSession, TLAPS

\* Generations, flags and threads (run_loop.rs, step 2 (b)).
LaunchInv ==
    /\ rx # 0 => rx = gen /\ asked[rx].side = owner
    /\ rx = 0 <=> owner = None
    /\ pending # None => gen < MaxSearches
    /\ \A g \in Gen : g <= gen <=> asked[g] # None
    /\ \A g \in stop : g <= gen /\ g # rx
    /\ \A g \in Gen : walker[g].pc # "off" => g = rx \/ g \in stop

\* The channel holds events of the last search, and ends with Done once its
\* thread has ended.
ChannelInv ==
    /\ \A i \in 1..Len(events) : events[i].gen = gen
    /\ rx # 0 /\ walker[rx].pc = "off" /\ events # <<>>
         => events[Len(events)].kind = "Done"

\* The rows of a pane come from searches already launched.
RowsOK(s) ==
    /\ search[s].gen <= gen
    /\ \A g \in Rows(s) : g = search[s].gen
    /\ search[s].gen # 0 => asked[search[s].gen].side = s

RowsInv == \A s \in Side : InFind(s) => RowsOK(s)

\* The search a pane waits for, or shows the rows of, is for its query, or for
\* the one it had before a failed listing cleared it.
\* Of the pane the current search was launched for:
OwnerAnswers(s) ==
    /\ query[s] \in {asked[rx].query, Empty}
    /\ Running(s) \/ search[s].gen = rx

OtherAnswers(s) ==
    /\ search[s].gen # 0
    /\ asked[search[s].gen].side = s
    /\ query[s] \in {asked[search[s].gen].query, Empty}

AnswerInv ==
    \A s \in Side : InFind(s) =>
        /\ PendingFor(s) => query[s] \in {pending.query, Empty}
        /\ ~PendingFor(s) /\ s \notin dropped \cup displaced =>
             IF owner = s THEN OwnerAnswers(s) ELSE OtherAnswers(s)

IInv == LaunchInv /\ ChannelInv /\ RowsInv /\ SpinsForAReason /\ AnswerInv

-------------------------------------------------------------------------------
(* The forms a step takes.  A key asks for a search or a filter, leaves the  *)
(* searches alone, leaves find mode, or cancels; the run loop drains or      *)
(* launches; or one thread moves.                                            *)

Asking(q) ==
    /\ q \in Query
    /\ query' = [query EXCEPT ![focus] = q]
    /\ SearchRequest(focus, q)
    /\ recent' \in BOOLEAN
    /\ UNCHANGED <<focus, switching, searchVars, events, threadVars>>

\* Flipping panes, moving in filter mode, a listing answered, time passing.
Aside ==
    /\ focus' \in Side
    /\ recent' \in BOOLEAN
    /\ switching' \subseteq Remote
    /\ query' \in [Side -> Query]
    /\ \A s \in Side : query'[s] \in {query[s], Empty}
    /\ UNCHANGED <<search, pending, searchVars, events, threadVars, historyVars>>

Move(g) ==
    /\ ThreadStep
    /\ walker[g].pc # "off"
    /\ walker' \in [Gen -> Walker]
    /\ \A h \in Gen \ {g} : walker'[h] = walker[h]
    /\ walker'[g].level <= Depth[asked[g].query]
    /\ lock' \in [Side -> Gen \cup {0}]
    /\ events' = events \/ \E kind \in {"Match", "Drilled", "Done", "Error"} :
                             events' = Sent(g, kind)
    /\ walker'[g].pc = "off" => g \in stop \/ g # rx \/ events' = Sent(g, "Done")

\* A thread that runs has been launched.
LEMMA RunsAsked ==
    ASSUME TypeOK, LaunchInv, NEW g \in Gen, walker[g].pc # "off"
    PROVE  /\ asked[g] \in Request
           /\ Depth[asked[g].query] \in Nat
           /\ walker[g] \in Walker
           /\ walker[g].level <= Depth[asked[g].query]
  <1>1. g <= gen
    BY DEF TypeOK, LaunchInv, Gen
  <1>2. asked[g] # None
    BY <1>1 DEF LaunchInv
  <1>3. asked[g] \in Request
    BY <1>2 DEF TypeOK
  <1>4. asked[g].query \in Find
    BY <1>3 DEF Request
  <1> QED BY <1>2, <1>3, <1>4, FindAssumption DEF TypeOK

LEMMA GotoForm ==
    ASSUME TypeOK, NEW g \in Gen, NEW pc \in {"off", "want", "fetch", "emit", "ending"},
           Goto(g, pc)
    PROVE  /\ walker' \in [Gen -> Walker]
           /\ \A h \in Gen \ {g} : walker'[h] = walker[h]
           /\ walker'[g].level = walker[g].level
           /\ walker'[g].pc = pc
  BY DEF TypeOK, Goto, Walker

LEMMA ListedForm ==
    ASSUME TypeOK, LaunchInv, NEW g \in Gen, walker[g].pc # "off", Listed(g)
    PROVE  /\ walker' \in [Gen -> Walker]
           /\ \A h \in Gen \ {g} : walker'[h] = walker[h]
           /\ walker'[g].level <= Depth[asked[g].query]
           /\ walker'[g].pc # "off"
           /\ events' = events \/ events' = Sent(g, "Drilled")
  <1>1. /\ Depth[asked[g].query] \in Nat
        /\ walker[g] \in Walker
        /\ walker[g].level <= Depth[asked[g].query]
    BY RunsAsked
  <1>2. CASE walker' = [walker EXCEPT ![g].pc = "want", ![g].level = @ + 1]
             /\ ~AtLeaf(g) /\ UNCHANGED events
    <2>1. walker'[g].level = walker[g].level + 1 /\ walker'[g].pc = "want"
      BY <1>2 DEF TypeOK, Walker
    <2>2. walker' \in [Gen -> Walker] /\ \A h \in Gen \ {g} : walker'[h] = walker[h]
      <3> DEFINE next == [walker[g] EXCEPT !.pc = "want", !.level = @ + 1]
      <3>1. next \in Walker
        <4>1. walker[g].level + 1 \in Nat
          BY <1>1 DEF Walker
        <4> QED BY <1>1, <4>1 DEF Walker
      <3>2. walker' = [walker EXCEPT ![g] = next]
        BY <1>2 DEF TypeOK, Walker
      <3> QED BY <3>1, <3>2 DEF TypeOK
    <2>3. walker[g].level \in Nat /\ walker[g].level # Depth[asked[g].query]
      BY <1>1, <1>2 DEF AtLeaf, Walker
    <2> QED BY <1>1, <1>2, <2>1, <2>2, <2>3
  <1>3. CASE Goto(g, "ending") /\ UNCHANGED events
    BY <1>1, <1>3, GotoForm
  <1>4. CASE Goto(g, "emit") /\ (events' = events \/ events' = Sent(g, "Drilled"))
    BY <1>1, <1>4, GotoForm
  <1> QED BY <1>2, <1>3, <1>4 DEF Listed

\* Every step of a search thread has that form.
LEMMA WalksMove ==
    ASSUME TypeOK, LaunchInv, NEW g \in Gen, Walks(g)
    PROVE  Move(g)
  <1>1. walker[g].pc # "off" /\ ThreadStep
    BY DEF Walks, Quit, LookUp, Fetched, EmitMatch, Finish
  <1>2. /\ asked[g] \in Request
        /\ walker[g] \in Walker
        /\ walker[g].level <= Depth[asked[g].query]
    BY <1>1, RunsAsked
  <1>3. SideOf(g) \in Side
    BY <1>2 DEF SideOf, Request
  <1>4. CASE Quit(g)
    <2>1. Goto(g, "off") /\ g \in stop /\ UNCHANGED <<events, lock>>
      BY <1>4 DEF Quit
    <2> QED BY <1>1, <1>2, <2>1, GotoForm DEF Move, TypeOK
  <1>5. CASE LookUp(g)
    <2>1. CASE Listed(g) /\ UNCHANGED lock
      BY <1>1, <2>1, ListedForm DEF Move, TypeOK
    <2>2. CASE /\ Goto(g, "fetch")
               /\ lock' = [lock EXCEPT ![SideOf(g)] = g]
               /\ UNCHANGED events
      <3>1. lock' \in [Side -> Gen \cup {0}]
        BY <2>2 DEF TypeOK
      <3> QED BY <1>1, <1>2, <2>2, <3>1, GotoForm DEF Move
    <2> QED BY <1>5, <2>1, <2>2 DEF LookUp
  <1>6. CASE Fetched(g)
    <2>1. lock' \in [Side -> Gen \cup {0}]
      BY <1>6 DEF Fetched, TypeOK
    <2>2. CASE Listed(g)
      BY <1>1, <2>1, <2>2, ListedForm DEF Move
    <2>3. CASE events' = Sent(g, "Error") /\ Goto(g, "ending")
      BY <1>1, <1>2, <2>1, <2>3, GotoForm DEF Move
    <2> QED BY <1>6, <2>2, <2>3 DEF Fetched
  <1>7. CASE EmitMatch(g)
    <2>1. events' = Sent(g, "Match") /\ UNCHANGED lock /\ walker[g].hits < MaxHits
      BY <1>7 DEF EmitMatch
    <2>2. CASE rx = g
      <3>1. walker' = [walker EXCEPT ![g].hits = @ + 1]
        BY <1>7, <2>2 DEF EmitMatch
      <3>2. walker[g].hits + 1 \in 0..MaxHits
        BY <1>2, <2>1, FindAssumption DEF Walker
      <3>3. walker' \in [Gen -> Walker]
        BY <3>1, <3>2, <1>2 DEF TypeOK, Walker
      <3>4. \A h \in Gen \ {g} : walker'[h] = walker[h]
        BY <3>1 DEF TypeOK
      <3>5. walker'[g].level = walker[g].level /\ walker'[g].pc = walker[g].pc
        BY <3>1, <1>2 DEF TypeOK, Walker
      <3> QED BY <1>1, <1>2, <2>1, <3>3, <3>4, <3>5 DEF Move, TypeOK
    <2>3. CASE rx # g
      <3>1. Goto(g, "off")
        BY <1>7, <2>3 DEF EmitMatch
      <3> QED BY <1>1, <1>2, <2>1, <2>3, <3>1, GotoForm DEF Move, TypeOK
    <2> QED BY <2>2, <2>3
  <1>8. CASE Finish(g)
    <2>1. events' = Sent(g, "Done") /\ Goto(g, "off") /\ UNCHANGED lock
      BY <1>8 DEF Finish
    <2> QED BY <1>1, <1>2, <2>1, GotoForm DEF Move, TypeOK
  <1> QED BY <1>4, <1>5, <1>6, <1>7, <1>8 DEF Walks

LEMMA StepForms ==
    ASSUME TypeOK, LaunchInv, [Next]_vars
    PROVE  \/ \E q \in Query : Asking(q)
           \/ Aside
           \/ KeyJump
           \/ KeyCancel
           \/ DrainEvent
           \/ Launch
           \/ \E g \in Gen : Move(g)
  <1>1. ASSUME NEW q \in Query, KeyEdit(q) PROVE Asking(q)
    BY <1>1 DEF KeyEdit, KeyPressed, Asking
  <1>2. ASSUME NEW q \in Query, KeyComplete(q) PROVE Asking(q)
    BY <1>2 DEF KeyComplete, KeyPressed, Asking
  <1>3. CASE KeyFlip
    BY <1>3 DEF KeyFlip, KeyPressed, Aside, TypeOK
  <1>4. CASE KeyStep \/ KeyClear
    <2>1. query' = [query EXCEPT ![focus] = Empty] /\ ~InFind(focus)
      BY <1>4 DEF KeyStep, KeyClear
    <2>2. query' \in [Side -> Query]
      BY <2>1 DEF TypeOK, Query
    <2>3. \A s \in Side : query'[s] \in {query[s], Empty}
      BY <2>1 DEF TypeOK
    <2> QED BY <1>4, <2>2, <2>3 DEF KeyStep, KeyClear, KeyPressed, Entered, Aside, TypeOK
  <1>5. CASE KeyOther
    BY <1>5 DEF KeyOther, KeyPressed, Aside, TypeOK
  <1>6. CASE Quiet
    BY <1>6 DEF Quiet, Aside, TypeOK
  <1>7. CASE UNCHANGED vars
    BY <1>7 DEF vars, screenVars, Aside, TypeOK
  <1>8. ASSUME NEW g \in Gen, Walks(g) PROVE Move(g)
    BY <1>8, WalksMove
  <1>9. ASSUME NEW s \in Side, SwitchEnds(s) \/ SwitchFails(s) PROVE Aside
    <2>1. query' = query \/ query' = [query EXCEPT ![s] = Empty]
      BY <1>9 DEF SwitchEnds, SwitchFails
    <2>2. query' \in [Side -> Query] /\ \A t \in Side : query'[t] \in {query[t], Empty}
      BY <2>1 DEF TypeOK, Query
    <2> QED BY <1>9, <2>2 DEF SwitchEnds, SwitchFails, Answered, Aside, TypeOK
  <1> QED BY <1>1, <1>2, <1>3, <1>4, <1>5, <1>6, <1>7, <1>8, <1>9 DEF Next, Key

-------------------------------------------------------------------------------
(* Types.                                                                     *)

\* What the drained event makes of a pane's search.
LEMMA AppliedFacts ==
    ASSUME NEW old \in PaneSearch, NEW ev \in Event
    PROVE  /\ Applied(old, ev) \in PaneSearch
           /\ Applied(old, ev).gen = ev.gen
           /\ ev.kind = "Done" => ~Applied(old, ev).searching
           /\ Applied(old, ev).searching => old.searching
           /\ (\A g \in old.results \cup ({old.dot} \ {0}) : g = old.gen)
                => \A g \in Applied(old, ev).results
                             \cup ({Applied(old, ev).dot} \ {0}) : g = ev.gen
  <1> DEFINE base == Base(old, ev)
             new == Applied(old, ev)
             OneSearch(p) == \A g \in p.results \cup ({p.dot} \ {0}) : g = ev.gen
  <1>1. ev.gen \in Gen /\ ev.kind \in {"Match", "Drilled", "Done", "Error"}
    BY DEF Event
  <1>2. Cleared(old) \in PaneSearch /\ OneSearch(Cleared(old))
    BY DEF Cleared, PaneSearch
  <1>3. base \in PaneSearch /\ base.searching = old.searching
    BY <1>2 DEF Base, Cleared, PaneSearch
  <1>4. (\A g \in old.results \cup ({old.dot} \ {0}) : g = old.gen) => OneSearch(base)
    BY <1>2 DEF Base
  <1>5. CASE ev.kind = "Match"
    <2>1. new = [base EXCEPT !.results = @ \cup {ev.gen}, !.gen = ev.gen]
      BY <1>5 DEF Applied
    <2>2. new \in PaneSearch
      <3>1. base.results \cup {ev.gen} \in SUBSET Gen
        BY <1>1, <1>3 DEF PaneSearch
      <3>2. ev.gen \in Gen \cup {0}
        BY <1>1
      <3> HIDE DEF base
      <3> QED BY <1>3, <2>1, <3>1, <3>2 DEF PaneSearch
    <2>3. new.results = base.results \cup {ev.gen} /\ new.dot = base.dot /\ new.gen = ev.gen
          /\ new.searching = base.searching
      BY <1>3, <2>1 DEF PaneSearch
    <2> QED BY <1>3, <1>4, <1>5, <2>2, <2>3
  <1>6. CASE ev.kind = "Drilled"
    <2>1. new = [base EXCEPT !.dot = IF @ = 0 THEN ev.gen ELSE 0, !.gen = ev.gen]
      BY <1>6 DEF Applied
    <2> QED BY <1>1, <1>3, <1>4, <1>6, <2>1 DEF PaneSearch
  <1>7. CASE ev.kind = "Done"
    <2>1. new = [base EXCEPT !.searching = FALSE, !.gen = ev.gen]
      BY <1>7 DEF Applied
    <2> QED BY <1>1, <1>3, <1>4, <1>7, <2>1 DEF PaneSearch
  <1>8. CASE ev.kind = "Error"
    <2>1. new = [Cleared(old) EXCEPT !.searching = FALSE, !.gen = ev.gen]
      BY <1>8 DEF Applied
    <2> QED BY <1>1, <1>2, <1>8, <2>1 DEF PaneSearch
  <1> QED BY <1>1, <1>5, <1>6, <1>7, <1>8

\* The run loop takes the first event; it matters to the pane of the search.
LEMMA DrainForm ==
    ASSUME TypeOK, ChannelInv, DrainEvent
    PROVE  /\ events # <<>>
           /\ Head(events) \in Event /\ Head(events).gen = gen
           /\ \A s \in Side : s # owner => search'[s] = search[s]
           /\ owner # None /\ InFind(owner) =>
                /\ search[owner] \in PaneSearch
                /\ search'[owner] = Applied(search[owner], Head(events))
           /\ owner # None /\ ~InFind(owner) => search'[owner] = search[owner]
           /\ search' \in [Side -> PaneSearch \cup {None}]
  <1>1. events # <<>> /\ Len(events) \in Nat \ {0}
    BY DEF DrainEvent, TypeOK
  <1>2. Head(events) = events[1] /\ Head(events) \in Event
    BY <1>1 DEF TypeOK
  <1>3. Head(events).gen = gen
    BY <1>1, <1>2 DEF ChannelInv
  <1>4. CASE owner # None /\ InFind(owner)
    <2>1. owner \in Side /\ search[owner] \in PaneSearch
      BY <1>4 DEF TypeOK, InFind
    <2>2. search' = [search EXCEPT ![owner] = Applied(@, Head(events))]
      BY <1>3, <1>4 DEF DrainEvent, Target
    <2>3. Applied(search[owner], Head(events)) \in PaneSearch
      BY <1>2, <2>1, AppliedFacts
    <2> QED BY <1>1, <1>2, <1>3, <1>4, <2>1, <2>2, <2>3 DEF TypeOK
  <1>5. CASE ~(owner # None /\ InFind(owner))
    <2>1. UNCHANGED search
      BY <1>5 DEF DrainEvent, Target
    <2> QED BY <1>1, <1>2, <1>3, <1>5, <2>1 DEF TypeOK
  <1> QED BY <1>4, <1>5

\* What a key's request does to the other panes, and what it leaves this one.
LEMMA AskingForm ==
    ASSUME TypeOK, NEW q \in Query, Asking(q)
    PROVE  /\ query' \in [Side -> Query] /\ query'[focus] = q
           /\ \A s \in Side \ {focus} : /\ query'[s] = query[s]
                                        /\ search'[s] = search[s]
                                        /\ PendingFor(s) => PendingFor(s)' \/ s \in dropped'
                                        /\ PendingFor(s)' => PendingFor(s)
                                        /\ ~PendingFor(s) /\ s \in dropped' => s \in dropped
           /\ search' \in [Side -> PaneSearch \cup {None}]
           /\ pending' \in Request \cup {None}
           /\ pending' # pending => pending' = None \/ gen < MaxSearches
           /\ dropped' \subseteq Side /\ displaced' \subseteq Side
           /\ dropped \ {focus} \subseteq dropped'
           /\ displaced' = displaced \ {focus}
           /\ InFind(focus)' => q \in Find /\ pending' = [side |-> focus, query |-> q]
           /\ InFind(focus)' => search'[focus] = EmptySearch
                                \/ /\ InFind(focus)
                                   /\ search'[focus] = [search[focus] EXCEPT !.searching = TRUE]
           /\ PendingFor(focus)' \/ ~InFind(focus)'
  <1>1. focus \in Side /\ focus' = focus /\ query' = [query EXCEPT ![focus] = q]
    BY DEF TypeOK, Asking
  <1>2. query' \in [Side -> Query] /\ query'[focus] = q
         /\ \A s \in Side \ {focus} : query'[s] = query[s]
    BY <1>1 DEF TypeOK
  <1>3. EmptySearch \in PaneSearch
    BY DEF EmptySearch, PaneSearch
  <1>4. CASE q \in Find /\ AskFind(focus, q)
    <2> DEFINE new == IF search[focus] = None THEN EmptySearch
                      ELSE [search[focus] EXCEPT !.searching = TRUE]
    <2>1. /\ search' = [search EXCEPT ![focus] = new]
          /\ pending' = [side |-> focus, query |-> q]
          /\ gen < MaxSearches
          /\ dropped' = (dropped \cup Replaced(focus)) \ {focus}
          /\ displaced' = displaced \ {focus}
      BY <1>4 DEF AskFind, Answerable
    <2>2. new \in PaneSearch
      BY <1>1, <1>3 DEF TypeOK, PaneSearch
    <2>3. pending' \in Request /\ pending' # None
      BY <1>1, <1>4, <2>1, FindAssumption DEF Request
    <2>4. search'[focus] = new /\ search' \in [Side -> PaneSearch \cup {None}]
          /\ \A s \in Side \ {focus} : search'[s] = search[s]
      BY <1>1, <2>1, <2>2 DEF TypeOK
    <2>5. \A s \in Side \ {focus} : /\ ~PendingFor(s)'
                                    /\ PendingFor(s) => s \in dropped'
                                    /\ ~PendingFor(s) /\ s \in dropped' => s \in dropped
      BY <2>1 DEF PendingFor, Replaced
    <2>6. \/ search'[focus] = EmptySearch
          \/ InFind(focus) /\ search'[focus] = [search[focus] EXCEPT !.searching = TRUE]
      BY <2>4 DEF InFind
    <2>7. PendingFor(focus)'
      BY <1>1, <2>1, <2>3 DEF PendingFor
    <2>8. dropped' \subseteq Side /\ displaced' \subseteq Side /\ dropped \ {focus} \subseteq dropped'
      BY <2>1 DEF TypeOK, Replaced
    <2> QED BY <1>2, <1>4, <2>1, <2>3, <2>4, <2>5, <2>6, <2>7, <2>8
  <1>5. CASE q \in Plain /\ AskFilter(focus)
    <2>1. /\ search' = [search EXCEPT ![focus] = None]
          /\ pending' = None
          /\ dropped' = (dropped \cup Replaced(focus)) \ {focus}
          /\ displaced' = displaced \ {focus}
      BY <1>5 DEF AskFilter, Answerable
    <2>2. ~InFind(focus)' /\ search' \in [Side -> PaneSearch \cup {None}]
          /\ \A s \in Side \ {focus} : search'[s] = search[s]
      BY <1>1, <2>1 DEF TypeOK, InFind
    <2>3. \A s \in Side \ {focus} : /\ ~PendingFor(s)'
                                    /\ PendingFor(s) => s \in dropped'
                                    /\ ~PendingFor(s) /\ s \in dropped' => s \in dropped
      BY <2>1 DEF PendingFor, Replaced
    <2>4. dropped' \subseteq Side /\ displaced' \subseteq Side /\ dropped \ {focus} \subseteq dropped'
      BY <2>1 DEF TypeOK, Replaced
    <2> QED BY <1>2, <2>1, <2>2, <2>3, <2>4
  <1>6. CASE q = Empty /\ AskNothing(focus)
    <2>1. /\ search' = [search EXCEPT ![focus] = None]
          /\ pending' = pending
          /\ dropped' = dropped \ {focus}
          /\ displaced' = displaced \ {focus}
      BY <1>6 DEF AskNothing, Answerable
    <2>2. ~InFind(focus)' /\ search' \in [Side -> PaneSearch \cup {None}]
          /\ \A s \in Side \ {focus} : search'[s] = search[s]
      BY <1>1, <2>1 DEF TypeOK, InFind
    <2>3. \A s \in Side \ {focus} : PendingFor(s)' <=> PendingFor(s)
      BY <2>1 DEF PendingFor
    <2>4. pending' \in Request \cup {None} /\ dropped' \subseteq Side /\ displaced' \subseteq Side
      BY <2>1 DEF TypeOK
    <2> QED BY <1>2, <2>1, <2>2, <2>3, <2>4
  <1> QED BY <1>4, <1>5, <1>6 DEF Asking, SearchRequest

LEMMA JumpForm ==
    ASSUME TypeOK, KeyJump
    PROVE  /\ focus \in Side /\ focus' = focus
           /\ search' = [search EXCEPT ![focus] = None]
           /\ query' = [query EXCEPT ![focus] = Empty]
           /\ dropped' = dropped \ {focus} /\ displaced' = displaced \ {focus}
           /\ recent' \in BOOLEAN /\ switching' \subseteq Remote
           /\ UNCHANGED <<pending, gen, rx, owner, asked, stop, events, walker, lock>>
  BY DEF TypeOK, KeyJump, KeyPressed, Answerable, Entered, searchVars, threadVars

LEMMA CancelForm ==
    ASSUME TypeOK, KeyCancel
    PROVE  /\ CancelTarget \in Side
           /\ owner # None => CancelTarget = owner
           /\ search' = [search EXCEPT ![CancelTarget] = None]
           /\ query' = [query EXCEPT ![CancelTarget] = Empty]
           /\ dropped' = (dropped \cup {s \in Side : PendingFor(s)}) \ {CancelTarget}
           /\ displaced' = displaced \ {CancelTarget}
           /\ stop' = IF rx = 0 THEN stop ELSE stop \cup {rx}
           /\ rx' = 0 /\ owner' = None /\ pending' = None
           /\ recent' \in BOOLEAN
           /\ UNCHANGED <<focus, switching, gen, asked, events, walker, lock>>
  BY DEF TypeOK, KeyCancel, KeyPressed, Answerable, CancelTarget, threadVars

\* A launch takes the next generation, for the pane of the request.
LEMMA LaunchForm ==
    ASSUME TypeOK, LaunchInv, Launch
    PROVE  /\ pending \in Request /\ pending.side \in Side /\ pending.query \in Find
           /\ gen + 1 \in Gen /\ gen' = gen + 1 /\ rx' = gen + 1
           /\ owner' = pending.side /\ events' = <<>> /\ pending' = None
           /\ asked' = [asked EXCEPT ![gen + 1] = pending]
           /\ walker' = [walker EXCEPT ![gen + 1] = [Idle EXCEPT !.pc = "want"]]
           /\ stop' = IF rx = 0 THEN stop ELSE stop \cup {rx}
           /\ \A t \in Side : search'[t] = IF t \in Displaced(pending.side)
                                           THEN [search[t] EXCEPT !.searching = FALSE]
                                           ELSE search[t]
           /\ displaced' = displaced \cup {t \in Displaced(pending.side) : Running(t)}
           /\ search' \in [Side -> PaneSearch \cup {None}]
           /\ UNCHANGED <<focus, query, recent, switching, lock, dropped>>
  <1>1. pending # None /\ pending \in Request
    BY DEF Launch, TypeOK
  <1>2. gen < MaxSearches /\ gen + 1 \in Gen
    BY <1>1, FindAssumption DEF LaunchInv, TypeOK, Gen
  <1>3. \A t \in Side : search'[t] = IF t \in Displaced(pending.side)
                                    THEN [search[t] EXCEPT !.searching = FALSE]
                                    ELSE search[t]
    BY DEF Launch, BeginSearch
  <1>4. \A t \in Displaced(pending.side) :
            [search[t] EXCEPT !.searching = FALSE] \in PaneSearch
    BY DEF TypeOK, Displaced, InFind, PaneSearch
  <1>5. search' \in [Side -> PaneSearch \cup {None}]
    <2>1. search' = [t \in Side |-> search'[t]]
      BY DEF Launch, BeginSearch
    <2>2. \A t \in Side : search'[t] \in PaneSearch \cup {None}
      BY <1>3, <1>4 DEF TypeOK
    <2> QED BY <2>1, <2>2
  <1> QED BY <1>1, <1>2, <1>3, <1>5 DEF Launch, BeginSearch, StopPrevious, Request

LEMMA InitTyped == Init => TypeOK /\ LaunchInv
  <1> SUFFICES ASSUME Init PROVE TypeOK /\ LaunchInv
    OBVIOUS
  <1>1. Idle \in Walker
    BY FindAssumption DEF Idle, Walker
  <1>2. \A g \in Gen : ~(g <= gen)
    BY DEF Init, Gen
  <1>3. TypeOK
    <2>1. walker \in [Gen -> Walker] /\ asked \in [Gen -> Request \cup {None}]
          /\ \A g \in Gen : asked[g] = None
      BY <1>1 DEF Init
    <2>2. search \in [Side -> PaneSearch \cup {None}] /\ lock \in [Side -> Gen \cup {0}]
          /\ query \in [Side -> Query]
      BY DEF Init, Query
    <2>3. gen \in 0..MaxSearches /\ events \in Seq(Event)
      BY FindAssumption DEF Init
    <2> QED BY <2>1, <2>2, <2>3 DEF Init, TypeOK
  <1>4. LaunchInv
    BY <1>2 DEF Init, LaunchInv, Idle
  <1> QED BY <1>3, <1>4

\* The bound of the descent is that of what the thread was launched for.
LEMMA StepTyped == TypeOK /\ LaunchInv /\ ChannelInv /\ [Next]_vars => TypeOK'
  <1> SUFFICES ASSUME TypeOK, LaunchInv, ChannelInv, [Next]_vars PROVE TypeOK'
    OBVIOUS
  <1>1. ASSUME NEW q \in Query, Asking(q) PROVE TypeOK'
    <2>1. UNCHANGED <<focus, switching, gen, rx, owner, asked, stop, events, walker, lock>>
          /\ recent' \in BOOLEAN
      BY <1>1 DEF Asking, searchVars, threadVars
    <2> QED BY <1>1, <2>1, AskingForm DEF TypeOK
  <1>2. CASE Aside
    BY <1>2 DEF Aside, TypeOK, searchVars, threadVars, historyVars
  <1>3. CASE KeyJump
    BY <1>3, JumpForm DEF TypeOK, Query
  <1>4. CASE KeyCancel
    BY <1>4, CancelForm DEF TypeOK, Query
  <1>5. CASE DrainEvent
    <2>1. UNCHANGED <<focus, query, pending, recent, switching, gen, rx, owner, asked, stop,
                      walker, lock, dropped, displaced>>
      BY <1>5 DEF DrainEvent, searchVars, threadVars, historyVars
    <2>2. events' \in Seq(Event)
      BY <1>5 DEF DrainEvent, TypeOK
    <2> QED BY <1>5, <2>1, <2>2, DrainForm DEF TypeOK
  <1>6. CASE Launch
    <2> USE LaunchForm, <1>6
    <2>1. [Idle EXCEPT !.pc = "want"] \in Walker /\ [Idle EXCEPT !.pc = "want"].level = 1
      BY FindAssumption DEF Idle, Walker
    <2>2. Depth[pending.query] \in Nat /\ 1 <= Depth[pending.query]
      BY FindAssumption
    <2>3. asked' \in [Gen -> Request \cup {None}] /\ walker' \in [Gen -> Walker]
      BY <2>1 DEF TypeOK
    <2>4. ASSUME NEW g \in Gen, asked'[g] # None
          PROVE  walker'[g].level <= Depth[asked'[g].query]
      <3>1. CASE g = gen + 1
        BY <2>1, <2>2, <3>1 DEF TypeOK
      <3>2. CASE g # gen + 1
        BY <2>4, <3>2 DEF TypeOK
      <3> QED BY <3>1, <3>2
    <2>5. gen' \in 0..MaxSearches
      BY DEF Gen
    <2>6. stop' \subseteq Gen /\ displaced' \subseteq Side
      BY DEF TypeOK, Displaced
    <2>7. events' \in Seq(Event)
      OBVIOUS
    <2> QED BY <2>3, <2>4, <2>5, <2>6, <2>7 DEF TypeOK
  <1>7. ASSUME NEW g \in Gen, Move(g) PROVE TypeOK'
    <2>1. UNCHANGED <<focus, query, search, pending, recent, switching, gen, rx, owner, asked,
                      stop, dropped, displaced>>
      BY <1>7 DEF Move, ThreadStep, screenVars, searchVars, historyVars
    <2>2. \A kind \in {"Match", "Drilled", "Done", "Error"} : Sent(g, kind) \in Seq(Event)
      <3>1. \A kind \in {"Match", "Drilled", "Done", "Error"} :
                [gen |-> g, kind |-> kind] \in Event
        BY DEF Event
      <3> QED BY <3>1 DEF Sent, TypeOK
    <2>3. events' \in Seq(Event)
      BY <1>7, <2>2 DEF Move, TypeOK
    <2>4. \A h \in Gen : asked'[h] # None => walker'[h].level <= Depth[asked'[h].query]
      BY <1>7, <2>1 DEF Move, TypeOK
    <2>5. walker' \in [Gen -> Walker] /\ lock' \in [Side -> Gen \cup {0}]
      BY <1>7 DEF Move
    <2> QED BY <2>1, <2>3, <2>4, <2>5 DEF TypeOK
  <1> QED BY <1>1, <1>2, <1>3, <1>4, <1>5, <1>6, <1>7, StepForms

-------------------------------------------------------------------------------
(* Launches, threads and the channel.                                         *)

LEMMA StepLaunches == TypeOK /\ LaunchInv /\ ChannelInv /\ [Next]_vars => LaunchInv'
  <1> SUFFICES ASSUME TypeOK, LaunchInv, ChannelInv, [Next]_vars PROVE LaunchInv'
    OBVIOUS
  <1>1. ASSUME NEW q \in Query, Asking(q) PROVE LaunchInv'
    <2>1. UNCHANGED <<gen, rx, owner, asked, stop, walker>>
      BY <1>1 DEF Asking, searchVars, threadVars
    <2>2. pending' # None => gen < MaxSearches
      BY <1>1, AskingForm DEF LaunchInv
    <2> QED BY <2>1, <2>2 DEF LaunchInv
  <1>2. CASE Aside
    BY <1>2 DEF Aside, searchVars, threadVars, LaunchInv
  <1>3. CASE KeyJump
    BY <1>3, JumpForm DEF LaunchInv
  <1>4. CASE KeyCancel
    <2>1. \A g \in stop' : g <= gen
      BY <1>4, CancelForm DEF LaunchInv, TypeOK
    <2>2. \A g \in stop' : g # 0
      BY <1>4, CancelForm DEF TypeOK, Gen
    <2> QED BY <1>4, <2>1, <2>2, CancelForm DEF LaunchInv
  <1>5. CASE DrainEvent
    BY <1>5 DEF DrainEvent, searchVars, threadVars, LaunchInv
  <1>6. CASE Launch
    <2> USE LaunchForm, <1>6
    <2>1. owner' # None /\ rx' # 0
      BY FindAssumption DEF TypeOK
    <2>2. asked'[rx'] = pending /\ pending # None
      BY FindAssumption DEF TypeOK
    <2>3. \A g \in Gen : g <= gen' <=> asked'[g] # None
      <3> TAKE g \in Gen
      <3>1. CASE g = gen + 1
        BY <2>2, <3>1 DEF Gen
      <3>2. CASE g # gen + 1
        <4>1. asked'[g] = asked[g]
          BY <3>2 DEF TypeOK
        <4>2. g <= gen' <=> g <= gen
          BY <3>2 DEF TypeOK, Gen
        <4> QED BY <4>1, <4>2 DEF LaunchInv
      <3> QED BY <3>1, <3>2
    <2>4. \A g \in stop' : g <= gen
      BY DEF LaunchInv, TypeOK
    <2>5. \A g \in stop' : g <= gen' /\ g # rx'
      <3>1. stop' \subseteq Gen /\ gen \in Nat
        BY DEF TypeOK
      <3>2. \A g \in Gen : g <= gen => g <= gen + 1 /\ g # gen + 1
        BY <3>1 DEF Gen
      <3> QED BY <2>4, <3>1, <3>2
    <2>6. \A g \in Gen : walker'[g].pc # "off" => g = rx' \/ g \in stop'
      <3> TAKE g \in Gen
      <3>1. CASE g # gen + 1
        <4>1. walker'[g] = walker[g]
          BY <3>1 DEF TypeOK
        <4>2. g = rx => rx # 0
          BY DEF Gen
        <4> QED BY <4>1, <4>2 DEF LaunchInv
      <3> QED BY <3>1
    <2> QED BY <2>1, <2>2, <2>3, <2>5, <2>6 DEF LaunchInv
  <1>7. ASSUME NEW g \in Gen, Move(g) PROVE LaunchInv'
    <2>1. UNCHANGED <<pending, gen, rx, owner, asked, stop>>
      BY <1>7 DEF Move, ThreadStep, screenVars, searchVars
    <2>2. \A h \in Gen : walker'[h].pc # "off" => h = rx \/ h \in stop
      BY <1>7 DEF Move, LaunchInv
    <2> QED BY <2>1, <2>2 DEF LaunchInv
  <1> QED BY <1>1, <1>2, <1>3, <1>4, <1>5, <1>6, <1>7, StepForms

\* Taking the first event leaves the last one, if any is left.
LEMMA DrainTail ==
    ASSUME TypeOK, DrainEvent
    PROVE  /\ Len(events) \in Nat /\ Len(events') = Len(events) - 1
           /\ \A i \in 1..Len(events') : events'[i] = events[i + 1]
           /\ events' # <<>> <=> Len(events) > 1
           /\ events' = <<>> => Head(events) = events[Len(events)]
  <1>1. events \in Seq(Event) /\ events # <<>> /\ events' = Tail(events)
    BY DEF TypeOK, DrainEvent
  <1> QED BY <1>1

LEMMA StepChannel == TypeOK /\ LaunchInv /\ ChannelInv /\ [Next]_vars => ChannelInv'
  <1> SUFFICES ASSUME TypeOK, LaunchInv, ChannelInv, [Next]_vars PROVE ChannelInv'
    OBVIOUS
  <1>1. ASSUME NEW q \in Query, Asking(q) PROVE ChannelInv'
    BY <1>1 DEF Asking, searchVars, threadVars, ChannelInv
  <1>2. CASE Aside
    BY <1>2 DEF Aside, searchVars, threadVars, ChannelInv
  <1>3. CASE KeyJump
    BY <1>3, JumpForm DEF ChannelInv
  <1>4. CASE KeyCancel
    BY <1>4, CancelForm DEF ChannelInv
  <1>5. CASE DrainEvent
    <2>1. UNCHANGED <<gen, rx, walker>>
      BY <1>5 DEF DrainEvent, searchVars, threadVars
    <2>2. \A i \in 1..Len(events') : events'[i].gen = gen
      BY <1>5, DrainTail DEF ChannelInv
    <2>3. events' # <<>> => events'[Len(events')] = events[Len(events)] /\ events # <<>>
      BY <1>5, DrainTail DEF DrainEvent
    <2> QED BY <2>1, <2>2, <2>3 DEF ChannelInv
  <1>6. CASE Launch
    BY <1>6, LaunchForm DEF ChannelInv
  <1>7. ASSUME NEW g \in Gen, Move(g) PROVE ChannelInv'
    <2>1. UNCHANGED <<gen, rx, stop>> /\ events \in Seq(Event)
      BY <1>7 DEF Move, ThreadStep, searchVars, TypeOK
    <2>2. CASE events' = events
      <3>1. rx # 0 /\ walker'[rx].pc = "off" => walker[rx].pc = "off" \/ rx = g
        BY <1>7 DEF Move, TypeOK
      <3>2. rx = g /\ walker'[g].pc = "off" => events' = Sent(g, "Done")
        BY <1>7 DEF Move, LaunchInv
      <3>3. Sent(g, "Done") # events \/ rx # g
        BY <2>1 DEF Sent
      <3> QED BY <2>1, <2>2, <3>1, <3>2, <3>3 DEF ChannelInv
    <2>3. CASE events' # events
      <3>1. PICK kind \in {"Match", "Drilled", "Done", "Error"} : events' = Sent(g, kind)
        BY <1>7, <2>3 DEF Move
      <3>2. rx = g /\ events' = Append(events, [gen |-> g, kind |-> kind])
        BY <2>3, <3>1 DEF Sent
      <3>3. g = gen
        BY <3>2 DEF LaunchInv, Gen
      <3>4. \A i \in 1..Len(events') : events'[i].gen = gen
        BY <2>1, <3>2, <3>3 DEF ChannelInv
      <3>5. walker'[g].pc = "off" => events' = Append(events, [gen |-> g, kind |-> "Done"])
        BY <1>7, <3>2 DEF Move, LaunchInv, Sent
      <3>6. walker'[g].pc = "off" => events'[Len(events')].kind = "Done"
        BY <2>1, <3>5
      <3> QED BY <2>1, <3>2, <3>4, <3>6 DEF ChannelInv
    <2> QED BY <2>2, <2>3
  <1> QED BY <1>1, <1>2, <1>3, <1>4, <1>5, <1>6, <1>7, StepForms

-------------------------------------------------------------------------------
(* The rows of a pane.                                                        *)

\* Raising or lowering the spinner touches neither the rows nor their search.
LEMMA SpinnerOnly ==
    ASSUME NEW old \in PaneSearch, NEW b \in BOOLEAN
    PROVE  LET new == [old EXCEPT !.searching = b]
           IN  new.gen = old.gen /\ new.results = old.results /\ new.dot = old.dot
               /\ new.searching = b
  BY DEF PaneSearch

\* Rows stay of one search while the pane and what was launched stay.
LEMMA RowsKept ==
    ASSUME NEW s \in Side, RowsOK(s), search'[s] = search[s], UNCHANGED <<gen, asked>>
    PROVE  RowsOK(s)'
  BY DEF RowsOK, Rows

LEMMA StepRows == TypeOK /\ LaunchInv /\ ChannelInv /\ RowsInv /\ [Next]_vars => RowsInv'
  <1> SUFFICES ASSUME TypeOK, LaunchInv, ChannelInv, RowsInv, [Next]_vars,
                      NEW s \in Side, InFind(s)'
               PROVE  RowsOK(s)'
    BY DEF RowsInv
  <1> USE DEF InFind
  <1>1. ASSUME NEW q \in Query, Asking(q) PROVE RowsOK(s)'
    <2>1. UNCHANGED <<gen, asked, focus>>
      BY <1>1 DEF Asking, searchVars
    <2>2. CASE s # focus
      BY <1>1, <2>1, <2>2, AskingForm, RowsKept DEF RowsInv
    <2>3. CASE s = focus /\ search'[s] = EmptySearch
      BY <2>1, <2>3 DEF RowsOK, Rows, EmptySearch, TypeOK
    <2>4. CASE s = focus /\ InFind(s) /\ search'[s] = [search[s] EXCEPT !.searching = TRUE]
      <3>1. search[s] \in PaneSearch
        BY <2>4 DEF TypeOK
      <3>2. search'[s].gen = search[s].gen /\ search'[s].results = search[s].results
            /\ search'[s].dot = search[s].dot
        BY <2>4, <3>1, SpinnerOnly
      <3> QED BY <2>1, <2>4, <3>2 DEF RowsInv, RowsOK, Rows
    <2> QED BY <1>1, <2>1, <2>2, <2>3, <2>4, AskingForm
  <1>2. CASE Aside
    BY <1>2, RowsKept DEF Aside, searchVars, RowsInv
  <1>3. CASE KeyJump
    <2>1. s # focus /\ search'[s] = search[s]
      BY <1>3, JumpForm DEF TypeOK
    <2> QED BY <1>3, <2>1, JumpForm, RowsKept DEF RowsInv
  <1>4. CASE KeyCancel
    <2>1. s # CancelTarget /\ search'[s] = search[s]
      BY <1>4, CancelForm DEF TypeOK
    <2> QED BY <1>4, <2>1, CancelForm, RowsKept DEF RowsInv
  <1>5. CASE DrainEvent
    <2>1. UNCHANGED <<gen, asked>>
      BY <1>5 DEF DrainEvent, searchVars
    <2>2. CASE owner = s /\ InFind(s)
      <3> DEFINE ev == Head(events)
      <3>1. /\ ev \in Event /\ ev.gen = gen
            /\ search[s] \in PaneSearch
            /\ search'[s] = Applied(search[s], ev)
        BY <1>5, <2>2, DrainForm, FindAssumption
      <3>2. \A g \in search[s].results \cup ({search[s].dot} \ {0}) : g = search[s].gen
        BY <2>2 DEF RowsInv, RowsOK, Rows
      <3>3. search'[s].gen = gen /\ \A g \in Rows(s)' : g = gen
        BY <3>1, <3>2, AppliedFacts DEF Rows
      <3>4. rx # 0 /\ asked[gen].side = s
        BY <2>2, FindAssumption DEF LaunchInv
      <3>5. gen <= gen
        BY DEF TypeOK
      <3> QED BY <2>1, <3>3, <3>4, <3>5 DEF RowsOK
    <2>3. CASE ~(owner = s /\ InFind(s))
      <3>1. search'[s] = search[s]
        BY <1>5, <2>3, DrainForm, FindAssumption
      <3> QED BY <2>1, <3>1, RowsKept DEF RowsInv
    <2> QED BY <2>2, <2>3
  <1>6. CASE Launch
    <2> USE LaunchForm, <1>6
    <2>1. InFind(s) /\ search[s] \in PaneSearch
      BY DEF TypeOK, Displaced
    <2>2. search'[s].gen = search[s].gen /\ search'[s].results = search[s].results
          /\ search'[s].dot = search[s].dot
      BY <2>1, SpinnerOnly
    <2>3. search[s].gen \in Gen \cup {0} /\ search[s].gen <= gen
      BY <2>1 DEF PaneSearch, RowsInv, RowsOK
    <2>4. search[s].gen # gen + 1 /\ search[s].gen <= gen'
      BY <2>3 DEF TypeOK, Gen
    <2>5. search[s].gen # 0 => asked'[search[s].gen] = asked[search[s].gen]
      BY <2>3, <2>4 DEF TypeOK
    <2> QED BY <2>1, <2>2, <2>4, <2>5 DEF RowsInv, RowsOK, Rows
  <1>7. ASSUME NEW g \in Gen, Move(g) PROVE RowsOK(s)'
    BY <1>7, RowsKept DEF Move, ThreadStep, screenVars, searchVars, RowsInv
  <1> QED BY <1>1, <1>2, <1>3, <1>4, <1>5, <1>6, <1>7, StepForms

-------------------------------------------------------------------------------
(* What a pane is owed.                                                       *)

\* A search keeps having something to say until its last word, Done, is heard.
LEMMA OwedUntilDone ==
    ASSUME TypeOK, LaunchInv, ChannelInv, NEW s \in Side, Running(s), DrainEvent,
           ~Running(s)'
    PROVE  Head(events).kind = "Done"
  <1>1. UNCHANGED <<rx, owner, walker>>
    BY DEF DrainEvent, searchVars, threadVars
  <1>2. rx # 0 /\ walker[rx].pc = "off" /\ events' = <<>>
    BY <1>1 DEF Running
  <1>3. events # <<>> /\ Head(events) = events[Len(events)]
    BY <1>2, DrainTail DEF DrainEvent
  <1> QED BY <1>2, <1>3 DEF ChannelInv

\* A thread's step leaves a running search running: it ends only when told to
\* stop, which no current search is, or with Done.
LEMMA MoveKeepsRunning ==
    ASSUME TypeOK, LaunchInv, NEW g \in Gen, Move(g), NEW s \in Side, Running(s)
    PROVE  Running(s)'
  <1>1. UNCHANGED <<rx, owner, stop>>
    BY DEF Move, ThreadStep, searchVars
  <1>2. rx # 0 /\ owner = s /\ (walker[rx].pc # "off" \/ events # <<>>)
    BY DEF Running
  <1>3. events \in Seq(Event)
    BY DEF TypeOK
  <1>4. events' # <<>> \/ events = <<>>
    BY <1>3 DEF Move, Sent
  <1>5. CASE events = <<>> /\ walker'[rx].pc = "off"
    <2>1. rx = g
      BY <1>2, <1>5 DEF Move, TypeOK
    <2>2. events' = Append(events, [gen |-> g, kind |-> "Done"])
      BY <1>5, <2>1 DEF Move, LaunchInv, Sent
    <2> QED BY <1>1, <1>2, <1>3, <2>2 DEF Running
  <1> QED BY <1>1, <1>2, <1>4, <1>5 DEF Running

LEMMA StepSpins ==
    TypeOK /\ LaunchInv /\ ChannelInv /\ SpinsForAReason /\ [Next]_vars => SpinsForAReason'
  <1> SUFFICES ASSUME TypeOK, LaunchInv, ChannelInv, SpinsForAReason, [Next]_vars,
                      NEW s \in Side, Spinning(s)', s \notin dropped'
               PROVE  Owed(s)'
    BY DEF SpinsForAReason
  <1> USE DEF InFind, Spinning
  <1>1. ASSUME NEW q \in Query, Asking(q) PROVE Owed(s)'
    <2>1. UNCHANGED <<focus, rx, owner, walker, events>>
      BY <1>1 DEF Asking, searchVars, threadVars
    <2>2. CASE s = focus
      BY <1>1, <2>1, <2>2, AskingForm DEF Owed
    <2>3. CASE s # focus
      <3>1. Spinning(s) /\ s \notin dropped
        BY <1>1, <2>3, AskingForm
      <3>2. CASE PendingFor(s)
        BY <1>1, <2>3, <3>2, AskingForm DEF Owed
      <3>3. CASE Running(s)
        BY <2>1, <3>3 DEF Owed, Running
      <3> QED BY <3>1, <3>2, <3>3 DEF SpinsForAReason, Owed
    <2> QED BY <2>2, <2>3
  <1>2. CASE Aside
    BY <1>2 DEF Aside, searchVars, threadVars, historyVars, SpinsForAReason, Owed,
                PendingFor, Running
  <1>3. CASE KeyJump
    <2>1. s # focus /\ search'[s] = search[s]
      BY <1>3, JumpForm DEF TypeOK
    <2>2. Owed(s)
      BY <1>3, <2>1, JumpForm DEF SpinsForAReason
    <2> QED BY <1>3, <2>2, JumpForm DEF Owed, PendingFor, Running
  <1>4. CASE KeyCancel
    <2>1. s # CancelTarget /\ search'[s] = search[s]
      BY <1>4, CancelForm DEF TypeOK
    <2>2. s \notin dropped /\ ~PendingFor(s)
      BY <1>4, <2>1, CancelForm
    <2>3. owner = s
      BY <2>1, <2>2 DEF SpinsForAReason, Owed, Running
    <2> QED BY <1>4, <2>1, <2>3, CancelForm, FindAssumption
  <1>5. CASE DrainEvent
    <2>1. UNCHANGED <<pending, dropped>>
      BY <1>5 DEF DrainEvent, historyVars
    <2>2. Spinning(s)
      <3>1. CASE owner = s /\ InFind(s)
        BY <1>5, <3>1, DrainForm, AppliedFacts, FindAssumption
      <3>2. CASE ~(owner = s /\ InFind(s))
        BY <1>5, <3>2, DrainForm, FindAssumption
      <3> QED BY <3>1, <3>2
    <2>3. CASE PendingFor(s)
      BY <2>1, <2>3 DEF Owed, PendingFor
    <2>4. CASE Running(s) /\ ~Running(s)'
      <3>1. Head(events).kind = "Done"
        BY <1>5, <2>4, OwedUntilDone
      <3>2. owner = s /\ owner # None
        BY <2>4, FindAssumption DEF Running
      <3>3. ~search'[s].searching
        BY <1>5, <2>2, <3>1, <3>2, DrainForm, AppliedFacts
      <3> QED BY <3>3
    <2> QED BY <2>1, <2>2, <2>3, <2>4 DEF SpinsForAReason, Owed
  <1>6. CASE Launch
    <2> USE LaunchForm, <1>6
    <2>1. CASE s = pending.side
      <3>1. walker'[rx'] = [Idle EXCEPT !.pc = "want"] /\ rx' # 0
        <4>1. walker'[gen + 1] = [Idle EXCEPT !.pc = "want"]
          BY DEF TypeOK
        <4>2. gen + 1 # 0
          BY DEF TypeOK
        <4> QED BY <4>1, <4>2
      <3>2. walker'[rx'].pc = "want"
        BY <3>1 DEF Idle
      <3> QED BY <2>1, <3>1, <3>2 DEF Owed, Running
    <2>2. CASE s # pending.side
      <3>1. s \notin Displaced(pending.side)
        BY DEF TypeOK, Displaced, PaneSearch
      <3>2. Spinning(s) /\ s \notin dropped /\ owner # s
        BY <2>2, <3>1 DEF Displaced
      <3> QED BY <2>2, <3>2 DEF SpinsForAReason, Owed, PendingFor, Running
    <2> QED BY <2>1, <2>2
  <1>7. ASSUME NEW g \in Gen, Move(g) PROVE Owed(s)'
    <2>1. UNCHANGED <<search, pending, dropped>>
      BY <1>7 DEF Move, ThreadStep, screenVars, historyVars
    <2>2. Owed(s)
      BY <2>1 DEF SpinsForAReason
    <2>3. Running(s) => Running(s)'
      BY <1>7, MoveKeepsRunning
    <2> QED BY <2>1, <2>2, <2>3 DEF Owed, PendingFor
  <1> QED BY <1>1, <1>2, <1>3, <1>4, <1>5, <1>6, <1>7, StepForms

-------------------------------------------------------------------------------
(* What a pane settles on.                                                    *)

\* Nothing of a launched search's answer changes while its pane, its query,
\* the channel's owner and the launches stay, and it runs on or was heard.
LEMMA AnswerKept ==
    ASSUME TypeOK, LaunchInv, NEW s \in Side, InFind(s),
           IF owner = s THEN OwnerAnswers(s) ELSE OtherAnswers(s),
           UNCHANGED <<rx, owner, asked>>, query'[s] \in {query[s], Empty},
           search'[s].gen = search[s].gen, Running(s) => Running(s)'
    PROVE  (IF owner = s THEN OwnerAnswers(s) ELSE OtherAnswers(s))'
  BY DEF OwnerAnswers, OtherAnswers

\* One pane of AnswerInv.
AnswerOK(s) ==
    /\ PendingFor(s) => query[s] \in {pending.query, Empty}
    /\ ~PendingFor(s) /\ s \notin dropped \cup displaced =>
         IF owner = s THEN OwnerAnswers(s) ELSE OtherAnswers(s)

LEMMA StepAnswers ==
    TypeOK /\ LaunchInv /\ ChannelInv /\ RowsInv /\ AnswerInv /\ [Next]_vars => AnswerInv'
  <1> SUFFICES ASSUME TypeOK, LaunchInv, ChannelInv, RowsInv, AnswerInv, [Next]_vars,
                      NEW s \in Side, InFind(s)'
               PROVE  AnswerOK(s)'
    BY DEF AnswerInv, AnswerOK
  <1>0. InFind(s) => AnswerOK(s)
    BY DEF AnswerInv, AnswerOK
  <1> USE DEF InFind, AnswerOK
  <1>1. ASSUME NEW q \in Query, Asking(q) PROVE AnswerOK(s)'
    <2>1. UNCHANGED <<focus, gen, rx, owner, asked, walker, events>>
      BY <1>1 DEF Asking, searchVars, threadVars
    <2>2. CASE s = focus
      BY <1>1, <2>1, <2>2, AskingForm DEF PendingFor
    <2>3. CASE s # focus
      <3>1. query'[s] = query[s] /\ search'[s] = search[s] /\ AnswerOK(s)
        BY <1>0, <1>1, <2>3, AskingForm
      <3>2. PendingFor(s)' => PendingFor(s) /\ pending' = pending
        BY <1>1, <2>1, <2>3, AskingForm DEF PendingFor, Asking, SearchRequest,
           AskFind, AskFilter, AskNothing
      <3>3. ~PendingFor(s)' /\ s \notin dropped' \cup displaced'
              => ~PendingFor(s) /\ s \notin dropped \cup displaced
        BY <1>1, <2>3, AskingForm
      <3>4. Running(s) => Running(s)'
        BY <2>1 DEF Running
      <3> QED BY <2>1, <3>1, <3>2, <3>3, <3>4, AnswerKept
    <2> QED BY <2>2, <2>3
  <1>2. CASE Aside
    <2>1. InFind(s) /\ query'[s] \in {query[s], Empty}
          /\ UNCHANGED <<search, pending, rx, owner, asked, events, walker, dropped, displaced>>
      BY <1>2 DEF Aside, searchVars, threadVars, historyVars
    <2>2. (PendingFor(s)' <=> PendingFor(s)) /\ (Running(s)' <=> Running(s))
      BY <2>1 DEF PendingFor, Running
    <2> QED BY <1>0, <2>1, <2>2, AnswerKept
  <1>3. CASE KeyJump
    <2>1. s # focus /\ search'[s] = search[s] /\ query'[s] = query[s]
      BY <1>3, JumpForm DEF TypeOK
    <2>2. UNCHANGED <<pending, rx, owner, asked>>
          /\ (s \in dropped' <=> s \in dropped) /\ (s \in displaced' <=> s \in displaced)
      BY <1>3, <2>1, JumpForm
    <2>3. (PendingFor(s)' <=> PendingFor(s)) /\ (Running(s)' <=> Running(s))
      BY <1>3, JumpForm DEF PendingFor, Running
    <2> QED BY <1>0, <2>1, <2>2, <2>3, AnswerKept
  <1>4. CASE KeyCancel
    <2>1. s # CancelTarget /\ search'[s] = search[s] /\ query'[s] = query[s]
      BY <1>4, CancelForm DEF TypeOK
    <2>2. owner # s /\ owner' # s /\ ~PendingFor(s)' /\ UNCHANGED asked
      BY <1>4, <2>1, CancelForm, FindAssumption DEF PendingFor
    <2>3. s \notin dropped' \cup displaced'
            => ~PendingFor(s) /\ s \notin dropped \cup displaced
      BY <1>4, <2>1, CancelForm
    <2> QED BY <1>0, <2>1, <2>2, <2>3 DEF OtherAnswers
  <1>5. CASE DrainEvent
    <2>1. UNCHANGED <<query, pending, gen, rx, owner, asked, walker, dropped, displaced>>
      BY <1>5 DEF DrainEvent, searchVars, threadVars, historyVars
    <2>2. InFind(s)
      BY <1>5, DrainForm, FindAssumption
    <2>3. PendingFor(s)' <=> PendingFor(s)
      BY <2>1 DEF PendingFor
    <2>4. CASE owner = s
      <3>1. search'[s].gen = gen
        BY <1>5, <2>2, <2>4, DrainForm, AppliedFacts, FindAssumption
      <3>2. rx = gen
        BY <2>4, FindAssumption DEF LaunchInv
      <3> QED BY <1>0, <2>1, <2>2, <2>3, <2>4, <3>1, <3>2 DEF OwnerAnswers
    <2>5. CASE owner # s
      <3>1. search'[s] = search[s] /\ (Running(s) => Running(s)')
        BY <1>5, <2>5, DrainForm DEF Running
      <3> QED BY <1>0, <2>1, <2>2, <2>3, <2>5, <3>1, AnswerKept
    <2> QED BY <2>4, <2>5
  <1>6. CASE Launch
    <2> USE LaunchForm, <1>6
    <2>1. InFind(s) /\ search[s] \in PaneSearch
      BY DEF TypeOK, Displaced
    <2>2. ~PendingFor(s)'
      BY DEF PendingFor
    <2>3. CASE s = pending.side
      <3>1. query'[s] \in {asked'[rx'].query, Empty}
        BY <1>0, <2>1, <2>3, FindAssumption DEF TypeOK, PendingFor
      <3>2. walker'[rx'] = [Idle EXCEPT !.pc = "want"] /\ rx' # 0
        <4>1. walker'[gen + 1] = [Idle EXCEPT !.pc = "want"]
          BY DEF TypeOK
        <4>2. gen + 1 # 0
          BY DEF TypeOK
        <4> QED BY <4>1, <4>2
      <3>3. walker'[rx'].pc = "want"
        BY <3>2 DEF Idle
      <3> QED BY <2>2, <2>3, <3>1, <3>2, <3>3 DEF OwnerAnswers, Running
    <2>4. CASE s # pending.side
      <3>1. search'[s].gen = search[s].gen
        BY <2>1, SpinnerOnly
      <3>2. search[s].gen \in Gen \cup {0} /\ search[s].gen <= gen
        BY <2>1 DEF PaneSearch, RowsInv, RowsOK
      <3>3. search[s].gen # 0 => asked'[search[s].gen] = asked[search[s].gen]
        <4>1. search[s].gen # gen + 1
          BY <3>2 DEF TypeOK, Gen
        <4> QED BY <3>2, <4>1 DEF TypeOK
      <3>4. ~PendingFor(s) /\ dropped' = dropped /\ query' = query /\ owner' # s
        BY <2>4 DEF PendingFor
      <3>5. SUFFICES ASSUME s \notin dropped \cup displaced' PROVE OtherAnswers(s)'
        BY <2>2, <3>4
      <3>6. IF owner = s THEN OwnerAnswers(s) ELSE OtherAnswers(s)
        BY <1>0, <2>1, <3>4, <3>5
      <3>7. CASE owner = s
        <4>1. s \in Displaced(pending.side) /\ ~Running(s)
          BY <2>1, <2>4, <3>5, <3>7 DEF Displaced
        <4>2. search[s].gen = rx /\ query[s] \in {asked[rx].query, Empty}
          BY <3>6, <3>7, <4>1 DEF OwnerAnswers
        <4>3. rx \in Gen /\ rx # 0 /\ rx <= gen /\ asked[rx].side = s
          BY <3>7, FindAssumption DEF LaunchInv, TypeOK, Gen
        <4> QED BY <3>1, <3>3, <3>4, <4>2, <4>3 DEF OtherAnswers
      <3>8. CASE owner # s
        BY <3>1, <3>3, <3>4, <3>6, <3>8 DEF OtherAnswers
      <3> QED BY <3>7, <3>8
    <2> QED BY <2>3, <2>4
  <1>7. ASSUME NEW g \in Gen, Move(g) PROVE AnswerOK(s)'
    <2>1. UNCHANGED <<query, search, pending, rx, owner, asked, dropped, displaced>>
      BY <1>7 DEF Move, ThreadStep, screenVars, searchVars, historyVars
    <2>2. (PendingFor(s)' <=> PendingFor(s)) /\ (Running(s) => Running(s)')
      BY <1>7, <2>1, MoveKeepsRunning DEF PendingFor
    <2> QED BY <1>0, <2>1, <2>2, AnswerKept
  <1> QED BY <1>1, <1>2, <1>3, <1>4, <1>5, <1>6, <1>7, StepForms

-------------------------------------------------------------------------------
(* The theorems.                                                              *)

FindInv == TypeOK /\ IInv

LEMMA InitInv == Init => FindInv
  <1> SUFFICES ASSUME Init PROVE FindInv
    OBVIOUS
  <1>1. TypeOK /\ LaunchInv
    BY InitTyped
  <1>2. ChannelInv /\ \A s \in Side : ~InFind(s)
    BY DEF Init, ChannelInv, InFind
  <1> QED BY <1>1, <1>2 DEF FindInv, IInv, RowsInv, SpinsForAReason, Spinning, AnswerInv

LEMMA StepInv == FindInv /\ [Next]_vars => FindInv'
  BY StepTyped, StepLaunches, StepChannel, StepRows, StepSpins, StepAnswers
     DEF FindInv, IInv

LEMMA InvHolds == Spec => []FindInv
  BY InitInv, StepInv, PTL DEF Spec

\* Every value keeps its kind, and no thread descends below what its search
\* asked for (walk_levels).
THEOREM FindTyped == Spec => []TypeOK
  <1>1. FindInv => TypeOK
    BY DEF FindInv
  <1> QED BY <1>1, InvHolds, PTL

\* All running search threads but one have been told to stop: a launch sets
\* the flag of the search it displaces (run_loop.rs, step 2 (b)).
THEOREM FindOneSearchRuns == Spec => []OneSearchRuns
  <1>1. FindInv => OneSearchRuns
    BY DEF FindInv, IInv, LaunchInv, OneSearchRuns
  <1> QED BY <1>1, InvHolds, PTL

\* Stale events of a superseded search neither mix with newer results nor
\* reach the other pane (apply_search_event).
THEOREM FindResultsOfOneSearch == Spec => []ResultsOfOneSearch
  <1>1. FindInv => ResultsOfOneSearch
    BY DEF FindInv, IInv, RowsInv, RowsOK, ResultsOfOneSearch
  <1> QED BY <1>1, InvHolds, PTL

\* A pane spins only while an answer is owed to it, or its request was given
\* up before it was launched (begin_search, cancel_search).
THEOREM FindSpinsForAReason == Spec => []SpinsForAReason
  <1>1. FindInv => SpinsForAReason
    BY DEF FindInv, IInv
  <1> QED BY <1>1, InvHolds, PTL

\* What a pane in find mode settles on was searched for it and answers the
\* query it shows, unless a failed listing cleared that query (revert_switch).
THEOREM FindSettledAnswersQuery == Spec => []SettledAnswersQuery
  <1>1. ASSUME FindInv, NEW s \in Side, InFind(s), ~Owed(s), s \notin dropped \cup displaced
        PROVE  /\ search[s].gen # 0
               /\ asked[search[s].gen].side = s
               /\ query[s] \in {asked[search[s].gen].query, Empty}
    <2>1. IF owner = s THEN OwnerAnswers(s) ELSE OtherAnswers(s)
      BY <1>1 DEF FindInv, IInv, AnswerInv, Owed
    <2>2. CASE owner = s
      <3>1. search[s].gen = rx /\ query[s] \in {asked[rx].query, Empty}
        BY <1>1, <2>1, <2>2 DEF OwnerAnswers, Owed
      <3>2. rx # 0 /\ asked[rx].side = s
        BY <1>1, <2>2, FindAssumption DEF FindInv, IInv, LaunchInv
      <3> QED BY <3>1, <3>2
    <2>3. CASE owner # s
      BY <2>1, <2>3 DEF OtherAnswers
    <2> QED BY <2>2, <2>3
  <1>2. FindInv => SettledAnswersQuery
    BY <1>1 DEF SettledAnswersQuery
  <1> QED BY <1>2, InvHolds, PTL
===============================================================================
