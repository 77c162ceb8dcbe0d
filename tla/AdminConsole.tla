---------------------------- MODULE AdminConsole ----------------------------
(***************************************************************************)
(* The admin page: runAction and refreshAll of App, and a list panel       *)
(* (filter, pages, selection, details and, in the configurator,            *)
(* regenerate).  React runs the effects of a change before the next event, *)
(* so an action here is a handler with the effects it causes: a changed    *)
(* dependency cancels the request of the effect and sends a new one.       *)
(* Answers come in any order and a request may fail.                       *)
(***************************************************************************)
EXTENDS Integers, Sequences, SequencesExt

CONSTANTS
  Acts,      \* actions of the operator that may be under way at once
  Pages,     \* bound: pages of a list
  Lists,     \* the lists of item ids a page may hold, non-empty
  NoItem,    \* no selection
  NoRequest, \* nothing in flight
  MaxMoves   \* bound: moves of the operator

ASSUME ConsoleAssumption ==
  Pages \in Nat \ {0} /\ MaxMoves \in Nat /\ \A list \in Lists : 1 \in DOMAIN list

VARIABLES
  panel,      \* the state hooks of the list panel
  ask,        \* the list request that is not cancelled
  read,       \* the details request that is not cancelled
  late,       \* cancelled requests, whose answers still come
  regenerate, \* the item a regenerate is under way for
  act,        \* actions and refreshes: [stage, from]
  app,        \* hooks of App: error, isLoading, the version of view
  written,    \* the server: writes so far
  done,       \* history: the last write whose action was reported as done
  overlapped, \* history: two refreshes were in flight together
  moves       \* moves so far

consoleVars ==
  <<panel, ask, read, late, regenerate, act, app, written, done, overlapped, moves>>

Items == UNION {Range(list) : list \in Lists}
Versions == 0 .. MaxMoves
ListKeys == [page : 1 .. Pages, filter : BOOLEAN, refreshed : Versions, reloaded : Versions]
Asks == [kind : {"list"}, key : ListKeys, from : Versions]
Reads == [kind : {"details"}, id : Items, from : Versions]

(* The two markers are no item and no request, of any version.             *)
ASSUME MarkersAssumption ==
  /\ NoItem \notin Items
  /\ NoRequest \notin
       [kind : {"list"}, from : Nat,
        key : [page : 1 .. Pages, filter : BOOLEAN, refreshed : Nat, reloaded : Nat]]
  /\ NoRequest \notin [kind : {"details"}, id : Items, from : Nat]

ConsoleTypeOK ==
  /\ panel.page \in 1 .. Pages /\ panel.pages \in 0 .. Pages /\ panel.filter \in BOOLEAN
  /\ panel.items \in Lists \cup {<<>>}
  /\ panel.selected \in Items \cup {NoItem} /\ panel.details \in Items \cup {NoItem}
  /\ ask \in Asks \cup {NoRequest} /\ read \in Reads \cup {NoRequest}
  /\ late \subseteq Asks \cup Reads
  /\ regenerate \in Items \cup {NoItem}
  /\ act \in [Acts -> [stage : {"idle", "sent", "written", "refreshing"}, from : Versions]]
  /\ app \in [error : BOOLEAN, isLoading : BOOLEAN, view : Versions]
  /\ written \in Versions /\ done \in 0 .. written
  /\ overlapped \in BOOLEAN /\ moves \in Versions

FirstKey == [page |-> 1, filter |-> FALSE, refreshed |-> 0, reloaded |-> 0]

ConsoleInit ==
  /\ panel = [page |-> 1, pages |-> 0, filter |-> FALSE, refreshed |-> 0, reloaded |-> 0,
              items |-> <<>>, listError |-> FALSE, shown |-> FirstKey, listFrom |-> 0,
              selected |-> NoItem, details |-> NoItem, detailsFrom |-> 0,
              detailsLoading |-> FALSE, detailsError |-> FALSE]
  /\ ask = [kind |-> "list", key |-> FirstKey, from |-> 0]
  /\ read = NoRequest /\ late = {} /\ regenerate = NoItem
  /\ act = [a \in Acts |-> [stage |-> "idle", from |-> 0]]
  /\ app = [error |-> FALSE, isLoading |-> FALSE, view |-> 0]
  /\ written = 0 /\ done = 0 /\ overlapped = FALSE /\ moves = 0

Move == moves < MaxMoves /\ moves' = moves + 1
-----------------------------------------------------------------------------
(* Faulty variants of definitions below, for mutation of the runs.         *)
NeverCancelled(r) == FALSE
-----------------------------------------------------------------------------
(* currentPage: never beyond the pages of the last answer.                 *)
CurrentPage(q) ==
  LET totalPages == IF q.pages = 0 THEN 1 ELSE q.pages
  IN  IF q.page > totalPages THEN totalPages ELSE q.page

(* The dependencies of the two loading effects.                            *)
ListKey(q) == [page |-> CurrentPage(q), filter |-> q.filter,
               refreshed |-> q.refreshed, reloaded |-> q.reloaded]
DetailsKey(q) == <<q.selected, q.refreshed, q.reloaded>>

(* The selection follows the list: nothing of an empty list, else an item  *)
(* that is still in it, else its first.                                    *)
Selection(q) ==
  IF q.items = <<>>
  THEN [q EXCEPT !.selected = NoItem, !.details = NoItem, !.detailsError = FALSE]
  ELSE IF q.selected \in Range(q.items) THEN q
  ELSE [q EXCEPT !.selected = q.items[1]]

(* The loading effects after a handler left the hooks at q, the requests   *)
(* at a and r and the cancelled ones at l.                                 *)
Effects(q, a, r, l) ==
  LET asks == ListKey(q) # ListKey(panel)
      changes == DetailsKey(q) # DetailsKey(panel)
      reads == changes /\ q.selected # NoItem
  IN  /\ panel' = [q EXCEPT !.listError = q.listError /\ ~asks,
                            !.detailsLoading = q.detailsLoading \/ reads,
                            !.detailsError = q.detailsError /\ ~reads]
      /\ ask' = IF asks THEN [kind |-> "list", key |-> ListKey(q), from |-> written] ELSE a
      /\ read' = IF reads THEN [kind |-> "details", id |-> q.selected, from |-> written]
                 ELSE IF changes THEN NoRequest ELSE r
      /\ late' = (l \cup (IF asks THEN {a} ELSE {}) \cup (IF changes THEN {r} ELSE {}))
                 \ {NoRequest}

(* The flag each effect sets when it is cleaned up.                        *)
Cancelled(r) == r \in late

Landed(r, request) == IF request = r THEN NoRequest ELSE request
-----------------------------------------------------------------------------
(* The operator filters, turns a page or selects a row.  A changed filter  *)
(* sets the page back to the first.                                        *)
SetFilter ==
  /\ Move
  /\ Effects([panel EXCEPT !.filter = ~panel.filter, !.page = 1], ask, read, late)
  /\ UNCHANGED <<regenerate, act, app, written, done, overlapped>>

SetPage ==
  /\ Move
  /\ \E page \in {CurrentPage(panel) - 1, CurrentPage(panel) + 1} \cap 1 .. panel.pages :
       Effects([panel EXCEPT !.page = page], ask, read, late)
  /\ UNCHANGED <<regenerate, act, app, written, done, overlapped>>

Select ==
  /\ Move
  /\ \E id \in Range(panel.items) \ {panel.selected} :
       Effects(Selection([panel EXCEPT !.selected = id]), ask, read, late)
  /\ UNCHANGED <<regenerate, act, app, written, done, overlapped>>

(* A list answer: refused or lost, beyond the last page, or a page.        *)
ListAnswer(r) ==
  /\ r \in Asks
  /\ LET pageOf == r.key.page
     IN  IF Cancelled(r) THEN Effects(panel, ask, read, late \ {r})
         ELSE \/ Effects(Selection([panel EXCEPT !.items = <<>>, !.pages = 0, !.listError = TRUE]),
                         Landed(r, ask), read, late \ {r})
              \/ \E pages \in 1 .. pageOf - 1 :
                   Effects([panel EXCEPT !.page = pages], Landed(r, ask), read, late \ {r})
              \/ \E items \in Lists \cup {<<>>}, pages \in 0 .. Pages, version \in r.from .. written :
                   /\ IF items = <<>> THEN pages = 0 ELSE pages >= pageOf
                   /\ Effects(Selection([panel EXCEPT !.items = items, !.pages = pages,
                                                      !.shown = r.key, !.listFrom = version]),
                              Landed(r, ask), read, late \ {r})
  /\ UNCHANGED <<regenerate, act, app, written, done, overlapped, moves>>

(* A details answer.                                                       *)
DetailsAnswer(r) ==
  /\ r \in Reads
  /\ IF Cancelled(r) THEN Effects(panel, ask, read, late \ {r})
     ELSE \/ Effects([panel EXCEPT !.details = NoItem, !.detailsError = TRUE,
                                   !.detailsLoading = FALSE],
                     ask, Landed(r, read), late \ {r})
          \/ \E version \in r.from .. written :
               Effects([panel EXCEPT !.details = r.id, !.detailsFrom = version,
                                     !.detailsLoading = FALSE],
                       ask, Landed(r, read), late \ {r})
  /\ UNCHANGED <<regenerate, act, app, written, done, overlapped, moves>>

(* handleRegenerateConfig: its answer is never cancelled; it shows the     *)
(* item it was asked for and makes the panel load again.                   *)
Regenerate ==
  /\ Move
  /\ panel.selected # NoItem /\ ~panel.detailsLoading /\ regenerate = NoItem
  /\ regenerate' = panel.selected
  /\ UNCHANGED <<panel, ask, read, late, act, app, written, done, overlapped>>

RegenerateAnswer ==
  /\ regenerate # NoItem /\ regenerate' = NoItem
  /\ \/ Effects(panel, ask, read, late) /\ UNCHANGED <<written, done>>
     \/ /\ written' = written + 1 /\ done' = written'
        /\ LET q == [panel EXCEPT !.details = regenerate, !.detailsFrom = written',
                                  !.reloaded = panel.reloaded + 1]
               key == ListKey(q)
           IN  /\ panel' = [q EXCEPT !.listError = FALSE, !.detailsError =
                                        q.detailsError /\ q.selected = NoItem,
                                     !.detailsLoading = q.detailsLoading \/ q.selected # NoItem]
               /\ ask' = [kind |-> "list", key |-> key, from |-> written']
               /\ read' = IF q.selected = NoItem THEN NoRequest
                          ELSE [kind |-> "details", id |-> q.selected, from |-> written']
               /\ late' = (late \cup {ask, read}) \ {NoRequest}
  /\ UNCHANGED <<act, app, overlapped, moves>>
-----------------------------------------------------------------------------
Refreshing(a) ==
  /\ act' = [act EXCEPT ![a] = [stage |-> "refreshing", from |-> written]]
  /\ overlapped' = (overlapped \/ \E b \in Acts \ {a} : act[b].stage = "refreshing")

(* The Refresh button, disabled while something loads.                     *)
PressRefresh(a) ==
  /\ Move
  /\ act[a].stage = "idle" /\ ~app.isLoading
  /\ Refreshing(a)
  /\ app' = [app EXCEPT !.error = FALSE, !.isLoading = TRUE]
  /\ UNCHANGED <<panel, ask, read, late, regenerate, written, done>>

(* runAction sends a write; the server makes it; the answer comes, and     *)
(* with it refreshAll, or the action fails, its write made or not.         *)
RunAction(a) ==
  /\ Move
  /\ act[a].stage = "idle"
  /\ act' = [act EXCEPT ![a].stage = "sent"]
  /\ app' = [app EXCEPT !.error = FALSE, !.isLoading = TRUE]
  /\ UNCHANGED <<panel, ask, read, late, regenerate, written, done, overlapped>>

ServerWrites(a) ==
  /\ act[a].stage = "sent"
  /\ written' = written + 1
  /\ act' = [act EXCEPT ![a] = [stage |-> "written", from |-> written']]
  /\ UNCHANGED <<panel, ask, read, late, regenerate, app, done, overlapped, moves>>

ActionDone(a) ==
  /\ act[a].stage = "written"
  /\ done' = IF act[a].from > done THEN act[a].from ELSE done
  /\ Refreshing(a)
  /\ app' = [app EXCEPT !.error = FALSE, !.isLoading = TRUE]
  /\ UNCHANGED <<panel, ask, read, late, regenerate, written, moves>>

ActionFails(a) ==
  /\ act[a].stage \in {"sent", "written"}
  /\ act' = [act EXCEPT ![a] = [stage |-> "idle", from |-> 0]]
  /\ app' = [app EXCEPT !.error = TRUE, !.isLoading = FALSE]
  /\ UNCHANGED <<panel, ask, read, late, regenerate, written, done, overlapped, moves>>

(* refreshAll: every list of the page at once, or an error.                *)
RefreshAnswer(a) ==
  /\ act[a].stage = "refreshing"
  /\ act' = [act EXCEPT ![a] = [stage |-> "idle", from |-> 0]]
  /\ \/ /\ \E version \in act[a].from .. written :
             app' = [app EXCEPT !.view = version, !.isLoading = FALSE]
        /\ Effects([panel EXCEPT !.refreshed = panel.refreshed + 1], ask, read, late)
     \/ /\ app' = [app EXCEPT !.error = TRUE, !.isLoading = FALSE]
        /\ UNCHANGED <<panel, ask, read, late>>
  /\ UNCHANGED <<regenerate, written, done, overlapped, moves>>

ConsoleNext ==
  \/ SetFilter \/ SetPage \/ Select \/ Regenerate \/ RegenerateAnswer
  \/ \E r \in late \cup {ask, read} : ListAnswer(r) \/ DetailsAnswer(r)
  \/ \E a \in Acts : \/ PressRefresh(a) \/ RunAction(a) \/ ServerWrites(a)
                     \/ ActionDone(a) \/ ActionFails(a) \/ RefreshAnswer(a)

ConsoleSpec == ConsoleInit /\ [][ConsoleNext]_consoleVars
-----------------------------------------------------------------------------
Quiet == \A a \in Acts : act[a].stage = "idle"

(* However answers overtake each other, the panel settles on what the      *)
(* operator asked for: the list of the current page and filter and the     *)
(* details of the selected row; and once no action is under way and no     *)
(* error is shown, neither they nor, unless refreshes overlapped, the      *)
(* dashboard are older than the last action reported as done (the effects  *)
(* of ProvisionsPanel, EventsPanel and ConfiguratorPanel, runAction,       *)
(* refreshAll).                                                            *)
PanelSettles ==
  /\ ask = NoRequest /\ ~panel.listError =>
       /\ panel.shown = ListKey(panel)
       /\ Quiet /\ ~app.error => panel.listFrom >= done
  /\ read = NoRequest /\ panel.selected # NoItem /\ ~panel.detailsError =>
       /\ panel.details = panel.selected
       /\ Quiet /\ ~app.error => panel.detailsFrom >= done
  /\ Quiet /\ ~app.error /\ ~overlapped => app.view >= done \/ panel.reloaded > 0
=============================================================================
