----------------------------- MODULE JobHistory -----------------------------
(***************************************************************************)
(* A client that reads its history page by page: list() of                 *)
(* crates/runtime/src/sqlite_jobs.rs behind the limit-plus-one cursor of   *)
(* list_jobs() in crates/server/src/routes.rs.  Between two pages anything *)
(* JobStore allows may happen to the rows.                                 *)
(***************************************************************************)
EXTENDS JobStore

CONSTANT PageSize   \* the limit of a history page

(* No job is numbered 0, which the model writes for "no cursor".             *)
ASSUME PageAssumption == PageSize \in Nat \ {0} /\ 0 \notin Ids

VARIABLE walk       \* the client

Views == {"active", "hidden", "all"}

(* after and at are the cursor (0 for none), repeated says a row came twice;  *)
(* due is history: the rows that matched when the walk began and have        *)
(* matched ever since.  A walk that is not under way has scope NoKey.        *)
NoWalk == [scope |-> NoKey, view |-> "all", after |-> 0, at |-> 0, seen |-> {},
           due |-> {}, done |-> FALSE, repeated |-> FALSE]

(* list() behind the cursor of list_jobs().                                  *)
Visible(table, scope, view) ==
  {id \in Ids : /\ table[id].status \notin Gone /\ table[id].scope = scope
                /\ view = "active" => ~table[id].hidden
                /\ view = "hidden" => table[id].hidden}

Past(id, w) ==
  \/ w.after = 0
  \/ jobs[id].created < w.at
  \/ jobs[id].created = w.at /\ id < w.after
Rest(w)  == {id \in Visible(jobs, w.scope, w.view) : Past(id, w)}
Page(w)  == {id \in Rest(w) : Cardinality(UpTo(id, Rest(w))) <= PageSize}
Last(S)  == CHOOSE id \in S : \A o \in S : o = id \/ Newer(o, id)

WalkBegin(scope, view) ==
  /\ walk.scope = NoKey
  /\ walk' = [NoWalk EXCEPT !.scope = scope, !.view = view,
                !.due = Visible(jobs, scope, view)]
  /\ UNCHANGED vars

(* Mutant: the cursor carries the creation time only.                        *)
NextByTime(w) ==
  LET page == Page(w) IN
    [w EXCEPT !.seen = @ \cup page, !.repeated = @ \/ page \cap w.seen # {},
              !.done = Rest(w) = page,
              !.after = IF page = {} THEN @ ELSE 1,
              !.at = IF page = {} THEN @ ELSE jobs[Last(page)].created]

NextPage(w) ==
  LET page == Page(w) IN
    [w EXCEPT !.seen = @ \cup page, !.repeated = @ \/ page \cap w.seen # {},
              !.done = Rest(w) = page,
              !.after = IF page = {} THEN @ ELSE Last(page),
              !.at = IF page = {} THEN @ ELSE jobs[Last(page)].created]

WalkPage ==
  /\ walk.scope # NoKey /\ ~walk.done
  /\ walk' = NextPage(walk)
  /\ UNCHANGED vars

WalkEnd ==
  /\ walk.done
  /\ walk' = NoWalk
  /\ UNCHANGED vars

(* History: a row that stops matching is no longer owed to the walk.         *)
Watch == walk' = [walk EXCEPT !.due = @ \cap Visible(jobs', walk.scope, walk.view)]

HistoryInit == Init /\ walk = NoWalk

HistoryNext ==
  \/ Next /\ Watch
  \/ \E scope \in Scopes, view \in Views : WalkBegin(scope, view)
  \/ WalkPage
  \/ WalkEnd

HistorySpec == HistoryInit /\ [][HistoryNext]_<<vars, walk>>

-----------------------------------------------------------------------------
(* list(): "a stable `(created,id)` cursor".  While jobs are created,        *)
(* settled, hidden and pruned between its pages, a walk through the history  *)
(* shows no job twice, and every job that matched all along.                 *)
WalkIsStable ==
  /\ ~walk.repeated
  /\ walk.done => walk.due \subseteq walk.seen

(* The history shows what it should: walks are stable, and only settled jobs *)
(* are ever hidden from them.                                                *)
History == HiddenOnlyTerminal /\ WalkIsStable
=============================================================================
