------------------------------- MODULE TopView --------------------------------
(***************************************************************************)
(* A response that lists a table of TopTable while workers update it.      *)
(* json_top_entries copies the rows in use, field by field and without a   *)
(* lock, and sorts the copy by hits; json_upstreams writes the rows as     *)
(* they come.                                                              *)
(***************************************************************************)
EXTENDS TopTable, SequencesExt

CONSTANTS
    MaxViews,        \* bound on the responses
    MaxViewCalls     \* bound on calls and deaths in a behaviour with one

ASSUME ViewAssumption == MaxViews \in Nat /\ MaxViewCalls \in Nat

VARIABLES
    vpc, vi,         \* the walk: where it is, its row
    view,            \* what was copied
    views,
    floor,           \* the table when the walk began, as long as it matters
    overlapped       \* an insertion has overlapped the walk, or came after it

viewVars == <<vpc, vi, view, views, floor, overlapped>>

None == [r \in Rows |-> ZeroRow]

HitsOf(entry) == entry.count["hits"]

ViewInit ==
    /\ Init
    /\ vpc = "idle" /\ vi = 0 /\ view = <<>>
    /\ views = 0 /\ floor = None /\ overlapped = FALSE

ViewGoto(from, to) == vpc = from /\ vpc' = to

-----------------------------------------------------------------------------
StartView ==
    /\ views < MaxViews /\ calls + crashes <= MaxViewCalls
    /\ ViewGoto("idle", "test")
    /\ vi' = 0 /\ view' = <<>>
    /\ views' = views + 1
    /\ overlapped' = \E w \in Workers : Inserting(w)
    /\ floor' = IF overlapped' THEN None ELSE rows

Unused(r) == Hits(r) = 0

SkipRow ==
    /\ vpc = "test" /\ vi < Capacity /\ Unused(vi)
    /\ vi' = vi + 1
    /\ UNCHANGED <<vpc, view, views, floor, overlapped>>

FindRow ==
    /\ vi < Capacity /\ ~Unused(vi)
    /\ ViewGoto("test", "name")
    /\ UNCHANGED <<vi, view, views, floor, overlapped>>

(* The counters are copied one after the other, the hits first; the others *)
(* only grow from step to step and are copied in one.                      *)
CopyName ==
    /\ ViewGoto("name", "hits")
    /\ view' = Append(view, [name |-> rows[vi].name, count |-> ZeroRow.count])
    /\ UNCHANGED <<vi, views, floor, overlapped>>

CopyHits ==
    /\ ViewGoto("hits", "rest")
    /\ view' = [view EXCEPT ![Len(view)].count["hits"] = Hits(vi)]
    /\ UNCHANGED <<vi, views, floor, overlapped>>

CopyRest ==
    /\ ViewGoto("rest", "test")
    /\ view' = [view EXCEPT ![Len(view)].count =
                    [rows[vi].count EXCEPT !["hits"] = HitsOf(Last(view))]]
    /\ vi' = vi + 1
    /\ UNCHANGED <<views, floor, overlapped>>

-----------------------------------------------------------------------------
(* Mutation: the busiest rows go to the end.                               *)
Insert_Up(v, entry) ==
    InsertAt(v, 1 + Max({0} \cup {j \in DOMAIN v : HitsOf(v[j]) <= HitsOf(entry)}), entry)

(* An entry moves forward past those with fewer hits.                      *)
Insert(v, entry) ==
    InsertAt(v, 1 + Max({0} \cup {j \in DOMAIN v : HitsOf(v[j]) >= HitsOf(entry)}), entry)

SortTop(v) == FoldLeft(Insert, <<>>, v)

EndView ==
    /\ vi = Capacity
    /\ ViewGoto("test", "written")
    /\ view' = IF kind = "top" THEN SortTop(view) ELSE view
    /\ UNCHANGED <<vi, views, floor, overlapped>>

(* The request ends and its pool is freed.                                 *)
FreeView ==
    /\ ViewGoto("written", "idle")
    /\ vi' = 0 /\ view' = <<>> /\ floor' = None /\ overlapped' = FALSE
    /\ UNCHANGED views

View ==
    /\ StartView \/ SkipRow \/ FindRow \/ CopyName \/ CopyHits \/ CopyRest
       \/ EndView \/ FreeView
    /\ UNCHANGED vars

Table ==
    /\ Next /\ (views = 0 \/ calls' + crashes' <= MaxViewCalls)
    /\ IF vpc # "idle" /\ (\E w \in Workers : Inserting(w)')
         THEN overlapped' = TRUE /\ floor' = None
         ELSE UNCHANGED <<overlapped, floor>>
    /\ UNCHANGED <<vpc, vi, view, views>>

ViewNext == Table \/ View

ViewSpec ==
    /\ ViewInit /\ [][ViewNext]_<<vars, viewVars>>
    /\ \A w \in Workers : WF_vars(Update(w))

-----------------------------------------------------------------------------
(* Between two counts of each counter, with the same name.                 *)
Shows(entry, r) ==
    /\ entry.name = floor[r].name
    /\ \A c \in Counters : /\ floor[r].count[c] <= entry.count[c]
                             /\ entry.count[c] <= rows[r].count[c]

(* A list of top entries is ranked by hits, however the rows change while  *)
(* they are copied.  As long as no insertion overlaps the walk, a finished *)
(* list shows each row that was in use when it began exactly once, with    *)
(* counters no older than that.                                            *)
ViewHonest ==
    vpc = "written" =>
        /\ kind = "top" =>
               \A m, n \in DOMAIN view : m < n => HitsOf(view[m]) >= HitsOf(view[n])
        /\ ~overlapped =>
               LET before == {r \in Rows : floor[r].count["hits"] > 0}
               IN  /\ Len(view) <= Cardinality({r \in Rows : ~Unused(r)})
                   /\ \E at \in [before -> DOMAIN view] :
                         \A r, s \in before : /\ Shows(view[at[r]], r)
                                              /\ at[r] = at[s] => r = s
=============================================================================
