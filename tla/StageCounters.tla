----------------------------- MODULE StageCounters -----------------------------
(***************************************************************************)
(* The counters of a board crawl (backend/board/board_content_workflow.py):*)
(* how many of its URLs were selected, saved and learned, and with which   *)
(* outcome.  Fetch workers, background repairs, learning tasks and the     *)
(* callbacks of embedding batches report the stages of a URL, each in one  *)
(* section under _stats_lock, in any order and more than once; ledgers of  *)
(* keys keep a URL from being counted twice.  The key is the URL or, once  *)
(* the row is known, the row.  The end of the run empties the ledgers,     *)
(* though callbacks may still come; the counters stay.                     *)
(***************************************************************************)
EXTENDS Integers, FiniteSets

CONSTANTS
  Urls,
  Keys,         \* counter keys that are reported: <<url, "url" or "row">>
  MaxClears,    \* bound: ends of a run
  None

Outcomes == {"success", "skipped", "failed"}

StageCountersAssumption ==
  /\ Keys \subseteq Urls \X {"url", "row"}
  /\ IsFiniteSet(Urls)
  /\ MaxClears \in Nat
  /\ None \notin Outcomes

VARIABLES
  seen,         \* _seen_filtered_detail
  selectedKeys, \* _counted_collection_keys
  selected,     \* collection_count
  savedKeys,    \* _counted_save_keys
  saved,        \* save_done_count; the counts of its results go with it
  studiedKeys,  \* _counted_study_keys
  outcome,      \* _counted_study_outcomes, which the end of a run keeps
  studied,      \* study_done_count and the counts of the outcomes
  clears,       \* ends of the run
  twice         \* history: a key was counted before and after the end of the run

selectVars == <<seen, selectedKeys, selected>>
saveVars == <<savedKeys, saved>>
studyVars == <<studiedKeys, outcome, studied, twice>>
vars == <<selectVars, saveVars, studyVars, clears>>

TypeOK ==
  /\ seen \subseteq Urls
  /\ {selectedKeys, savedKeys, studiedKeys} \subseteq SUBSET Keys
  /\ {selected, saved} \subseteq Nat
  /\ outcome \in [Keys -> Outcomes \cup {None}]
  /\ studied \in [{"done"} \cup Outcomes -> Nat]
  /\ clears \in 0..MaxClears
  /\ twice \in BOOLEAN

Init ==
  /\ seen = {} /\ selectedKeys = {} /\ selected = 0
  /\ savedKeys = {} /\ saved = 0
  /\ studiedKeys = {}
  /\ outcome = [k \in Keys |-> None]
  /\ studied = [c \in {"done"} \cup Outcomes |-> 0]
  /\ clears = 0
  /\ twice = FALSE

\* _mark_collection_selected: counted if neither the URL nor the key was.
MarkSelected(k) ==
  /\ seen' = seen \cup {k[1]}
  /\ selectedKeys' = selectedKeys \cup {k}
  /\ selected' = IF k \in selectedKeys \/ k[1] \in seen THEN selected ELSE selected + 1
  /\ UNCHANGED <<saveVars, studyVars, clears>>

\* _unmark_collection_selected: its callers name the URL, not the row.
UnmarkSelected(u) ==
  LET k == <<u, "url">> IN
  /\ seen' = seen \ {u}
  /\ selectedKeys' = selectedKeys \ {k}
  /\ selected' = IF k \in selectedKeys /\ selected > 0 THEN selected - 1 ELSE selected
  /\ UNCHANGED <<saveVars, studyVars, clears>>

\* _mark_save_done and _mark_save_skipped
MarkSave(k) ==
  /\ k \notin savedKeys
  /\ savedKeys' = savedKeys \cup {k}
  /\ saved' = saved + 1
  /\ UNCHANGED <<selectVars, studyVars, clears>>

\* Faulty variant: the outcome that is replaced stays counted.
UpgradeKeepsOld(k) ==
  studied' = [studied EXCEPT !["success"] = @ + 1]

\* _upgrade_study_outcome_counts
Upgrade(k) ==
  studied' = [studied EXCEPT ![outcome[k]] = IF @ > 0 THEN @ - 1 ELSE 0,
                             !["success"] = @ + 1]

\* _mark_study_done: a key is counted once; a success that comes after another
\* outcome takes its place.
MarkStudy(k, o) ==
  /\ IF k \notin studiedKeys
     THEN /\ studied' = [studied EXCEPT !["done"] = @ + 1, ![o] = @ + 1]
          /\ twice' = (twice \/ outcome[k] # None)
     ELSE /\ o = "success" /\ outcome[k] # "success"
          /\ Upgrade(k)
          /\ UNCHANGED twice
  /\ studiedKeys' = studiedKeys \cup {k}
  /\ outcome' = [outcome EXCEPT ![k] = o]
  /\ UNCHANGED <<selectVars, saveVars, clears>>

\* _clear_run_memory_ledgers at the end of the run, unless learning goes on detached.
ClearLedgers ==
  /\ clears < MaxClears
  /\ clears' = clears + 1
  /\ seen' = {} /\ selectedKeys' = {} /\ savedKeys' = {} /\ studiedKeys' = {}
  /\ UNCHANGED <<selected, saved, outcome, studied, twice>>

Next ==
  \/ \E k \in Keys :
       \/ MarkSelected(k) \/ MarkSave(k)
       \/ \E o \in Outcomes : MarkStudy(k, o)
  \/ \E u \in Urls : UnmarkSelected(u)
  \/ ClearLedgers

Spec == Init /\ [][Next]_vars

-----------------------------------------------------------------------------
(* Properties *)

\* Whatever the order and number of reports, upgrades of an outcome included, the
\* counters of the learning stage are what the outcomes of the keys add up to,
\* unless a key that was counted is reported again after the end of the run.
StudyExact ==
  ~twice =>
    /\ studied["done"] = Cardinality({k \in Keys : outcome[k] # None})
    /\ \A o \in Outcomes : studied[o] = Cardinality({k \in Keys : outcome[k] = o})

=============================================================================
