----------------------------- MODULE Discovery ------------------------------
(* The agent's main loop (async_main, iter_files, watch_path): which paths are *)
(* watched, while files come, go and are renamed under the patterns.           *)
EXTENDS FiniteSets

CONSTANTS Path,       \* resolved paths
          Scanned,    \* those that match a scan pattern ...
          Excluded    \* ... and an exclude pattern

ASSUME DiscoveryAssumption == Scanned \subseteq Path /\ Excluded \subseteq Path

VARIABLES
  present,   \* the paths that exist
  vetoed,    \* the paths with an exclude_if_file_present file beside them
  pass,      \* the local state of iter_files: at "sleep" (between two calls), "scan"
             \* or "look"; excluded_paths; listed, what glob has returned and is yet
             \* to be looked at; found, its paths
  task,      \* Path -> its task in watched_paths: "none", "new" (created, not yet
             \* begun), "running" or "done"
  lately     \* (history) of the paths since this pass began: before, those there when
             \* it did; free, those that at some moment were not vetoed

vars == <<present, vetoed, pass, task, lately>>

Sleeping == [at |-> "sleep", excluded |-> {}, listed |-> {}, found |-> {}]

-----------------------------------------------------------------------------
(* The file system *)

\* One path comes or goes, or is renamed to another.
Move ==
  /\ \E gone, come \in {{}} \cup {{p} : p \in Path} :
       /\ gone \subseteq present /\ come \cap present = {}
       /\ gone \cup come # {}
       /\ present' = (present \ gone) \cup come
  /\ UNCHANGED <<vetoed, pass, task, lately>>

\* Somebody puts a veto beside a path, or takes it away.
Veto(p) ==
  /\ vetoed' = IF p \in vetoed THEN vetoed \ {p} ELSE vetoed \cup {p}
  /\ lately' = [lately EXCEPT !.free = @ \cup (Path \ vetoed')]
  /\ UNCHANGED <<present, pass, task>>

-----------------------------------------------------------------------------
(* iter_files, a glob or a look at the file system at a time *)

\* async_main has slept; the event loop has begun every task created before.
Wakes == pass.at = "sleep" /\ \A p \in Path : task[p] # "new"

\* Mutant of ExcludeBefore: excluded files are listed only after the scan.
ExcludeAfterOnly ==
  /\ Wakes
  /\ pass' = [Sleeping EXCEPT !.at = "scan"]
  /\ lately' = [before |-> present, free |-> Path \ vetoed]
  /\ UNCHANGED <<present, vetoed, task>>

ExcludeBefore ==
  /\ Wakes
  /\ pass' = [Sleeping EXCEPT !.at = "scan", !.excluded = present \cap Excluded]
  /\ lately' = [before |-> present, free |-> Path \ vetoed]
  /\ UNCHANGED <<present, vetoed, task>>

\* Mutant of ListScanned: the scan patterns match everything.
ListAll ==
  /\ pass.at = "scan"
  /\ pass' = [pass EXCEPT !.at = "look", !.listed = present]
  /\ UNCHANGED <<present, vetoed, task, lately>>

ListScanned ==
  /\ pass.at = "scan"
  /\ pass' = [pass EXCEPT !.at = "look", !.listed = present \cap Scanned]
  /\ UNCHANGED <<present, vetoed, task, lately>>

\* Mutant of Look: nothing is looked for beside the path.
LookAway(p) ==
  /\ p \in pass.listed
  /\ pass' = [pass EXCEPT !.listed = @ \ {p}, !.found = @ \cup {p}]
  /\ UNCHANGED <<present, vetoed, task, lately>>

Look(p) ==
  /\ p \in pass.listed
  /\ pass' = [pass EXCEPT !.listed = @ \ {p},
                          !.found = IF p \in vetoed THEN @ ELSE @ \cup {p}]
  /\ UNCHANGED <<present, vetoed, task, lately>>

\* Mutant of Idle: a path is watched once and for all.
IdleOnce == {p \in Path : task[p] = "none"}

\* The paths async_main would start a task for: there is none, or it has ended.
Idle == {p \in Path : task[p] \in {"none", "done"}}

\* What iter_files returns: the exclude patterns are listed once more.
Wanted == pass.found \ (pass.excluded \cup (present \cap Excluded))

\* async_main starts the tasks that are missing, and sleeps.
ExcludeAfter ==
  /\ pass.at = "look"
  /\ pass.listed = {}
  /\ task' = [p \in Path |-> IF p \in Wanted \cap Idle THEN "new" ELSE task[p]]
  /\ pass' = Sleeping
  /\ UNCHANGED <<present, vetoed, lately>>

Scan == ExcludeBefore \/ ListScanned \/ (\E p \in Path : Look(p)) \/ ExcludeAfter

-----------------------------------------------------------------------------
(* watch_path.  iter_files awaits nothing, so tasks run only while it sleeps. *)

Turn(p, from, to) ==
  /\ pass.at = "sleep"
  /\ task[p] = from
  /\ task' = [task EXCEPT ![p] = to]
  /\ UNCHANGED <<present, vetoed, pass, lately>>

Begin(p) == Turn(p, "new", "running")

\* The coordinator has seen the path, opens it, and it is gone (OpenFailed in
\* Agent.tla).
End(p) == p \notin present /\ Turn(p, "running", "done")

-----------------------------------------------------------------------------
Init ==
  /\ present \in SUBSET Path
  /\ vetoed = {}
  /\ pass = Sleeping
  /\ task = [p \in Path |-> "none"]
  /\ lately = [before |-> {}, free |-> Path]

Next == Move \/ Scan \/ \E p \in Path : Veto(p) \/ Begin(p) \/ End(p)

Spec == Init /\ [][Next]_vars

\* The event loop resumes async_main after each sleep, and starts what it created.
FairSpec == Spec /\ WF_vars(Scan) /\ \A p \in Path : WF_vars(Begin(p))

-----------------------------------------------------------------------------
(* Properties *)

TypeOK ==
  /\ present \subseteq Path /\ vetoed \subseteq Path
  /\ pass \in [at : {"sleep", "scan", "look"}, excluded : SUBSET Excluded,
               listed : SUBSET Scanned, found : SUBSET Scanned]
  /\ task \in [Path -> {"none", "new", "running", "done"}]

Started(p) == task[p] # "new" /\ task'[p] = "new"

\* A file that is excluded and was there when a pass began, or is there when it
\* ends, is not watched: renaming it into or out of the excluded names during the
\* scan does not get it past the patterns.
ExcludedUnwatched ==
  [][\A p \in Excluded : Started(p) => p \notin present \cup lately.before]_vars

\* Neither is one with a veto beside it all along.
VetoedUnwatched == [][\A p \in Path : Started(p) => p \in lately.free]_vars

\* A path to be watched that is there to stay ends up watched for good, however
\* often its task has died before.
Watched ==
  \A p \in Scanned \ Excluded :
    <>[](p \in present /\ p \notin vetoed) => <>[](task[p] = "running")

=============================================================================
