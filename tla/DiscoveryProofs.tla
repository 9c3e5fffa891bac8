--------------------------- MODULE DiscoveryProofs ---------------------------
(* Theorems about Discovery.tla: whatever the paths and patterns, and however  *)
(* files are renamed during a scan, no task is started for an excluded or a    *)
(* vetoed path.                                                                *)
EXTENDS Discovery, TLAPS

\* What iter_files has listed so far, and what it has found, is good for the
\* present pass.
Noted ==
  /\ Path \ vetoed \subseteq lately.free
  /\ pass.found \subseteq lately.free
  /\ pass.at # "sleep" => lately.before \cap Excluded \subseteq pass.excluded

LatelyOK == lately \in [before : SUBSET Path, free : SUBSET Path]

Inv == TypeOK /\ LatelyOK /\ Noted

\* The fields of pass are looked at once.
LEMMA PassFields ==
  ASSUME TypeOK
  PROVE  /\ pass.at \in {"sleep", "scan", "look"}
         /\ pass.excluded \subseteq Excluded /\ pass.listed \subseteq Scanned
         /\ pass.found \subseteq Scanned
         /\ pass = [at |-> pass.at, excluded |-> pass.excluded, listed |-> pass.listed,
                    found |-> pass.found]
BY DEF TypeOK

\* Nothing is listed while async_main sleeps.
LEMMA InitInv == Init => Inv
BY DiscoveryAssumption DEF Init, Inv, TypeOK, LatelyOK, Noted, Sleeping

\* Files and vetoes that come and go.
LEMMA WorldInv ==
  ASSUME Inv, Move \/ \E p \in Path : Veto(p)
  PROVE  Inv'
<1>1. CASE Move
  BY <1>1 DEF Move, Inv, TypeOK, LatelyOK, Noted
<1>2. ASSUME NEW p \in Path, Veto(p) PROVE Inv'
  <2> DEFINE f == lately.free \cup (Path \ vetoed')
  <2>1. /\ vetoed' \subseteq Path /\ UNCHANGED <<present, pass, task>>
        /\ lately' = [lately EXCEPT !.free = f]
    BY <1>2 DEF Veto, Inv, TypeOK
  <2>2. f \subseteq Path /\ lately.free \subseteq f /\ Path \ vetoed' \subseteq f
    BY DEF Inv, LatelyOK
  <2> HIDE DEF f
  <2>3. /\ lately' = [before |-> lately.before, free |-> f] /\ lately.before \subseteq Path
    BY <2>1 DEF Inv, LatelyOK
  <2> QED  BY <2>1, <2>2, <2>3 DEF Inv, TypeOK, LatelyOK, Noted
<1> QED  BY <1>1, <1>2

\* A pass of iter_files.
LEMMA ScanInv ==
  ASSUME Inv, Scan
  PROVE  Inv'
<1>1. CASE ExcludeBefore
  BY <1>1 DEF ExcludeBefore, Wakes, Sleeping, Inv, TypeOK, LatelyOK, Noted
<1>2. CASE ListScanned
  <2>1. pass' = [at |-> "look", excluded |-> pass.excluded, listed |-> present \cap Scanned,
                 found |-> pass.found]
    BY <1>2, PassFields DEF ListScanned, Inv
  <2> QED  BY <1>2, <2>1, PassFields DEF ListScanned, Inv, TypeOK, LatelyOK, Noted
<1>3. ASSUME NEW p \in Path, Look(p) PROVE Inv'
  <2> DEFINE f == IF p \in vetoed THEN pass.found ELSE pass.found \cup {p}
  <2>1. pass' = [at |-> pass.at, excluded |-> pass.excluded, listed |-> pass.listed \ {p},
                 found |-> f]
    BY <1>3, PassFields DEF Look, Inv
  <2>2. f \subseteq Scanned /\ f \subseteq lately.free
    BY <1>3, PassFields DEF Look, Inv, Noted
  <2> HIDE DEF f
  <2> QED  BY <1>3, <2>1, <2>2, PassFields DEF Look, Inv, TypeOK, LatelyOK, Noted
<1>4. CASE ExcludeAfter
  BY <1>4 DEF ExcludeAfter, Sleeping, Inv, TypeOK, LatelyOK, Noted
<1> QED  BY <1>1, <1>2, <1>3, <1>4 DEF Scan

\* The invariant is inductive.
LEMMA NextInv == Inv /\ [Next]_vars => Inv'
<1> SUFFICES ASSUME Inv, [Next]_vars PROVE Inv'
  OBVIOUS
<1>1. CASE UNCHANGED vars
  BY <1>1 DEF vars, Inv, TypeOK, LatelyOK, Noted
<1>2. ASSUME NEW p \in Path, Begin(p) \/ End(p) PROVE Inv'
  BY <1>2 DEF Begin, End, Turn, Inv, TypeOK, LatelyOK, Noted
<1> QED  BY <1>1, <1>2, WorldInv, ScanInv DEF Next

\* The invariant holds of every state.
LEMMA InvHolds == Spec => []Inv
BY InitInv, NextInv, PTL DEF Spec

\* The invariant TypeOK.
THEOREM TypeCorrect == Spec => []TypeOK
<1>1. Inv => TypeOK
  BY DEF Inv
<1> QED  BY <1>1, InvHolds, PTL

\* Only the end of a pass starts tasks, for what it has found and not excluded.
LEMMA StartedWhen ==
  ASSUME Inv, [Next]_vars, NEW p \in Path, Started(p)
  PROVE  ExcludeAfter /\ p \in Wanted /\ pass.at # "sleep"
<1>1. ASSUME NEW q \in Path, Begin(q) \/ End(q) PROVE FALSE
  BY <1>1 DEF Begin, End, Turn, Started, Inv, TypeOK
<1>2. task' # task
  BY DEF Started
<1>3. ExcludeAfter
  BY <1>1, <1>2 DEF Next, vars, Move, Veto, Scan, ExcludeBefore, ListScanned, Look
<1>4. p \in Wanted
  BY <1>3 DEF ExcludeAfter, Started
<1> QED  BY <1>3, <1>4 DEF ExcludeAfter

\* No task is started for an excluded path that was there when the scan began or
\* is there when it ends (iter_files lists the exclude patterns before and after).
THEOREM ExcludedHolds == Spec => ExcludedUnwatched
<1>1. Inv /\ [Next]_vars =>
        [\A p \in Excluded : Started(p) => p \notin present \cup lately.before]_vars
  <2> SUFFICES ASSUME Inv, [Next]_vars, NEW p \in Excluded, Started(p)
               PROVE  p \notin present \cup lately.before
    OBVIOUS
  <2>1. p \in Path
    BY DiscoveryAssumption
  <2>2. p \in Wanted /\ pass.at # "sleep"
    BY <2>1, StartedWhen
  <2> QED  BY <2>2 DEF Wanted, Inv, Noted
<1> QED  BY <1>1, InvHolds, PTL DEF Spec, ExcludedUnwatched

\* No task is started for a path with a veto beside it all along.
THEOREM VetoedHolds == Spec => VetoedUnwatched
<1>1. Inv /\ [Next]_vars => [\A p \in Path : Started(p) => p \in lately.free]_vars
  <2> SUFFICES ASSUME Inv, [Next]_vars, NEW p \in Path, Started(p) PROVE p \in lately.free
    OBVIOUS
  <2>1. p \in Wanted
    BY StartedWhen
  <2> QED  BY <2>1 DEF Wanted, Inv, Noted
<1> QED  BY <1>1, InvHolds, PTL DEF Spec, VetoedUnwatched

=============================================================================
