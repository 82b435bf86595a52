--------------------------- MODULE ModelStoreProofs ---------------------------
(***************************************************************************)
(* Theorems about ModelStore for any number of editors, refreshers and     *)
(* readers, any catalogs and commands, and any bounds.                     *)
(***************************************************************************)
EXTENDS ModelStore, TLAPS

USE DEF history

\* What the tasks hold is type-correct while they hold nothing.
LEMMA IdleTypes ==
    /\ NoJob \in [batch : Batches, dry : BOOLEAN, cat : Catalogs, stamp : Times]
    /\ NoEngine \in Engines
<1>1. NoBatch \in Batches
  BY CatalogsAreClosed DEF NoBatch
<1> QED
  BY <1>1, CatalogsAreClosed, BoundsAreNumbers DEF NoJob, NoEngine, Engines, Times

\* What Clone makes of a job is one.
LEMMA EditedJobType ==
    ASSUME NEW B, NEW C, NEW T,
           NEW j \in [batch : B, dry : BOOLEAN, cat : C, stamp : T],
           NEW c \in C, NEW t \in T
    PROVE  [j EXCEPT !.cat = c, !.stamp = t]
               \in [batch : B, dry : BOOLEAN, cat : C, stamp : T]
OBVIOUS

\* A batch run on a catalog gives a catalog.
LEMMA RunGivesCatalog ==
    ASSUME NEW c \in Catalogs, NEW b \in Batches
    PROVE  RunCommands(c, b).cat \in Catalogs
BY CatalogsAreClosed

THEOREM InitTypeOK == Init => TypeOK
<1> SUFFICES ASSUME Init PROVE TypeOK
  OBVIOUS
<1>1. up \in BOOLEAN /\ now \in Times /\ crashes \in 0..MaxCrashes
  BY BoundsAreNumbers DEF Init, Times
<1>2. mem \in Engines
  BY <1>1, CatalogsAreClosed DEF Init, Built, Engines
<1>3. file \in [cat : Catalogs, torn : BOOLEAN]
  BY CatalogsAreClosed DEF Init
<1>4. pc \in [Tasks -> EditorLabels \cup {"loading", "reading"}]
  BY DEF Init, EditorLabels
<1>5. job \in [Editors -> [batch : Batches, dry : BOOLEAN, cat : Catalogs, stamp : Times]]
  BY IdleTypes DEF Init
<1>6. built \in [Editors -> Engines] /\ snap \in [Readers -> Engines]
  BY IdleTypes DEF Init
<1>7. answer \in [Editors -> {"none", "applied", "refused"}]
  BY DEF Init
<1>8. written \subseteq Catalogs /\ ledger \in Catalogs /\ doubtful \in BOOLEAN
  BY CatalogsAreClosed DEF Init
<1> QED
  BY <1>1, <1>2, <1>3, <1>4, <1>5, <1>6, <1>7, <1>8 DEF TypeOK

\* Types are preserved by every step.
THEOREM NextTypeOK == TypeOK /\ [Next]_vars => TypeOK'
<1> SUFFICES ASSUME TypeOK, [Next]_vars PROVE TypeOK'
  OBVIOUS
<1> USE DEF TypeOK, EditorLabels
<1>1. ASSUME NEW e \in Editors, NEW b \in Batches, NEW dry \in BOOLEAN,
             CallApply(e, b, dry)
      PROVE  TypeOK'
  BY <1>1, IdleTypes DEF CallApply, Goto, NoJob
<1>2. ASSUME NEW e \in Editors, Clone(e) PROVE TypeOK'
  <2>1. PICK r \in [cat : Catalogs, ok : BOOLEAN] :
            r = RunCommands(mem.cat, job[e].batch)
    BY CatalogsAreClosed DEF Engines
  <2>2. CASE EndsAfterRun(job[e].dry, r.ok)
    BY <1>2, <2>1, <2>2, IdleTypes DEF Clone, Answer, Goto
  <2>3. CASE ~EndsAfterRun(job[e].dry, r.ok)
    <3> DEFINE edited == [job[e] EXCEPT !.cat = r.cat, !.stamp = mem.stamp]
    <3>1. job' = [job EXCEPT ![e] = edited]
      BY <1>2, <2>1, <2>3 DEF Clone
    <3>2. edited \in [batch : Batches, dry : BOOLEAN, cat : Catalogs, stamp : Times]
      <4>1. mem.stamp \in Times /\ r.cat \in Catalogs
        BY <2>1 DEF Engines
      <4>2. job[e] \in [batch : Batches, dry : BOOLEAN, cat : Catalogs, stamp : Times]
        OBVIOUS
      <4> QED
        BY <4>1, <4>2, EditedJobType
    <3> HIDE DEF edited
    <3>3. job' \in [Editors -> [batch : Batches, dry : BOOLEAN,
                                cat : Catalogs, stamp : Times]]
      BY <3>1, <3>2
    <3> QED
      BY <1>2, <2>1, <2>3, <3>3 DEF Clone, Goto, AfterRun
  <2> QED
    BY <2>2, <2>3
<1>3. ASSUME NEW e \in Editors, BeginSave(e) PROVE TypeOK'
  BY <1>3, BoundsAreNumbers DEF BeginSave, Goto
<1>4. ASSUME NEW e \in Editors, EndSave(e) PROVE TypeOK'
  BY <1>4 DEF EndSave, Goto, Saved
<1>5. ASSUME NEW e \in Editors, FailSave(e) PROVE TypeOK'
  <2>1. file' \in [cat : Catalogs, torn : BOOLEAN] /\ written' \subseteq Catalogs
    <3>1. CASE UNCHANGED <<file, written>>
      BY <3>1
    <3>2. CASE /\ file' = [cat |-> Saved(e), torn |-> FALSE]
               /\ written' = written \cup {Saved(e)}
      BY <3>2 DEF Saved
    <3> QED
      BY <1>5, <3>1, <3>2 DEF FailSave
  <2> QED
    BY <1>5, <2>1, IdleTypes DEF FailSave, Answer, Goto
<1>6. ASSUME NEW e \in Editors, Publish(e) PROVE TypeOK'
  BY <1>6, IdleTypes, RunGivesCatalog DEF Publish, StampOf, Goto, Answer, Engines
<1>7. ASSUME NEW e \in Editors, CallReload(e) \/ OpenReload(e) PROVE TypeOK'
  BY <1>7 DEF CallReload, OpenReload, Goto
<1>8. ASSUME NEW e \in Editors, BuildReload(e) PROVE TypeOK'
  <2>1. Built(file.cat) \in Engines
    BY DEF Built, Engines
  <2>2. built' \in [Editors -> Engines]
    BY <1>8, <2>1 DEF BuildReload
  <2>3. pc' \in [Tasks -> EditorLabels \cup {"loading", "reading"}]
    BY <1>8 DEF BuildReload, Goto
  <2> QED
    BY <1>8, <2>2, <2>3 DEF BuildReload
<1>9. ASSUME NEW e \in Editors, SwapReload(e) PROVE TypeOK'
  BY <1>9, IdleTypes DEF SwapReload, Goto, Engines
<1>10. ASSUME NEW t \in Refreshers, BeginRefresh(t) \/ EndRefresh(t) PROVE TypeOK'
  BY <1>10 DEF BeginRefresh, EndRefresh, Goto, Engines
<1>11. ASSUME NEW r \in Readers, BeginRead(r) \/ EndRead(r) PROVE TypeOK'
  BY <1>11, IdleTypes DEF BeginRead, EndRead, Goto
<1>12. CASE Tick
  BY <1>12, BoundsAreNumbers DEF Tick, Times, Engines
<1>13. CASE Crash
  <2>1. up' = FALSE
    BY <1>13 DEF Crash
  <2>5. crashes' \in 0..MaxCrashes
    <3>1. crashes < MaxCrashes /\ crashes' = crashes + 1
      BY <1>13 DEF Crash
    <3> QED
      BY <3>1, BoundsAreNumbers
  <2>2. pc' \in [Tasks -> EditorLabels \cup {"loading", "reading"}]
    BY <1>13 DEF Crash
  <2>3. /\ job' \in [Editors -> [batch : Batches, dry : BOOLEAN,
                                  cat : Catalogs, stamp : Times]]
        /\ built' \in [Editors -> Engines]
        /\ snap' \in [Readers -> Engines]
    BY <1>13, IdleTypes DEF Crash
  <2>4. answer' \in [Editors -> {"none", "applied", "refused"}]
    BY <1>13 DEF Crash
  <2> QED
    BY <1>13, <2>1, <2>2, <2>3, <2>4, <2>5 DEF Crash
<1>14. CASE Restart
  BY <1>14 DEF Restart, Built, Engines
<1>15. CASE UNCHANGED vars
  BY <1>15 DEF vars
<1> QED
  BY <1>1, <1>2, <1>3, <1>4, <1>5, <1>6, <1>7, <1>8, <1>9, <1>10, <1>11, <1>12,
     <1>13, <1>14, <1>15 DEF Next, Editor

\* The type invariant holds in every reachable state.
THEOREM TypeCorrect == Spec => []TypeOK
<1> QED
  BY InitTypeOK, NextTypeOK, PTL DEF Spec

------------------------------------------------------------------------------
(* The safety invariants.                                                   *)

\* Every catalog on its way into memory has been in the file.
SavedInv ==
    /\ mem.cat \in written
    /\ file.cat \in written
    /\ \A e \in Editors : pc[e] = "publish" => job[e].cat \in written
    /\ \A e \in Editors : pc[e] = "swap" => built[e].cat \in written

\* Nobody writes the engine while a reader holds it.
LockInv ==
    /\ \A r \in Readers : pc[r] = "reading" => ReadFree /\ snap[r] = mem
    /\ ~up => \A t \in Tasks : pc[t] = "idle"

\* The saved-before-served invariant is inductive.
THEOREM NextSaved == TypeOK /\ SavedInv /\ [Next]_vars => SavedInv'
<1> SUFFICES ASSUME TypeOK, SavedInv, [Next]_vars PROVE SavedInv'
  OBVIOUS
<1> USE DEF TypeOK, SavedInv, EditorLabels
<1>1. ASSUME NEW e \in Editors, NEW b \in Batches, NEW dry \in BOOLEAN,
             CallApply(e, b, dry)
      PROVE  SavedInv'
  BY <1>1, TasksAreDistinct DEF CallApply, Goto, Tasks
<1>2. ASSUME NEW e \in Editors, Clone(e) PROVE SavedInv'
  BY <1>2 DEF Clone, Goto, Answer, AfterRun, Tasks
<1>3. ASSUME NEW e \in Editors, BeginSave(e) PROVE SavedInv'
  BY <1>3 DEF BeginSave, Goto, Tasks
<1>4. ASSUME NEW e \in Editors, EndSave(e) PROVE SavedInv'
  BY <1>4 DEF EndSave, Goto, Saved, Tasks
<1>5. ASSUME NEW e \in Editors, FailSave(e) PROVE SavedInv'
  BY <1>5 DEF FailSave, Goto, Answer, Saved, Tasks
<1>6. ASSUME NEW e \in Editors, Publish(e) PROVE SavedInv'
  BY <1>6 DEF Publish, StampOf, Goto, Answer, Engines, Tasks
<1>7. ASSUME NEW e \in Editors, CallReload(e) \/ OpenReload(e) PROVE SavedInv'
  BY <1>7 DEF CallReload, OpenReload, Goto, Tasks
<1>8. ASSUME NEW e \in Editors, BuildReload(e) PROVE SavedInv'
  BY <1>8 DEF BuildReload, Goto, Built, Tasks
<1>9. ASSUME NEW e \in Editors, SwapReload(e) PROVE SavedInv'
  BY <1>9 DEF SwapReload, Goto, Tasks
<1>10. ASSUME NEW t \in Refreshers, BeginRefresh(t) \/ EndRefresh(t)
       PROVE  SavedInv'
  BY <1>10, TasksAreDistinct DEF BeginRefresh, EndRefresh, Goto, Engines, Tasks
<1>11. ASSUME NEW r \in Readers, BeginRead(r) \/ EndRead(r) PROVE SavedInv'
  BY <1>11, TasksAreDistinct DEF BeginRead, EndRead, Goto, Tasks
<1>12. CASE Tick
  BY <1>12 DEF Tick
<1>13. CASE Crash
  BY <1>13 DEF Crash, Tasks
<1>14. CASE Restart
  BY <1>14 DEF Restart, Built
<1>15. CASE UNCHANGED vars
  BY <1>15 DEF vars
<1> QED
  BY <1>1, <1>2, <1>3, <1>4, <1>5, <1>6, <1>7, <1>8, <1>9, <1>10, <1>11, <1>12,
     <1>13, <1>14, <1>15 DEF Next, Editor

\* Whatever is served was completely written to the file before.
THEOREM ServedWasSavedAlways == Spec => []ServedWasSaved
<1>1. Init => SavedInv
  BY DEF Init, SavedInv, Built, Tasks
<1>2. TypeOK /\ SavedInv => ServedWasSaved
  BY DEF SavedInv, ServedWasSaved
<1> QED
  BY <1>1, <1>2, NextSaved, TypeCorrect, PTL DEF Spec

\* The lock invariant is inductive.
THEOREM NextLock == TypeOK /\ LockInv /\ [Next]_vars => LockInv'
<1> SUFFICES ASSUME TypeOK, LockInv, [Next]_vars PROVE LockInv'
  OBVIOUS
<1> USE TasksAreDistinct DEF TypeOK, LockInv, ReadFree, Tasks
<1>1. ASSUME NEW e \in Editors, NEW b \in Batches, NEW dry \in BOOLEAN,
             CallApply(e, b, dry)
      PROVE  LockInv'
  BY <1>1 DEF CallApply, Goto
<1>2. ASSUME NEW e \in Editors, Clone(e) PROVE LockInv'
  BY <1>2 DEF Clone, Goto, Answer, AfterRun
<1>3. ASSUME NEW e \in Editors, BeginSave(e) \/ EndSave(e) PROVE LockInv'
  BY <1>3 DEF BeginSave, EndSave, Goto
<1>4. ASSUME NEW e \in Editors, FailSave(e) PROVE LockInv'
  BY <1>4 DEF FailSave, Goto, Answer
<1>5. ASSUME NEW e \in Editors, Publish(e) PROVE LockInv'
  BY <1>5 DEF Publish, WriteFree, Goto, Answer
<1>6. ASSUME NEW e \in Editors, CallReload(e) \/ OpenReload(e) \/ BuildReload(e)
      PROVE  LockInv'
  BY <1>6 DEF CallReload, OpenReload, BuildReload, Goto
<1>7. ASSUME NEW e \in Editors, SwapReload(e) PROVE LockInv'
  BY <1>7 DEF SwapReload, WriteFree, Goto
<1>8. ASSUME NEW t \in Refreshers, BeginRefresh(t) PROVE LockInv'
  BY <1>8 DEF BeginRefresh, WriteFree, Goto
<1>9. ASSUME NEW t \in Refreshers, EndRefresh(t) PROVE LockInv'
  BY <1>9 DEF EndRefresh, Goto
<1>10. ASSUME NEW r \in Readers, BeginRead(r) \/ EndRead(r) PROVE LockInv'
  BY <1>10 DEF BeginRead, EndRead, Goto
<1>11. CASE Tick
  BY <1>11 DEF Tick
<1>12. CASE Crash
  BY <1>12 DEF Crash
<1>13. CASE Restart
  BY <1>13 DEF Restart
<1>14. CASE UNCHANGED vars
  BY <1>14 DEF vars
<1> QED
  BY <1>1, <1>2, <1>3, <1>4, <1>5, <1>6, <1>7, <1>8, <1>9, <1>10, <1>11, <1>12,
     <1>13, <1>14 DEF Next, Editor

\* A request reads one engine from beginning to end.
THEOREM QueriesReadOneEngineAlways == Spec => []QueriesReadOneEngine
<1>1. Init => LockInv
  BY DEF Init, LockInv, Tasks
<1>2. LockInv => QueriesReadOneEngine
  BY DEF LockInv, QueriesReadOneEngine
<1> QED
  BY <1>1, <1>2, NextLock, TypeCorrect, PTL DEF Spec

------------------------------------------------------------------------------
(* What holds while nobody edits a model at the same time as somebody else. *)
(* The code serialises nothing between the clone and the swap, so with two  *)
(* at once each of these can fail: one editor may install a clone, or an    *)
(* engine it built, that was made before the other one's change.            *)


\* At most one editor is inside apply_commands or reload_model.
OneAtATime ==
    \A d, e \in Editors : pc[d] # "idle" /\ pc[e] # "idle" => d = e

\* The clone has been made and not yet been installed or dropped.
HasClone(e) == pc[e] \in {"save", "saving", "publish"}

\* A clone on its way into memory is what its batch makes of the served
\* catalog, and an editor that works on no batch holds nothing.
EditInv ==
    \A e \in Editors :
       /\ HasClone(e) =>
            /\ RunCommands(mem.cat, job[e].batch).ok
            /\ job[e].cat = RunCommands(mem.cat, job[e].batch).cat
       /\ ~InApply(e) => job[e] = NoJob

\* The file against memory, wherever a save or a reload stands.
FileInv ==
    /\ (up /\ ~doubtful /\ \A e \in Editors : pc[e] \notin {"saving", "publish"})
         => ~file.torn /\ file.cat = mem.cat
    /\ \A e \in Editors :
          /\ pc[e] = "saving" /\ ~doubtful => file.cat = mem.cat
          /\ pc[e] = "publish" => ~file.torn /\ file.cat = job[e].cat
          /\ pc[e] = "swap" => ~file.torn /\ file.cat = built[e].cat

\* Whatever stamp may be served next, the data it promises is there.
StampInv ==
    /\ mem.stamp <= mem.data /\ mem.data <= now
    /\ \A e \in Editors :
          /\ HasClone(e) => job[e].stamp <= mem.data
          /\ pc[e] = "swap" => built[e].stamp <= built[e].data /\ built[e].data <= now

\* All the single-editor theorems rest on.
EditorInv == TypeOK /\ LockInv /\ EditInv /\ FileInv /\ StampInv

------------------------------------------------------------------------------
(* One lemma per part of the invariant.                                     *)

\* What Clone leaves in the job of an editor whose batch it accepted.
LEMMA CloneTaken ==
    ASSUME TypeOK, NEW e \in Editors, Clone(e),
           ~EndsAfterRun(job[e].dry, RunCommands(mem.cat, job[e].batch).ok)
    PROVE  /\ RunCommands(mem.cat, job[e].batch).ok
           /\ job'[e].cat = RunCommands(mem.cat, job[e].batch).cat
           /\ job'[e].stamp = mem.stamp
           /\ job'[e].batch = job[e].batch
           /\ \A d \in Editors \ {e} : job'[d] = job[d]
           /\ pc[e] = "called" /\ pc' = [pc EXCEPT ![e] = "save"]
           /\ UNCHANGED <<up, mem, file, answer, now, doubtful, built>>
<1> DEFINE r == RunCommands(mem.cat, job[e].batch)
<1>1. job' = [job EXCEPT ![e] = [job[e] EXCEPT !.cat = r.cat, !.stamp = mem.stamp]]
  BY DEF Clone
<1>2. job[e] \in [batch : Batches, dry : BOOLEAN, cat : Catalogs, stamp : Times]
      /\ job \in [Editors -> [batch : Batches, dry : BOOLEAN, cat : Catalogs,
                              stamp : Times]]
  BY DEF TypeOK
<1>3. job'[e] = [job[e] EXCEPT !.cat = r.cat, !.stamp = mem.stamp]
  BY <1>1, <1>2
<1>4. /\ job'[e].cat = r.cat /\ job'[e].stamp = mem.stamp
      /\ job'[e].batch = job[e].batch
  BY <1>2, <1>3
<1>5. \A d \in Editors \ {e} : job'[d] = job[d]
  BY <1>1, <1>2
<1> QED
  BY <1>4, <1>5 DEF Clone, EndsAfterRun, Goto, AfterRun

\* The clone stays the batch's result on the served catalog: only its own
\* editor changes the catalog in memory.
LEMMA NextEdit ==
    ASSUME OneAtATime, TypeOK, LockInv, EditInv, [Next]_vars
    PROVE  EditInv'
<1> USE DEF OneAtATime, TypeOK, LockInv, EditInv, HasClone, InApply, EditorLabels, Tasks
<1>1. ASSUME NEW e \in Editors, NEW b \in Batches, NEW dry \in BOOLEAN,
             CallApply(e, b, dry)
      PROVE  EditInv'
  BY <1>1 DEF CallApply, Goto
<1>2. ASSUME NEW e \in Editors, Clone(e) PROVE EditInv'
  <2> DEFINE r == RunCommands(mem.cat, job[e].batch)
  <2>1. CASE EndsAfterRun(job[e].dry, r.ok)
    BY <1>2, <2>1 DEF Clone, Goto, Answer
  <2>2. CASE ~EndsAfterRun(job[e].dry, r.ok)
    BY <1>2, <2>2, CloneTaken
  <2> QED
    BY <2>1, <2>2
<1>3. ASSUME NEW e \in Editors, BeginSave(e) \/ EndSave(e) PROVE EditInv'
  BY <1>3 DEF BeginSave, EndSave, Goto
<1>4. ASSUME NEW e \in Editors, FailSave(e) PROVE EditInv'
  BY <1>4 DEF FailSave, Goto, Answer
<1>5. ASSUME NEW e \in Editors, Publish(e) PROVE EditInv'
  BY <1>5 DEF Publish, Goto, Answer
<1>6. ASSUME NEW e \in Editors, CallReload(e) \/ OpenReload(e) \/ BuildReload(e)
      PROVE  EditInv'
  BY <1>6 DEF CallReload, OpenReload, BuildReload, Goto
<1>7. ASSUME NEW e \in Editors, SwapReload(e) PROVE EditInv'
  BY <1>7 DEF SwapReload, Goto
<1>8. ASSUME NEW t \in Refreshers, BeginRefresh(t) \/ EndRefresh(t) PROVE EditInv'
  <2>1. mem'.cat = mem.cat /\ UNCHANGED job
    BY <1>8 DEF BeginRefresh, EndRefresh, Engines
  <2>2. \A e \in Editors : pc'[e] = pc[e]
    BY <1>8, TasksAreDistinct DEF BeginRefresh, EndRefresh, Goto
  <2> QED
    BY <2>1, <2>2
<1>9. ASSUME NEW r \in Readers, BeginRead(r) \/ EndRead(r) PROVE EditInv'
  <2>1. UNCHANGED <<mem, job>> /\ \A e \in Editors : pc'[e] = pc[e]
    BY <1>9, TasksAreDistinct DEF BeginRead, EndRead, Goto
  <2> QED
    BY <2>1
<1>10. CASE Tick
  BY <1>10 DEF Tick
<1>11. CASE Crash
  BY <1>11 DEF Crash
<1>12. CASE Restart
  BY <1>12 DEF Restart
<1>13. CASE UNCHANGED vars
  BY <1>13 DEF vars
<1> QED
  BY <1>1, <1>2, <1>3, <1>4, <1>5, <1>6, <1>7, <1>8, <1>9, <1>10, <1>11, <1>12,
     <1>13 DEF Next, Editor

\* The file keeps step with memory: what a save writes is what its editor
\* installs next, and what a reload has read stays in the file until the swap.
LEMMA NextFile ==
    ASSUME OneAtATime, TypeOK, LockInv, FileInv, [Next]_vars
    PROVE  FileInv'
<1> USE DEF OneAtATime, TypeOK, LockInv, FileInv, EditorLabels, Tasks
<1>1. ASSUME NEW e \in Editors, NEW b \in Batches, NEW dry \in BOOLEAN,
             CallApply(e, b, dry)
      PROVE  FileInv'
  BY <1>1 DEF CallApply, Goto
<1>2. ASSUME NEW e \in Editors, Clone(e) PROVE FileInv'
  <2> DEFINE r == RunCommands(mem.cat, job[e].batch)
  <2>1. CASE EndsAfterRun(job[e].dry, r.ok)
    BY <1>2, <2>1 DEF Clone, Goto, Answer
  <2>2. CASE ~EndsAfterRun(job[e].dry, r.ok)
    BY <1>2, <2>2, CloneTaken
  <2> QED
    BY <2>1, <2>2
<1>3. ASSUME NEW e \in Editors, BeginSave(e) PROVE FileInv'
  BY <1>3 DEF BeginSave, Goto
<1>4. ASSUME NEW e \in Editors, EndSave(e) PROVE FileInv'
  BY <1>4 DEF EndSave, Saved, Goto
<1>5. ASSUME NEW e \in Editors, FailSave(e) PROVE FileInv'
  BY <1>5 DEF FailSave, Goto, Answer
<1>6. ASSUME NEW e \in Editors, Publish(e) PROVE FileInv'
  <2>1. ~file.torn /\ mem'.cat = file.cat
    BY <1>6 DEF Publish, Engines
  <2> QED
    BY <1>6, <2>1 DEF Publish, Goto, Answer
<1>7. ASSUME NEW e \in Editors, CallReload(e) \/ OpenReload(e) PROVE FileInv'
  BY <1>7 DEF CallReload, OpenReload, Goto
<1>8. ASSUME NEW e \in Editors, BuildReload(e) PROVE FileInv'
  BY <1>8 DEF BuildReload, Built, Goto
<1>9. ASSUME NEW e \in Editors, SwapReload(e) PROVE FileInv'
  BY <1>9 DEF SwapReload, Goto
<1>10. ASSUME NEW t \in Refreshers, BeginRefresh(t) \/ EndRefresh(t) PROVE FileInv'
  <2>1. mem'.cat = mem.cat /\ UNCHANGED <<up, file, job, built, doubtful>>
    BY <1>10 DEF BeginRefresh, EndRefresh, Engines
  <2>2. \A e \in Editors : pc'[e] = pc[e]
    BY <1>10, TasksAreDistinct DEF BeginRefresh, EndRefresh, Goto
  <2> QED
    BY <2>1, <2>2
<1>11. ASSUME NEW r \in Readers, BeginRead(r) \/ EndRead(r) PROVE FileInv'
  <2>1. /\ UNCHANGED <<up, mem, file, job, built, doubtful>>
        /\ \A e \in Editors : pc'[e] = pc[e]
    BY <1>11, TasksAreDistinct DEF BeginRead, EndRead, Goto
  <2> QED
    BY <2>1
<1>12. CASE Tick
  BY <1>12 DEF Tick
<1>13. CASE Crash
  BY <1>13 DEF Crash
<1>14. CASE Restart
  BY <1>14 DEF Restart, Built
<1>15. CASE UNCHANGED vars
  BY <1>15 DEF vars
<1> QED
  BY <1>1, <1>2, <1>3, <1>4, <1>5, <1>6, <1>7, <1>8, <1>9, <1>10, <1>11, <1>12,
     <1>13, <1>14, <1>15 DEF Next, Editor

\* No stamp overtakes the data: a refresh only raises the version of the data
\* a waiting clone took its stamp from.
LEMMA NextStamp ==
    ASSUME OneAtATime, TypeOK, LockInv, StampInv, [Next]_vars
    PROVE  StampInv'
<1> USE BoundsAreNumbers
        DEF OneAtATime, TypeOK, LockInv, StampInv, HasClone, EditorLabels, Tasks
<1>0. now \in Int /\ mem.data \in Int /\ mem.stamp \in Int
  BY DEF Engines, Times
<1>1. ASSUME NEW e \in Editors, NEW b \in Batches, NEW dry \in BOOLEAN,
             CallApply(e, b, dry)
      PROVE  StampInv'
  BY <1>1 DEF CallApply, Goto
<1>2. ASSUME NEW e \in Editors, Clone(e) PROVE StampInv'
  <2> DEFINE r == RunCommands(mem.cat, job[e].batch)
  <2>1. CASE EndsAfterRun(job[e].dry, r.ok)
    BY <1>2, <2>1 DEF Clone, Goto, Answer
  <2>2. CASE ~EndsAfterRun(job[e].dry, r.ok)
    BY <1>2, <2>2, CloneTaken
  <2> QED
    BY <2>1, <2>2
<1>3. ASSUME NEW e \in Editors, BeginSave(e) \/ EndSave(e) PROVE StampInv'
  BY <1>3 DEF BeginSave, EndSave, Goto
<1>4. ASSUME NEW e \in Editors, FailSave(e) PROVE StampInv'
  BY <1>4 DEF FailSave, Goto, Answer
<1>5. ASSUME NEW e \in Editors, Publish(e) PROVE StampInv'
  <2>1. mem'.stamp = job[e].stamp /\ mem'.data = mem.data /\ now' = now
    BY <1>5 DEF Publish, StampOf, Engines
  <2>2. pc' = [pc EXCEPT ![e] = "idle"] /\ pc[e] = "publish"
    BY <1>5 DEF Publish, Goto, Answer
  <2> QED
    BY <2>1, <2>2
<1>6. ASSUME NEW e \in Editors, CallReload(e) \/ OpenReload(e) PROVE StampInv'
  BY <1>6 DEF CallReload, OpenReload, Goto
<1>7. ASSUME NEW e \in Editors, BuildReload(e) PROVE StampInv'
  BY <1>0, <1>7 DEF BuildReload, Built, Goto
<1>8. ASSUME NEW e \in Editors, SwapReload(e) PROVE StampInv'
  BY <1>8 DEF SwapReload, Goto
<1>9. ASSUME NEW t \in Refreshers, BeginRefresh(t) \/ EndRefresh(t) PROVE StampInv'
  <2>1. /\ \/ mem'.data = mem.data /\ mem'.stamp = mem.stamp
           \/ mem'.data = now /\ mem'.stamp = now
        /\ UNCHANGED <<now, job, built>>
    BY <1>9 DEF BeginRefresh, EndRefresh, Engines
  <2>2. \A e \in Editors : pc'[e] = pc[e] /\ job[e].stamp \in Int
    BY <1>9, TasksAreDistinct DEF BeginRefresh, EndRefresh, Goto, Times
  <2> QED
    BY <1>0, <2>1, <2>2
<1>10. ASSUME NEW r \in Readers, BeginRead(r) \/ EndRead(r) PROVE StampInv'
  <2>1. UNCHANGED <<mem, now, job, built>> /\ \A e \in Editors : pc'[e] = pc[e]
    BY <1>10, TasksAreDistinct DEF BeginRead, EndRead, Goto
  <2> QED
    BY <2>1
<1>11. CASE Tick
  <2>1. \A e \in Editors : built[e].data \in Int
    BY DEF Engines, Times
  <2> QED
    BY <1>0, <1>11, <2>1 DEF Tick
<1>12. CASE Crash
  BY <1>12 DEF Crash
<1>13. CASE Restart
  BY <1>0, <1>13 DEF Restart, Built
<1>14. CASE UNCHANGED vars
  BY <1>14 DEF vars
<1> QED
  BY <1>1, <1>2, <1>3, <1>4, <1>5, <1>6, <1>7, <1>8, <1>9, <1>10, <1>11, <1>12,
     <1>13, <1>14 DEF Next, Editor

------------------------------------------------------------------------------
(* The invariant, and what a client may rely on.                            *)

\* The single-editor invariant holds in every reachable state.
THEOREM EditorInvAlways == Spec /\ []OneAtATime => []EditorInv
<1>1. Init => EditorInv
  <2> SUFFICES ASSUME Init PROVE EditorInv
    OBVIOUS
  <2>1. \A t \in Tasks : pc[t] = "idle"
    BY DEF Init
  <2>2. TypeOK /\ LockInv
    BY <2>1, InitTypeOK DEF LockInv, Tasks
  <2>3. EditInv /\ FileInv
    BY <2>1 DEF Init, Built, EditInv, FileInv, HasClone, InApply, Tasks
  <2>4. StampInv
    BY <2>1, BoundsAreNumbers DEF Init, Built, StampInv, HasClone, Tasks
  <2> QED
    BY <2>2, <2>3, <2>4 DEF EditorInv
<1>2. OneAtATime /\ EditorInv /\ [Next]_vars => EditorInv'
  BY NextTypeOK, NextLock, NextEdit, NextFile, NextStamp DEF EditorInv
<1> QED
  BY <1>1, <1>2, PTL DEF Spec

\* With one editor at a time, when nothing is under way and no save has failed
\* since, a restart comes back with the model clients see.
THEOREM SettledFileIsServedAlways == Spec /\ []OneAtATime => []SettledFileIsServed
<1>1. EditorInv => SettledFileIsServed
  BY DEF EditorInv, FileInv, SettledFileIsServed, Settled
<1> QED
  BY <1>1, EditorInvAlways, PTL

\* With one editor at a time, last_refreshed never promises newer data than
\* queries see, however clones and refreshes overlap.
THEOREM StampNeverAheadAlways == Spec /\ []OneAtATime => []StampNeverAhead
<1>1. EditorInv => StampNeverAhead
  BY DEF EditorInv, StampInv, StampNeverAhead
<1> QED
  BY <1>1, EditorInvAlways, PTL

------------------------------------------------------------------------------
(* The refinement: every step of the store is a step of AtomicModel, or     *)
(* leaves what clients can tell apart as it is.                             *)

\* The initial states of the store are initial states of the promise.
LEMMA InitRefines == Init => Atomic!AInit
<1> SUFFICES ASSUME Init PROVE Atomic!AInit
  OBVIOUS
<1> DEFINE ph == [e \in Editors |-> IF InApply(e) THEN "pending" ELSE answer[e]]
           rq == [e \in Editors |-> job[e].batch]
<1>1. up /\ mem.cat = InitialCatalog /\ file.cat = InitialCatalog
  BY DEF Init, Built
<1>2. ph = [e \in Editors |-> "none"]
  BY DEF Init, InApply, Tasks
<1>3. rq = [e \in Editors |-> NoBatch]
  BY DEF Init, NoJob
<1> QED
  BY <1>1, <1>2, <1>3, CatalogsAreClosed DEF Atomic!AInit

\* The values AtomicModel's variables have in a state of the store.
Served  == IF up \/ file.torn THEN mem.cat ELSE file.cat
Phase   == [e \in Editors |-> IF InApply(e) THEN "pending" ELSE answer[e]]
Request == [e \in Editors |-> job[e].batch]
Limbo   == IF /\ up /\ ~file.torn /\ file.cat # mem.cat
              /\ \A e \in Editors : pc[e] # "publish"
           THEN {file.cat} ELSE {}

\* A step that moves no editor into or out of apply_commands changes neither
\* what editors wait for nor what they were told.
LEMMA SameCalls ==
    ASSUME UNCHANGED <<job, answer>>, \A e \in Editors : InApply(e)' = InApply(e)
    PROVE  UNCHANGED <<Phase, Request>>
BY DEF Phase, Request

\* Sending a batch.
LEMMA CallRefines ==
    ASSUME OneAtATime, EditorInv, NEW e \in Editors, NEW b \in Batches,
           NEW dry \in BOOLEAN, CallApply(e, b, dry)
    PROVE  Atomic!Submit(e)
<1> USE DEF EditorInv, TypeOK, Tasks, EditorLabels
<1>1. Phase[e] # "pending"
  BY DEF CallApply, Phase, InApply
<1>2. Phase' = [Phase EXCEPT ![e] = "pending"]
  BY DEF CallApply, Goto, Phase, InApply
<1>3. Request' = [Request EXCEPT ![e] = b]
  BY DEF CallApply, Request, NoJob
<1>4. Served' = Served /\ Limbo' = Limbo
  BY DEF CallApply, Goto, Served, Limbo
<1> QED
  BY <1>1, <1>2, <1>3, <1>4 DEF Atomic!Submit, Phase, Request, Served, Limbo

\* A dry run or a failing batch is refused; any other clone is still unseen.
LEMMA CloneRefines ==
    ASSUME OneAtATime, EditorInv, NEW e \in Editors, Clone(e)
    PROVE  Atomic!Refuse(e) \/ UNCHANGED Atomic!avars
<1> USE DEF EditorInv, TypeOK, Tasks, EditorLabels
<1> DEFINE r == RunCommands(mem.cat, job[e].batch)
<1>1. Phase[e] = "pending" /\ Served = mem.cat
  BY DEF Clone, Phase, InApply, Served
<1>2. CASE EndsAfterRun(job[e].dry, r.ok)
  <2>1. Phase' = [Phase EXCEPT ![e] = "refused"]
    BY <1>2 DEF Clone, Answer, Goto, Phase, InApply
  <2>2. Request' = [Request EXCEPT ![e] = NoBatch]
    <3>1. job' = [job EXCEPT ![e] = NoJob]
      BY <1>2 DEF Clone, Answer
    <3> QED
      BY <3>1 DEF Request, NoJob
  <2>3. Served' = Served /\ Limbo' = Limbo
    BY <1>2 DEF Clone, Answer, Goto, Served, Limbo
  <2> QED
    BY <1>1, <2>1, <2>2, <2>3 DEF Atomic!Refuse, Phase, Request, Served, Limbo
<1>3. CASE ~EndsAfterRun(job[e].dry, r.ok)
  <2>1. /\ pc[e] = "called" /\ pc' = [pc EXCEPT ![e] = "save"]
        /\ UNCHANGED <<up, mem, file, answer>>
        /\ \A d \in Editors : job'[d].batch = job[d].batch
    BY <1>3, CloneTaken
  <2>2. Phase' = Phase
    BY <2>1 DEF Phase, InApply
  <2>3. Request' = Request
    BY <2>1 DEF Request, OneAtATime
  <2>4. Served' = Served /\ Limbo' = Limbo
    BY <2>1 DEF Served, Limbo
  <2> QED
    BY <2>2, <2>3, <2>4 DEF Atomic!avars, Phase, Request, Served, Limbo
<1> QED
  BY <1>2, <1>3

\* A save in progress can only take away what a reload might adopt.
LEMMA SaveRefines ==
    ASSUME OneAtATime, EditorInv, NEW e \in Editors, BeginSave(e) \/ EndSave(e)
    PROVE  Atomic!Adopt
<1> USE DEF EditorInv, TypeOK, Tasks, EditorLabels
<1>1. UNCHANGED <<Phase, Request>>
  <2>1. \A d \in Editors : InApply(d)' = InApply(d)
    BY DEF BeginSave, EndSave, Goto, InApply
  <2> QED
    BY <2>1, SameCalls DEF BeginSave, EndSave
<1>2. Served' = Served
  BY DEF BeginSave, EndSave, Served
<1>3. Limbo' \subseteq Limbo
  <2>1. CASE BeginSave(e)
    BY <2>1 DEF BeginSave, Goto, Limbo
  <2>2. CASE EndSave(e)
    <3>1. pc'[e] = "publish"
      BY <2>2 DEF EndSave, Goto
    <3> QED
      BY <3>1 DEF Limbo
  <2> QED
    BY <2>1, <2>2
<1> QED
  BY <1>1, <1>2, <1>3 DEF Atomic!Adopt, Phase, Request, Served, Limbo

\* A save that was answered with an error leaves at most its own result in the
\* file, which no client has seen.
LEMMA FailSaveRefines ==
    ASSUME OneAtATime, EditorInv, NEW e \in Editors, FailSave(e)
    PROVE  Atomic!Refuse(e)
<1> USE DEF EditorInv, TypeOK, Tasks, EditorLabels
<1> DEFINE r == RunCommands(Served, Request[e])
<1>1. Phase[e] = "pending" /\ Served = mem.cat /\ Request[e] = job[e].batch
  BY DEF FailSave, Phase, InApply, Served, Request
<1>2. r.ok /\ job[e].cat = r.cat
  BY <1>1 DEF FailSave, EditInv, HasClone
<1>3. Phase' = [Phase EXCEPT ![e] = "refused"]
  BY DEF FailSave, Answer, Goto, Phase, InApply
<1>4. Request' = [Request EXCEPT ![e] = NoBatch]
  BY DEF FailSave, Answer, Request, NoJob
<1>5. Served' = Served
  BY DEF FailSave, Served
<1>6. Limbo' \subseteq Limbo \cup {r.cat}
  <2>1. CASE UNCHANGED file
    BY <2>1 DEF FailSave, Answer, Goto, Limbo, OneAtATime
  <2>2. CASE file' = [cat |-> Saved(e), torn |-> FALSE]
    BY <1>2, <2>2 DEF Saved, Limbo
  <2> QED
    BY <2>1, <2>2 DEF FailSave
<1> HIDE DEF r
<1>7. Limbo' \subseteq Limbo \cup (IF r.ok THEN {r.cat} ELSE {})
  BY <1>2, <1>6
<1> QED
  BY <1>1, <1>3, <1>4, <1>5, <1>7
     DEF Atomic!Refuse, r, Phase, Request, Served, Limbo

\* The swap is the instant at which the whole batch takes effect.
LEMMA PublishRefines ==
    ASSUME OneAtATime, EditorInv, NEW e \in Editors, Publish(e)
    PROVE  Atomic!Commit(e)
<1> USE DEF EditorInv, TypeOK, Tasks, EditorLabels
<1> DEFINE r == RunCommands(Served, Request[e])
<1>1. Phase[e] = "pending" /\ Served = mem.cat /\ Request[e] = job[e].batch
  BY DEF Publish, Phase, InApply, Served, Request
<1>2. r.ok /\ job[e].cat = r.cat
  BY <1>1 DEF Publish, EditInv, HasClone
<1>3. mem'.cat = job[e].cat /\ up' /\ UNCHANGED file
  BY DEF Publish, Engines
<1>4. Served' = r.cat
  BY <1>2, <1>3 DEF Served
<1>5. Limbo' = {}
  BY <1>3 DEF Publish, FileInv, Limbo
<1>6. Phase' = [Phase EXCEPT ![e] = "applied"]
  BY DEF Publish, Answer, Goto, Phase, InApply
<1>7. Request' = [Request EXCEPT ![e] = NoBatch]
  BY DEF Publish, Answer, Request, NoJob
<1> HIDE DEF r
<1> QED
  BY <1>1, <1>2, <1>4, <1>5, <1>6, <1>7
     DEF Atomic!Commit, r, Phase, Request, Served, Limbo

\* A reload installs what is served already, or what a failed save has left.
LEMMA SwapRefines ==
    ASSUME OneAtATime, EditorInv, NEW e \in Editors, SwapReload(e)
    PROVE  Atomic!Adopt
<1> USE DEF EditorInv, TypeOK, Tasks, EditorLabels
<1>1. /\ up /\ up' /\ pc[e] = "swap" /\ ~file.torn /\ UNCHANGED file
      /\ mem'.cat = file.cat
  BY DEF SwapReload, FileInv
<1>2. UNCHANGED <<Phase, Request>>
  <2>1. \A d \in Editors : InApply(d)' = InApply(d)
    BY DEF SwapReload, Goto, InApply
  <2> QED
    BY <2>1, SameCalls DEF SwapReload
<1>3. Served' \in {Served} \cup Limbo
  BY <1>1 DEF Served, Limbo, OneAtATime
<1>4. Limbo' \subseteq Limbo
  BY <1>1 DEF Limbo
<1> QED
  BY <1>2, <1>3, <1>4 DEF Atomic!Adopt, Phase, Request, Served, Limbo

\* A crash decides a pending batch by what the file holds at that moment.
LEMMA CrashRefines ==
    ASSUME OneAtATime, EditorInv, Crash
    PROVE  Atomic!Crash
<1> USE DEF EditorInv, TypeOK, Tasks, EditorLabels
<1> DEFINE r(e) == RunCommands(Served, Request[e])
           pending == {d \in Editors : Phase[d] = "pending" /\ r(d).ok}
<1>1. up /\ ~up' /\ UNCHANGED <<mem, file>> /\ Served = mem.cat
  BY DEF Crash, Served
<1>2. Served' \in {Served} \cup Limbo \cup {r(e).cat : e \in pending}
  <2>1. CASE file.torn \/ file.cat = mem.cat
    BY <1>1, <2>1 DEF Served
  <2>2. CASE ~file.torn /\ file.cat # mem.cat /\ \A e \in Editors : pc[e] # "publish"
    BY <1>1, <2>2 DEF Served, Limbo
  <2>3. ASSUME ~file.torn, NEW e \in Editors, pc[e] = "publish"
        PROVE  Served' \in {r(d).cat : d \in pending}
    <3>1. Phase[e] = "pending" /\ Request[e] = job[e].batch
      BY <2>3 DEF Phase, Request, InApply
    <3>2. r(e).ok /\ job[e].cat = r(e).cat
      BY <1>1, <2>3, <3>1 DEF EditInv, HasClone
    <3>3. Served' = job[e].cat
      BY <1>1, <2>3 DEF Served, FileInv
    <3> HIDE DEF r
    <3> QED
      BY <3>1, <3>2, <3>3
  <2> QED
    BY <2>1, <2>2, <2>3
<1>3. Limbo' = {}
  BY <1>1 DEF Limbo
<1>4. Phase' = [e \in Editors |-> "none"]
  BY DEF Crash, Phase, InApply
<1>5. Request' = [e \in Editors |-> NoBatch]
  BY DEF Crash, Request, NoJob
<1> QED
  BY <1>2, <1>3, <1>4, <1>5 DEF Atomic!Crash, Phase, Request, Served, Limbo

\* A restart serves what the file holds, which is what AtomicModel serves
\* while the process is down.
LEMMA RestartRefines ==
    ASSUME OneAtATime, EditorInv, Restart
    PROVE  UNCHANGED Atomic!avars
<1> USE DEF EditorInv, TypeOK, Tasks, EditorLabels
<1>1. /\ ~up /\ up' /\ ~file.torn /\ UNCHANGED <<file, pc, job, answer>>
      /\ mem'.cat = file.cat
  BY DEF Restart, Built
<1>2. UNCHANGED <<Phase, Request>>
  BY <1>1, SameCalls DEF InApply
<1>3. Served' = Served /\ Limbo' = Limbo
  BY <1>1 DEF Served, Limbo
<1> QED
  BY <1>2, <1>3 DEF Atomic!avars, Phase, Request, Served, Limbo

\* The steps of which no editor is told.
LEMMA UnseenRefines ==
    ASSUME OneAtATime, EditorInv,
           \/ \E e \in Editors : CallReload(e) \/ OpenReload(e) \/ BuildReload(e)
           \/ \E t \in Refreshers : BeginRefresh(t) \/ EndRefresh(t)
           \/ \E r \in Readers : BeginRead(r) \/ EndRead(r)
           \/ Tick
           \/ UNCHANGED vars
    PROVE  UNCHANGED Atomic!avars
<1> USE DEF EditorInv, TypeOK, Tasks, EditorLabels
<1>1. mem'.cat = mem.cat /\ UNCHANGED <<up, file, job, answer>>
  BY DEF CallReload, OpenReload, BuildReload, BeginRefresh, EndRefresh, BeginRead,
         EndRead, Tick, vars, Engines
<1>2. \A e \in Editors : /\ InApply(e)' = InApply(e)
                         /\ (pc'[e] = "publish") = (pc[e] = "publish")
  <2>1. ASSUME NEW d \in Editors, CallReload(d) \/ OpenReload(d) \/ BuildReload(d),
               NEW e \in Editors
        PROVE  /\ InApply(e)' = InApply(e)
               /\ (pc'[e] = "publish") = (pc[e] = "publish")
    BY <2>1 DEF CallReload, OpenReload, BuildReload, Goto, InApply
  <2>2. ASSUME \/ \E t \in Refreshers : BeginRefresh(t) \/ EndRefresh(t)
               \/ \E r \in Readers : BeginRead(r) \/ EndRead(r)
               \/ Tick \/ UNCHANGED vars,
               NEW e \in Editors
        PROVE  pc'[e] = pc[e]
    BY <2>2, TasksAreDistinct
       DEF BeginRefresh, EndRefresh, BeginRead, EndRead, Tick, vars, Goto
  <2> QED
    BY <2>1, <2>2 DEF InApply
<1>3. UNCHANGED <<Phase, Request>>
  BY <1>1, <1>2, SameCalls
<1>4. Served' = Served /\ Limbo' = Limbo
  BY <1>1, <1>2 DEF Served, Limbo
<1> QED
  BY <1>3, <1>4 DEF Atomic!avars, Phase, Request, Served, Limbo

\* With one editor the store implements AtomicModel: every batch takes effect
\* at one instant, on the model served at that instant, or not at all, and its
\* sender is told which unless a save fails or the process dies.
THEOREM StoreIsAtomic == Spec /\ []OneAtATime => ImplementsAtomicModel
<1>1. OneAtATime /\ EditorInv /\ [Next]_vars => [Atomic!ANext]_(Atomic!avars)
  <2> SUFFICES ASSUME OneAtATime, EditorInv, [Next]_vars
               PROVE  Atomic!ANext \/ UNCHANGED Atomic!avars
    OBVIOUS
  <2>1. ASSUME NEW e \in Editors, NEW b \in Batches, NEW dry \in BOOLEAN,
               CallApply(e, b, dry)
        PROVE  Atomic!ANext
    BY <2>1, CallRefines DEF Atomic!ANext
  <2>2. ASSUME NEW e \in Editors,
               \/ Clone(e) \/ BeginSave(e) \/ EndSave(e) \/ FailSave(e)
               \/ Publish(e) \/ SwapReload(e)
        PROVE  Atomic!ANext \/ UNCHANGED Atomic!avars
    BY <2>2, CloneRefines, SaveRefines, FailSaveRefines, PublishRefines, SwapRefines
       DEF Atomic!ANext
  <2>3. CASE Crash
    BY <2>3, CrashRefines DEF Atomic!ANext
  <2>4. CASE Restart
    BY <2>4, RestartRefines
  <2> QED
    BY <2>1, <2>2, <2>3, <2>4, UnseenRefines DEF Next, Editor
<1> QED
  BY <1>1, InitRefines, EditorInvAlways, PTL DEF Spec, Atomic!ASpec, ImplementsAtomicModel
==============================================================================
