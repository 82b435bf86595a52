------------------------------ MODULE ModelStore ------------------------------
(***************************************************************************)
(* One served model: DaxDatabaseProvider (server/dax_provider.rs), the TMSL *)
(* file it was loaded from, and the tasks that work on both at once:       *)
(*   editors     apply_commands and reload_model, on the blocking pool     *)
(*   refreshers  refresh_data, on the blocking pool                        *)
(*   readers     queries and metadata requests                             *)
(* The engine sits behind a RwLock.  apply_commands clones the catalog     *)
(* under the read lock, edits the clone and writes the file with no lock,  *)
(* then installs the clone under the write lock: everything between the    *)
(* first and the last of these steps interleaves with the other tasks.     *)
(*                                                                         *)
(* A catalog is a value; what the commands do to it is RunCommands, and    *)
(* whether the loader takes it back from the file is Loads.  Time is one   *)
(* counter, which also numbers the versions of the data files.             *)
(***************************************************************************)
EXTENDS Integers

CONSTANTS
    Editors, Refreshers, Readers,
    Catalogs,            \* every catalog the commands can produce
    InitialCatalog,      \* the content of the file when the server starts
    Batches,             \* the command lists editors send
    RunCommands(_, _),   \* run_commands: [cat |-> clone edited, ok |-> no error]
    Loads(_),            \* Engine::from_storage takes this catalog
    TornWrites,          \* a cut or running write leaves an unreadable file
    MaxNow,              \* bound on time
    MaxCrashes           \* bound on process crashes

Tasks == Editors \cup Refreshers \cup Readers

ASSUME TasksAreDistinct ==
    /\ Editors \cap Refreshers = {}
    /\ Editors \cap Readers = {}
    /\ Refreshers \cap Readers = {}

ASSUME CatalogsAreClosed ==
    /\ InitialCatalog \in Catalogs /\ Loads(InitialCatalog)
    /\ Batches # {}
    /\ \A c \in Catalogs : Loads(c) \in BOOLEAN
    /\ \A c \in Catalogs, b \in Batches :
          RunCommands(c, b) \in [cat : Catalogs, ok : BOOLEAN]

ASSUME BoundsAreNumbers ==
    MaxNow \in Nat /\ MaxCrashes \in Nat /\ TornWrites \in BOOLEAN

VARIABLES
    up,        \* the process is running
    mem,       \* the engine behind the RwLock
    file,      \* the TMSL file
    pc,        \* pc[t] : where the task is
    job,       \* job[e] : the batch, the dry-run flag and the clone of e
    built,     \* built[e] : the engine reload_model has built but not installed
    snap,      \* snap[r] : the engine r saw when it took the read lock
    answer,    \* answer[e] : how e's last apply_commands call ended
    now, crashes,
    written,   \* history: every catalog the file has completely held
    ledger,    \* history: the model after each acknowledged batch in turn
    doubtful   \* history: a save has failed since file and memory last agreed

vars == <<up, mem, file, pc, job, built, snap, answer, now, crashes,
          written, ledger, doubtful>>

history == <<written, ledger, doubtful>>

Times == 0..MaxNow

\* cat: ctx.catalog; resolved: the catalog ctx.resolved_measures was built
\* from; data: the version of the loaded tables; stamp: catalog.last_refreshed.
Engines == [cat : Catalogs, resolved : Catalogs, data : Times, stamp : Times]

\* Mutant of Built: the stamp is one tick off.
BuiltEarlier(c) == [cat |-> c, resolved |-> c, data |-> now, stamp |-> now - 1]

\* Engine::from_storage: from_model stamps the catalog with the current time.
Built(c) == [cat |-> c, resolved |-> c, data |-> now, stamp |-> now]

NoBatch == CHOOSE b \in Batches : TRUE

\* What a task holds while it has no call to work on.
NoJob == [batch |-> NoBatch, dry |-> FALSE, cat |-> InitialCatalog, stamp |-> 0]
NoEngine == [cat |-> InitialCatalog, resolved |-> InitialCatalog,
             data |-> 0, stamp |-> 0]

------------------------------------------------------------------------------
(* The RwLock.  Readers hold it while "reading", refresh_data while         *)
(* "loading"; every other acquisition is held for a single step.            *)

ReadFree == \A t \in Refreshers : pc[t] # "loading"

\* Mutant of WriteFree: a write guard that does not wait for readers.
WriteFreeIgnoringReaders == ReadFree

\* Mutant of WriteFree: the read guard of apply_commands lives as long as the
\* function, so the function waits for itself.
WriteFreeGuardKept ==
    /\ ReadFree /\ \A r \in Readers : pc[r] # "reading"
    /\ \A e \in Editors : pc[e] \notin {"save", "saving", "publish"}

WriteFree == ReadFree /\ \A r \in Readers : pc[r] # "reading"

Goto(t, label) == pc' = [pc EXCEPT ![t] = label]

\* apply_commands returns, with this answer.
Answer(e, a) ==
    /\ Goto(e, "idle")
    /\ answer' = [answer EXCEPT ![e] = a]
    /\ job' = [job EXCEPT ![e] = NoJob]

------------------------------------------------------------------------------
(* apply_commands.                                                          *)

CallApply(e, b, dry) ==
    /\ up /\ pc[e] = "idle"
    /\ job' = [job EXCEPT ![e] = [NoJob EXCEPT !.batch = b, !.dry = dry]]
    /\ answer' = [answer EXCEPT ![e] = "none"]
    /\ Goto(e, "called")
    /\ UNCHANGED <<up, mem, file, built, snap, now, crashes, history>>

\* Mutant of EndsAfterRun: only a dry run ends the call.
EndsAfterDryRun(dry, ok) == dry

\* apply_commands returns right after run_commands.
EndsAfterRun(dry, ok) == dry \/ ~ok

\* Mutant of AfterRun: the clone is installed without having been saved.
AfterRunWithoutSave == "publish"

AfterRun == "save"

\* Clone the catalog under the read lock and run the batch on the clone.
Clone(e) ==
    LET r == RunCommands(mem.cat, job[e].batch) IN
    /\ up /\ pc[e] = "called" /\ ReadFree
    /\ IF EndsAfterRun(job[e].dry, r.ok)
       THEN Answer(e, "refused")
       ELSE /\ Goto(e, AfterRun)
            /\ job' = [job EXCEPT ![e] = [@ EXCEPT !.cat = r.cat, !.stamp = mem.stamp]]
            /\ UNCHANGED answer
    /\ UNCHANGED <<up, mem, file, built, snap, now, crashes, history>>

\* save_tmsl_to_op overwrites the file in place and holds no lock: until it
\* returns, a local file holds a part of the new text.
BeginSave(e) ==
    /\ up /\ pc[e] = "save"
    /\ Goto(e, "saving")
    /\ file' = [file EXCEPT !.torn = @ \/ TornWrites]
    /\ UNCHANGED <<up, mem, job, built, snap, answer, now, crashes, history>>

\* Mutant of Saved: the engine's catalog is serialised, not the edited clone.
SavedUnedited(e) == mem.cat

Saved(e) == job[e].cat

EndSave(e) ==
    /\ up /\ pc[e] = "saving"
    /\ Goto(e, "publish")
    /\ file' = [cat |-> Saved(e), torn |-> FALSE]
    /\ written' = written \cup {Saved(e)}
    /\ doubtful' = FALSE
    /\ UNCHANGED <<up, mem, job, built, snap, answer, now, crashes, ledger>>

\* The write fails: the file stays as the cut write left it, or the whole text
\* arrived and only the confirmation was lost.
FailSave(e) ==
    /\ up /\ pc[e] = "saving"
    /\ Answer(e, "refused")
    /\ \/ UNCHANGED <<file, written>>
       \/ /\ file' = [cat |-> Saved(e), torn |-> FALSE]
          /\ written' = written \cup {Saved(e)}
    /\ doubtful' = TRUE
    /\ UNCHANGED <<up, mem, built, snap, now, crashes, ledger>>

\* Mutant of StampOf: an edit counts as a refresh.
StampOfEdit(e) == now

\* The clone brings back the last_refreshed it was made with.
StampOf(e) == job[e].stamp

\* Install the clone under the write lock; loaded tables and resolved measures
\* stay as they are.
Publish(e) ==
    /\ up /\ pc[e] = "publish" /\ WriteFree
    /\ Answer(e, "applied")
    /\ mem' = [mem EXCEPT !.cat = job[e].cat, !.stamp = StampOf(e)]
    /\ ledger' = RunCommands(ledger, job[e].batch).cat
    /\ UNCHANGED <<up, file, built, snap, now, crashes, written, doubtful>>

------------------------------------------------------------------------------
(* reload_model: a short read lock, the build with no lock, the swap.       *)

CallReload(e) ==
    /\ up /\ pc[e] = "idle"
    /\ Goto(e, "opening")
    /\ UNCHANGED <<up, mem, file, job, built, snap, answer, now, crashes, history>>

OpenReload(e) ==
    /\ up /\ pc[e] = "opening" /\ ReadFree
    /\ Goto(e, "building")
    /\ UNCHANGED <<up, mem, file, job, built, snap, answer, now, crashes, history>>

\* Engine::from_storage reads the file and then the data files; any of them
\* may fail, and then the served engine stays.
BuildReload(e) ==
    /\ up /\ pc[e] = "building"
    /\ \/ /\ ~file.torn /\ Loads(file.cat)
          /\ built' = [built EXCEPT ![e] = Built(file.cat)]
          /\ Goto(e, "swap")
       \/ /\ Goto(e, "idle")
          /\ UNCHANGED built
    /\ UNCHANGED <<up, mem, file, job, snap, answer, now, crashes, history>>

SwapReload(e) ==
    /\ up /\ pc[e] = "swap" /\ WriteFree
    /\ Goto(e, "idle")
    /\ mem' = built[e]
    /\ built' = [built EXCEPT ![e] = NoEngine]
    /\ ledger' = built[e].cat
    /\ doubtful' = FALSE
    /\ UNCHANGED <<up, file, job, snap, answer, now, crashes, written>>

------------------------------------------------------------------------------
(* refresh_data: the write lock is held while every data file is loaded.    *)

BeginRefresh(t) ==
    /\ up /\ pc[t] = "idle" /\ WriteFree
    /\ Goto(t, "loading")
    /\ UNCHANGED <<up, mem, file, job, built, snap, answer, now, crashes, history>>

\* All tables load and are swapped in with the new stamp, or nothing changes.
EndRefresh(t) ==
    /\ up /\ pc[t] = "loading"
    /\ Goto(t, "idle")
    /\ \/ mem' = [mem EXCEPT !.data = now, !.stamp = now]
       \/ UNCHANGED mem
    /\ UNCHANGED <<up, file, job, built, snap, answer, now, crashes, history>>

------------------------------------------------------------------------------
(* Queries and metadata requests: one read lock over the whole evaluation.  *)

BeginRead(r) ==
    /\ up /\ pc[r] = "idle" /\ ReadFree
    /\ Goto(r, "reading")
    /\ snap' = [snap EXCEPT ![r] = mem]
    /\ UNCHANGED <<up, mem, file, job, built, answer, now, crashes, history>>

EndRead(r) ==
    /\ up /\ pc[r] = "reading"
    /\ Goto(r, "idle")
    /\ snap' = [snap EXCEPT ![r] = NoEngine]
    /\ UNCHANGED <<up, mem, file, job, built, answer, now, crashes, history>>

------------------------------------------------------------------------------
(* The environment.                                                         *)

\* Time passes, and with it the data files get new versions.
Tick ==
    /\ now < MaxNow
    /\ now' = now + 1
    /\ UNCHANGED <<up, mem, file, pc, job, built, snap, answer, crashes, history>>

\* The process dies with everything in memory; mem is read again only after
\* Restart has replaced it.
Crash ==
    /\ up /\ crashes < MaxCrashes
    /\ up' = FALSE
    /\ crashes' = crashes + 1
    /\ pc' = [t \in Tasks |-> "idle"]
    /\ answer' = [e \in Editors |-> "none"]
    /\ job' = [e \in Editors |-> NoJob]
    /\ built' = [e \in Editors |-> NoEngine]
    /\ snap' = [r \in Readers |-> NoEngine]
    /\ UNCHANGED <<mem, file, now, history>>

\* main loads the file and panics if it cannot: then the server stays down.
Restart ==
    /\ ~up
    /\ ~file.torn /\ Loads(file.cat)
    /\ up' = TRUE
    /\ mem' = Built(file.cat)
    /\ ledger' = file.cat
    /\ doubtful' = FALSE
    /\ UNCHANGED <<file, pc, job, built, snap, answer, now, crashes, written>>

------------------------------------------------------------------------------
Init ==
    /\ up = TRUE
    /\ now = 0 /\ crashes = 0
    /\ mem = Built(InitialCatalog)
    /\ file = [cat |-> InitialCatalog, torn |-> FALSE]
    /\ pc = [t \in Tasks |-> "idle"]
    /\ job = [e \in Editors |-> NoJob]
    /\ built = [e \in Editors |-> NoEngine]
    /\ snap = [r \in Readers |-> NoEngine]
    /\ answer = [e \in Editors |-> "none"]
    /\ written = {InitialCatalog}
    /\ ledger = InitialCatalog
    /\ doubtful = FALSE

Editor(e) ==
    \/ \E b \in Batches, dry \in BOOLEAN : CallApply(e, b, dry)
    \/ Clone(e) \/ BeginSave(e) \/ EndSave(e) \/ FailSave(e) \/ Publish(e)
    \/ CallReload(e) \/ OpenReload(e) \/ BuildReload(e) \/ SwapReload(e)

Next ==
    \/ \E e \in Editors : Editor(e)
    \/ \E t \in Refreshers : BeginRefresh(t) \/ EndRefresh(t)
    \/ \E r \in Readers : BeginRead(r) \/ EndRead(r)
    \/ Tick \/ Crash \/ Restart

\* A started call is driven on by its thread, which may have to wait for the
\* lock (strong fairness: it may be taken and released again meanwhile).  No
\* call has to be made, and time, crashes and restarts are not owed.
Fairness ==
    /\ \A e \in Editors :
          /\ WF_vars(BeginSave(e))
          /\ WF_vars(EndSave(e) \/ FailSave(e))
          /\ WF_vars(BuildReload(e))
          /\ SF_vars(Clone(e)) /\ SF_vars(OpenReload(e))
          /\ SF_vars(Publish(e)) /\ SF_vars(SwapReload(e))
    /\ \A t \in Refreshers : WF_vars(EndRefresh(t))
    /\ \A r \in Readers : WF_vars(EndRead(r))

Spec == Init /\ [][Next]_vars

FairSpec == Spec /\ Fairness

------------------------------------------------------------------------------
(* Properties.                                                              *)

EditorLabels == {"idle", "called", "save", "saving", "publish",
                 "opening", "building", "swap"}

\* The values the variables take.
TypeOK ==
    /\ up \in BOOLEAN
    /\ mem \in Engines
    /\ file \in [cat : Catalogs, torn : BOOLEAN]
    /\ pc \in [Tasks -> EditorLabels \cup {"loading", "reading"}]
    /\ job \in [Editors -> [batch : Batches, dry : BOOLEAN,
                            cat : Catalogs, stamp : Times]]
    /\ built \in [Editors -> Engines]
    /\ snap \in [Readers -> Engines]
    /\ answer \in [Editors -> {"none", "applied", "refused"}]
    /\ now \in Times /\ crashes \in 0..MaxCrashes
    /\ written \subseteq Catalogs
    /\ ledger \in Catalogs
    /\ doubtful \in BOOLEAN

\* Whatever catalog clients are served, the file has held it completely
\* before: an edit is never visible before it was persisted (apply_commands
\* saves, and returns on an error, before it takes the write lock).
ServedWasSaved == mem.cat \in written

\* A request evaluates on one engine from the first table it reads to the
\* last, however long it takes and whatever is refreshed, applied or reloaded
\* meanwhile (docs/models_api.md: refreshdata is safe while queries run).
QueriesReadOneEngine ==
    \A r \in Readers : up /\ pc[r] = "reading" => snap[r] = mem

\* With one editor at a time: when no edit is under way, the file holds what
\* is served unless a save was answered with an error since, so a restart
\* comes back with the model clients see.
Settled == up /\ ~doubtful /\ \A e \in Editors : pc[e] = "idle"
SettledFileIsServed == Settled => ~file.torn /\ file.cat = mem.cat

\* Every call of apply_commands and reload_model comes to an end.
EveryCallReturns ==
    \A e \in Editors : pc[e] # "idle" ~> pc[e] = "idle"

\* Every batch acknowledged as applied is in the served model: the model is
\* what the acknowledged batches produce, run one after another
\* (docs/models_api.md: "Applies a list of schema-mutation commands to the
\* model").
NoLostUpdate == up => mem.cat = ledger

\* last_refreshed never promises newer data than queries see, even if the
\* clone of an edit was made before a refresh and is installed after it.
StampNeverAhead == up => mem.stamp <= mem.data

\* Measures evaluate the expressions of the served catalog: a command that was
\* applied changes what queries compute (the comment in apply_commands wants
\* what was added to be queried before the next restart).
MeasuresAreServed == up => mem.resolved = mem.cat

------------------------------------------------------------------------------
(* With a single editor the store implements AtomicModel.                   *)

InApply(e) == pc[e] \in {"called", "save", "saving", "publish"}

Atomic == INSTANCE AtomicModel WITH
    served <- IF up \/ file.torn THEN mem.cat ELSE file.cat,
    phase <- [e \in Editors |-> IF InApply(e) THEN "pending" ELSE answer[e]],
    request <- [e \in Editors |-> job[e].batch],
    limbo <- IF /\ up /\ ~file.torn /\ file.cat # mem.cat
                /\ \A e \in Editors : pc[e] # "publish"
             THEN {file.cat} ELSE {}

ImplementsAtomicModel == Atomic!ASpec
==============================================================================
