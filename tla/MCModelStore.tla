---------------------------- MODULE MCModelStore ----------------------------
(* Small instances of ModelStore: a catalog is a set of named objects, and  *)
(* a batch creates or deletes objects, failing as create_* and delete_* of  *)
(* catalog/mod.rs do when the object is already there or is missing.        *)
EXTENDS ModelStore, FiniteSets, Sequences, SequencesExt

CONSTANTS Names,      \* objects a command can name
          Unloadable  \* names the commands accept and the loader refuses

Create(n) == [op |-> "create", name |-> n]
Delete(n) == [op |-> "delete", name |-> n]

MCCatalogs == SUBSET Names

Accepts(cat, cmd) == (cmd.name \in cat) = (cmd.op = "delete")

\* One command on the outcome so far; the first failure stops the run.
Step(r, cmd) ==
    IF ~r.ok \/ ~Accepts(r.cat, cmd) THEN [r EXCEPT !.ok = FALSE]
    ELSE [r EXCEPT !.cat = IF cmd.op = "create" THEN @ \cup {cmd.name}
                           ELSE @ \ {cmd.name}]

MCRunCommands(cat, batch) == FoldLeft(Step, [cat |-> cat, ok |-> TRUE], batch)

MCLoads(cat) == cat \cap Unloadable = {}

\* Single commands, and a batch whose second
\* command fails on every catalog that accepts the first.
MCBatches == {<<Create(n)>> : n \in Names}
             \cup {<<Delete(n)>> : n \in Names \ Unloadable}
             \cup {<<Create(n), Create(n)>> : n \in Names \ Unloadable}

MCCreations == {<<Create(n)>> : n \in Names}

MCInitial == {}
=============================================================================
