----------------------------- MODULE AtomicModel -----------------------------
(***************************************************************************)
(* What one served model promises to the people who edit it: a batch of    *)
(* commands takes effect at one instant, on the model of that instant, or  *)
(* not at all, and the answer says which.  No engine, file, lock or clone  *)
(* appears here.  ModelStore.tla is the code that implements it.           *)
(*                                                                         *)
(* The one thing the promise leaves open is a batch whose fate its sender  *)
(* was never told: the save was answered with an error, or the process     *)
(* died.  Its result stays in limbo and may be adopted by a later reload.  *)
(***************************************************************************)
CONSTANTS
    Editors,            \* callers of apply_commands
    Catalogs,           \* the models a client can be shown
    Batches,            \* the command lists a client can send
    NoBatch,            \* stands for the batch of an editor that waits for none
    RunCommands(_, _)   \* RunCommands(c, b) = [cat |-> ..., ok |-> ...]

VARIABLES
    served,    \* the model clients see
    phase,     \* phase[e] : where e's last request stands
    request,   \* request[e] : the batch e waits for
    limbo      \* results that may still surface

avars == <<served, phase, request, limbo>>

AInit ==
    /\ served \in Catalogs
    /\ phase = [e \in Editors |-> "none"]
    /\ request = [e \in Editors |-> NoBatch]
    /\ limbo = {}

Submit(e) ==
    /\ phase[e] # "pending"
    /\ phase' = [phase EXCEPT ![e] = "pending"]
    /\ \E b \in Batches : request' = [request EXCEPT ![e] = b]
    /\ UNCHANGED <<served, limbo>>

\* The whole batch, on the model served at this very moment.
Commit(e) ==
    LET r == RunCommands(served, request[e]) IN
    /\ phase[e] = "pending"
    /\ r.ok
    /\ served' = r.cat
    /\ phase' = [phase EXCEPT ![e] = "applied"]
    /\ limbo' = {}
    /\ request' = [request EXCEPT ![e] = NoBatch]

\* Dry run, failed command, or failed save.  Only the last leaves a result
\* that may surface later.
Refuse(e) ==
    LET r == RunCommands(served, request[e]) IN
    /\ phase[e] = "pending"
    /\ phase' = [phase EXCEPT ![e] = "refused"]
    /\ limbo' \subseteq limbo \cup (IF r.ok THEN {r.cat} ELSE {})
    /\ request' = [request EXCEPT ![e] = NoBatch]
    /\ UNCHANGED served

\* A reload adopts what is in limbo, or finds what is already served.
Adopt ==
    /\ served' \in {served} \cup limbo
    /\ limbo' \subseteq limbo
    /\ UNCHANGED <<phase, request>>

\* The process dies: nobody is told anything any more, and each pending batch
\* may or may not turn out to have taken effect.
Crash ==
    /\ served' \in {served} \cup limbo \cup
            {RunCommands(served, request[e]).cat :
                e \in {d \in Editors : phase[d] = "pending"
                                       /\ RunCommands(served, request[d]).ok}}
    /\ limbo' \subseteq limbo
    /\ phase' = [e \in Editors |-> "none"]
    /\ request' = [e \in Editors |-> NoBatch]

ANext ==
    \/ \E e \in Editors : Submit(e) \/ Commit(e) \/ Refuse(e)
    \/ Adopt
    \/ Crash

ASpec == AInit /\ [][ANext]_avars
==============================================================================
