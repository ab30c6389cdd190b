------------------------------- MODULE Inputs --------------------------------
(* A task's input files on their way to its directory: the orchestrator sends *)
(* the task and all the pieces behind it, the agent's stream thread puts each *)
(* piece into the queue registered for the task, and the thread that prepares *)
(* the task writes them when its environment is ready, however long that      *)
(* took.  A stop of the stream loses what is under way; a release closes the  *)
(* queue registered at that moment.                                           *)
EXTENDS Naturals, Sequences, FiniteSets, SequencesExt

CONSTANTS File,        \* the declared files, in the order they are sent
          Pieces       \* data pieces of a file; its end is a message of its own

ASSUME InputsAssumption == Pieces \in Nat \ {0} /\ File # <<>>

Files == Range(File)
ClosedQueue == [file |-> "closed", last |-> TRUE]

VARIABLES wire,      \* what the orchestrator has sent and the agent not yet read
          table,     \* _inputs[task]: the registered queue, 1 or 2, or 0
          queue,     \* the two queues the task may come to have
          mine,      \* the queue the preparing thread reads
          step,        \* the preparing thread
          folder,      \* each file: "absent", "partial" or "whole"
          got        \* pieces written to each

inputVars == <<wire, table, queue, mine, step, folder, got>>

Chunks(f) == [i \in 1 .. Pieces + 1 |-> [file |-> f, last |-> i = Pieces + 1]]

(* AgentHub.submit: the task, then every piece of every file; a release, if   *)
(* there is one, comes behind them                                            *)
Sent(released) ==
    <<[file |-> "run", last |-> FALSE]>> \o FlattenSeq([i \in 1 .. Len(File) |-> Chunks(File[i])])
    \o (IF released THEN <<[file |-> "release", last |-> TRUE]>> ELSE <<>>)

InputInit ==
    /\ wire \in {Sent(TRUE), Sent(FALSE)}
    /\ table = 0 /\ queue = [q \in 1 .. 2 |-> <<>>] /\ mine = 0 /\ step = "none"
    /\ folder = [f \in Files |-> "absent"] /\ got = [f \in Files |-> 0]

Next1 == wire' = Tail(wire)
Is(kind) == wire # <<>> /\ Head(wire).file = kind

(* run: the queue exists before the thread that will read it                  *)
Run ==
    /\ Is("run") /\ Next1
    /\ table' = 1 /\ step' = "environment"
    /\ UNCHANGED <<queue, mine, folder, got>>

(* input_chunk: into the registered queue, or nowhere                         *)
InputChunk ==
    /\ wire # <<>> /\ Head(wire).file \in Files /\ Next1
    /\ queue' = IF table = 0 THEN queue ELSE [queue EXCEPT ![table] = Append(@, Head(wire))]
    /\ UNCHANGED <<table, mine, step, folder, got>>

(* _close_input: whoever waits on the queue is told                           *)
CloseInput ==
    /\ table' = 0
    /\ queue' = IF table = 0 THEN queue ELSE [queue EXCEPT ![table] = Append(@, ClosedQueue)]

ReleaseTask ==
    /\ Is("release") /\ Next1 /\ CloseInput
    /\ UNCHANGED <<mine, step, folder, got>>

StreamBreaks == wire # <<>> /\ Head(wire).file # "run" /\ wire' = <<>>
                /\ UNCHANGED <<table, queue, mine, step, folder, got>>

(* The environment is ready and _queue_for finds the queue, or, when a        *)
(* release has taken it away, makes another that nobody will fill             *)
Deliver ==
    /\ step = "environment" /\ step' = "receiving"
    /\ mine' = IF table = 0 THEN 2 ELSE table
    /\ table' = IF table = 0 THEN 2 ELSE table
    /\ UNCHANGED <<wire, queue, folder, got>>

Wrote(f, n) == got' = [got EXCEPT ![f] = n]

(* Whatever goes wrong, every open file is aborted and the task refused       *)
Abort == folder' = [f \in Files |-> IF folder[f] = "partial" THEN "absent" ELSE folder[f]]
Refuse == step' = "refused" /\ Abort /\ CloseInput

EnvironmentFails == step = "environment" /\ Refuse /\ UNCHANGED <<wire, mine, got>>

Done_First == folder[File[1]] = "whole"
Done == \A f \in Files : folder[f] = "whole"
Take == step = "receiving" /\ ~Done /\ queue[mine] # <<>>
Taken(q) == [q EXCEPT ![mine] = Tail(@)]

Write ==
    /\ Take /\ LET m == Head(queue[mine]) IN
       /\ m.file \in Files /\ ~m.last
       /\ folder' = [folder EXCEPT ![m.file] = "partial"] /\ Wrote(m.file, got[m.file] + 1)
    /\ queue' = Taken(queue)
    /\ UNCHANGED <<wire, table, mine, step>>

(* IncomingFile.finish: size and digest, then the rename                      *)
Complete(f) == got[f] = Pieces
Finish ==
    /\ Take /\ LET m == Head(queue[mine]) IN
       /\ m.file \in Files /\ m.last /\ Complete(m.file)
       /\ folder' = [folder EXCEPT ![m.file] = "whole"]
    /\ queue' = Taken(queue)
    /\ UNCHANGED <<wire, table, mine, step, got>>
FinishFails ==
    /\ Take /\ LET m == Head(queue[mine]) IN m.file \in Files /\ m.last /\ ~Complete(m.file)
    /\ Refuse /\ UNCHANGED <<wire, mine, got>>

Interrupted == /\ Take /\ Head(queue[mine]) = ClosedQueue
               /\ Refuse /\ UNCHANGED <<wire, mine, got>>

(* nothing came for INPUT_IDLE_TIMEOUT_S                                      *)
IdleTimeout == /\ step = "receiving" /\ ~Done /\ queue[mine] = <<>>
               /\ Refuse /\ UNCHANGED <<wire, mine, got>>

StartTask ==
    /\ step = "receiving" /\ Done /\ step' = "started" /\ CloseInput
    /\ UNCHANGED <<wire, mine, folder, got>>

Preparing == \/ Deliver \/ EnvironmentFails \/ Write \/ Finish \/ FinishFails
             \/ Interrupted \/ IdleTimeout \/ StartTask
InputNext == Run \/ InputChunk \/ ReleaseTask \/ StreamBreaks \/ Preparing

InputSpec == InputInit /\ [][InputNext]_inputVars
----------------------------------------------------------------------------
(* "A task must never see an input that is half a file" (files.py): it starts *)
(* with every declared file whole and none in the making, and a refused one   *)
(* leaves no partial file behind.                                             *)
InputIsWhole ==
    /\ step = "started" => \A f \in Files : folder[f] = "whole"
    /\ \A f \in Files : folder[f] = "whole" => got[f] = Pieces
    /\ step = "refused" => \A f \in Files : folder[f] # "partial"

=============================================================================
