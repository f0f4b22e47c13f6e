----------------------------- MODULE ThreadPool -----------------------------
(* The scan of a directory by the command line: boreal-cli/src/main.rs.       *)
(* The main thread walks the directory and sends the paths of the files on a  *)
(* bounded channel; each worker receives a path, scans the file and displays  *)
(* the results on the shared standard output.                                 *)
EXTENDS Integers, Sequences, FiniteSets

CONSTANTS
    Entries,        \* what the walk gives: sequence of [path, skipped]
    Threads,        \* values of --threads, Unset for none
    Unset,
    Parallelism,    \* available_parallelism()
    SlotsPerWorker, \* 5 in the code
    ModuleLines,    \* lines of module data displayed for a file
    RuleLines,      \* lines of matched rules displayed for a file
    PanicSets,      \* sets of paths whose handling may panic
    Nobody

ASSUME LinesAssumption == ModuleLines \in Nat /\ RuleLines \in Nat
ASSUME SlotsAssumption == SlotsPerWorker \in Nat \ {0}
ASSUME ThreadsAssumption ==
    /\ \A t \in Threads \ {Unset} : t \in Nat
    /\ Parallelism \in Nat
\* The walk gives a file once; Nobody is neither a path nor a worker.
ASSUME EntriesAssumption ==
    /\ Len(Entries) \in Nat /\ DOMAIN Entries = 1 .. Len(Entries)
    /\ \A j, k \in DOMAIN Entries :
          ~Entries[j].skipped /\ Entries[j].path = Entries[k].path => j = k
    /\ \A k \in DOMAIN Entries : Entries[k].path # Nobody
ASSUME NobodyAssumption == Nobody \notin Nat

VARIABLES
    threads,     \* the argument
    may_panic,   \* the paths whose handling may panic
    main,        \* "sending", "joining", then how the process ends
    walked,      \* entries walked, then threads joined
    queue,       \* the channel
    pc,          \* state of every worker
    path,        \* path every worker handles
    printed,     \* lines of its phase every worker has displayed
    stdout,      \* worker that holds the lock of the standard output
    last,        \* path of the last line displayed
    finished     \* paths handled to the end

vars == <<threads, may_panic, main, walked, queue, pc, path, printed, stdout,
          last, finished>>
config == <<threads, may_panic>>
worker == <<pc, path, printed>>

Min2(a, b) == IF a < b THEN a ELSE b

\* ThreadPool::new
nb_cpus == IF threads = Unset THEN Parallelism ELSE Min2(1, threads)
Workers == 1 .. nb_cpus
Capacity == nb_cpus * SlotsPerWorker

Paths == {Entries[k].path : k \in {j \in DOMAIN Entries : ~Entries[j].skipped}}

Stopped == {"ended", "panicked"}
Displaying == {"modules", "rules"}

Init ==
    /\ threads \in Threads
    /\ may_panic \in PanicSets
    /\ main = "sending"
    /\ walked = 0
    /\ queue = <<>>
    /\ pc = [w \in Workers |-> "receive"]
    /\ path = [w \in Workers |-> Nobody]
    /\ printed = [w \in Workers |-> 0]
    /\ stdout = Nobody
    /\ last = Nobody
    /\ finished = {}

\* The process ends with its main thread.
Running == main \in {"sending", "joining"}

-----------------------------------------------------------------------------
(* The main thread: send_directory, the drop of the sender, join. *)

Entry == Entries[walked + 1]
Receivers == {w \in Workers : pc[w] \notin Stopped}

SkipEntry ==
    /\ main = "sending"
    /\ walked < Len(Entries)
    /\ Entry.skipped
    /\ walked' = walked + 1
    /\ UNCHANGED <<config, main, queue, worker, stdout, last, finished>>

\* send blocks while the channel is full.
Send ==
    /\ main = "sending"
    /\ walked < Len(Entries)
    /\ ~Entry.skipped
    /\ Receivers # {}
    /\ Len(queue) < Capacity
    /\ queue' = Append(queue, Entry.path)
    /\ walked' = walked + 1
    /\ UNCHANGED <<config, main, worker, stdout, last, finished>>

\* Without receivers left, send fails and its result is unwrapped.
SendFails ==
    /\ main = "sending"
    /\ walked < Len(Entries)
    /\ ~Entry.skipped
    /\ Receivers = {}
    /\ main' = "panicked"
    /\ UNCHANGED <<config, walked, queue, worker, stdout, last, finished>>

DropSender ==
    /\ main = "sending"
    /\ walked = Len(Entries)
    /\ main' = "joining"
    /\ walked' = 0
    /\ UNCHANGED <<config, queue, worker, stdout, last, finished>>

\* Mutation: the result of a joined thread is not looked at.
JoinIgnoresPanic ==
    /\ main = "joining"
    /\ walked < nb_cpus
    /\ pc[walked + 1] \in Stopped
    /\ walked' = walked + 1
    /\ UNCHANGED <<config, main, queue, worker, stdout, last, finished>>

\* The threads are joined in order; the panic of a worker is unwrapped.
Join ==
    /\ main = "joining"
    /\ walked < nb_cpus
    /\ pc[walked + 1] \in Stopped
    /\ IF pc[walked + 1] = "ended"
       THEN walked' = walked + 1 /\ UNCHANGED main
       ELSE main' = "panicked" /\ UNCHANGED walked
    /\ UNCHANGED <<config, queue, worker, stdout, last, finished>>

Exit ==
    /\ main = "joining"
    /\ walked = nb_cpus
    /\ main' = "success"
    /\ UNCHANGED <<config, walked, queue, worker, stdout, last, finished>>

-----------------------------------------------------------------------------
(* A worker: worker_thread, scan_file, display_scan_results. *)

\* Mutation: a path is received, and stays for others.
ReceiveShared(w) ==
    /\ Running
    /\ pc[w] = "receive"
    /\ queue # <<>>
    /\ path' = [path EXCEPT ![w] = Head(queue)]
    /\ pc' = [pc EXCEPT ![w] = "scan"]
    /\ UNCHANGED <<config, main, walked, queue, printed, stdout, last, finished>>

Receive(w) ==
    /\ Running
    /\ pc[w] = "receive"
    /\ queue # <<>>
    /\ path' = [path EXCEPT ![w] = Head(queue)]
    /\ queue' = Tail(queue)
    /\ pc' = [pc EXCEPT ![w] = "scan"]
    /\ UNCHANGED <<config, main, walked, printed, stdout, last, finished>>

\* Mutation: an empty channel ends the worker (try_recv for recv).
EndWhenEmpty(w) ==
    /\ Running
    /\ pc[w] = "receive"
    /\ queue = <<>>
    /\ pc' = [pc EXCEPT ![w] = "ended"]
    /\ UNCHANGED <<config, main, walked, queue, path, printed, stdout, last, finished>>

\* The channel is empty and its sender is gone.
End(w) ==
    /\ Running
    /\ pc[w] = "receive"
    /\ queue = <<>>
    /\ main = "joining"
    /\ pc' = [pc EXCEPT ![w] = "ended"]
    /\ UNCHANGED <<config, main, walked, queue, path, printed, stdout, last, finished>>

\* The scan returns, with results to display in all cases.
Scanned(w) ==
    /\ Running
    /\ pc[w] = "scan"
    /\ pc' = [pc EXCEPT ![w] = "modules"]
    /\ printed' = [printed EXCEPT ![w] = 0]
    /\ UNCHANGED <<config, main, walked, queue, path, stdout, last, finished>>

\* print! and println! lock the standard output for their own line.
PrintModuleLine(w) ==
    /\ Running
    /\ pc[w] = "modules"
    /\ printed[w] < ModuleLines
    /\ stdout = Nobody
    /\ last' = path[w]
    /\ printed' = [printed EXCEPT ![w] = @ + 1]
    /\ UNCHANGED <<config, main, walked, queue, pc, path, stdout, finished>>

\* Mutation: the standard output is not locked for the rules.
LockStdoutNever(w) ==
    /\ Running
    /\ pc[w] = "modules"
    /\ printed[w] = ModuleLines
    /\ pc' = [pc EXCEPT ![w] = "rules"]
    /\ printed' = [printed EXCEPT ![w] = 0]
    /\ UNCHANGED <<config, main, walked, queue, path, stdout, last, finished>>

LockStdout(w) ==
    /\ Running
    /\ pc[w] = "modules"
    /\ printed[w] = ModuleLines
    /\ stdout = Nobody
    /\ stdout' = w
    /\ pc' = [pc EXCEPT ![w] = "rules"]
    /\ printed' = [printed EXCEPT ![w] = 0]
    /\ UNCHANGED <<config, main, walked, queue, path, last, finished>>

PrintRuleLine(w) ==
    /\ Running
    /\ pc[w] = "rules"
    /\ printed[w] < RuleLines
    /\ last' = path[w]
    /\ printed' = [printed EXCEPT ![w] = @ + 1]
    /\ UNCHANGED <<config, main, walked, queue, pc, path, stdout, finished>>

\* display_scan_results returns, and the lock is dropped.
Displayed(w) ==
    /\ Running
    /\ pc[w] = "rules"
    /\ printed[w] = RuleLines
    /\ stdout' = IF stdout = w THEN Nobody ELSE stdout
    /\ finished' = finished \cup {path[w]}
    /\ pc' = [pc EXCEPT ![w] = "receive"]
    /\ path' = [path EXCEPT ![w] = Nobody]
    /\ printed' = [printed EXCEPT ![w] = 0]
    /\ UNCHANGED <<config, main, walked, queue, last>>

\* Mutation: a thread that unwinds keeps the lock.
PanicLocked(w) ==
    /\ Running
    /\ pc[w] \in {"scan"} \cup Displaying
    /\ path[w] \in may_panic
    /\ pc' = [pc EXCEPT ![w] = "panicked"]
    /\ UNCHANGED <<config, main, walked, queue, path, printed, stdout, last, finished>>

\* The scan or a write panics: the thread unwinds, with its lock and its end of
\* the channel; what it was handling is not finished.
Panic(w) ==
    /\ Running
    /\ pc[w] \in {"scan"} \cup Displaying
    /\ path[w] \in may_panic
    /\ pc' = [pc EXCEPT ![w] = "panicked"]
    /\ stdout' = IF stdout = w THEN Nobody ELSE stdout
    /\ UNCHANGED <<config, main, walked, queue, path, printed, last, finished>>

MainStep == SkipEntry \/ Send \/ SendFails \/ DropSender \/ Join \/ Exit
WorkerStep(w) ==
    \/ Receive(w) \/ End(w) \/ Scanned(w)
    \/ PrintModuleLine(w) \/ LockStdout(w) \/ PrintRuleLine(w) \/ Displayed(w)

Terminated == ~Running /\ UNCHANGED vars

Next ==
    \/ MainStep
    \/ \E w \in Workers : WorkerStep(w) \/ Panic(w)
    \/ Terminated

\* Every thread is scheduled, and every scan returns; a panic is never due.  The
\* lock of the standard output needs no fairness of its own: the files that are
\* displayed before its next holder are finitely many.
MaxWorkers == 1 .. (IF Unset \in Threads /\ Parallelism > 1 THEN Parallelism ELSE 1)
Fairness ==
    /\ WF_vars(MainStep)
    /\ \A w \in MaxWorkers : WF_vars(w \in Workers /\ WorkerStep(w))

Spec == Init /\ [][Next]_vars
FairSpec == Spec /\ Fairness

-----------------------------------------------------------------------------
(* Properties. *)

\* A file is handled once: its path is in one place only, the channel, a worker
\* (which may have panicked with it) or among the files done.
HandledOnce ==
    \A p \in Paths :
        LET waiting  == {k \in DOMAIN queue : queue[k] = p}
            handling == {w \in Workers : path[w] = p}
        IN  Cardinality(waiting) + Cardinality(handling)
            + (IF p \in finished THEN 1 ELSE 0) <= 1

\* A process that exits with success has handled every file of the walk: no
\* worker stopped early, nothing was left in the channel.
SuccessMeansAllDone == main = "success" => finished = Paths

\* The lines of the matched rules of a file are not interrupted by others.
RuleLinesTogether ==
    \A w \in Workers : pc[w] = "rules" /\ printed[w] > 0 => last = path[w]

\* The process ends: when every worker has panicked too, with the walk blocked
\* on a full channel or the join waiting.
Terminates == <>~Running

\* Every file is handled when there is a worker and none panics.
EveryFileDone == may_panic = {} /\ nb_cpus > 0 => <>(finished = Paths)
=============================================================================
