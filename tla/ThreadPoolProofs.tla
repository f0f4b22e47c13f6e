-------------------------- MODULE ThreadPoolProofs --------------------------
(* For any walk, any number of workers and any panics: a file is in one place *)
(* at a time, none is lost on the way to a success, and the lines of matched  *)
(* rules of a file are together.                                              *)
EXTENDS ThreadPool, SequenceTheorems, FiniteSetTheorems, TLAPS

-----------------------------------------------------------------------------
(* The invariant: five named parts. *)

MainStates == {"sending", "joining", "success", "panicked"}
WorkerStates == {"receive", "scan"} \cup Displaying \cup Stopped

Types ==
    /\ threads \in Threads
    /\ main \in MainStates
    /\ main = "sending" => walked \in 0 .. Len(Entries)
    /\ main \in {"joining", "success"} => walked \in 0 .. nb_cpus
    /\ queue \in Seq(Paths)
    /\ pc \in [Workers -> WorkerStates]
    /\ path \in [Workers -> Paths \cup {Nobody}]
    /\ printed \in [Workers -> Nat]
    /\ stdout \in Workers \cup {Nobody}
    /\ finished \subseteq Paths

\* What the walk has given to send.
PathsUpTo(n) == {Entries[k].path : k \in {j \in 1 .. n : ~Entries[j].skipped}}
Sent == IF main = "sending" THEN PathsUpTo(walked) ELSE Paths

\* A worker has a path from Receive until it is displayed, or for ever when it
\* panics.
Handling == \A w \in Workers : path[w] = Nobody <=> pc[w] \in {"receive", "ended"}

\* The channel, the workers and the files done share no path that was sent.
Apart ==
    /\ finished \subseteq Sent
    /\ \A i \in DOMAIN queue : queue[i] \in Sent /\ queue[i] \notin finished
    /\ \A i, j \in DOMAIN queue : queue[i] = queue[j] => i = j
    /\ \A w \in Workers : path[w] # Nobody =>
          /\ path[w] \in Sent /\ path[w] \notin finished
          /\ \A i \in DOMAIN queue : queue[i] # path[w]
          /\ \A v \in Workers : path[v] = path[w] => v = w

\* And they have all of it, until the main thread panics. A worker ends on an
\* empty channel that nothing is sent on any more, and the main thread passes the
\* workers that ended.
Kept ==
    /\ main # "panicked" =>
          \A p \in Sent : \/ \E i \in DOMAIN queue : queue[i] = p
                          \/ \E w \in Workers : path[w] = p
                          \/ p \in finished
    /\ queue # <<>> => nb_cpus # 0
    /\ \A w \in Workers : pc[w] = "ended" => queue = <<>> /\ main # "sending"
    /\ main \in {"joining", "success"} => \A w \in 1 .. walked : pc[w] = "ended"
    /\ main = "success" => walked = nb_cpus

\* The lock is held by the worker that displays rules, and by it alone.
Locked ==
    /\ \A w \in Workers : pc[w] = "rules" <=> stdout = w
    /\ RuleLinesTogether

IInv == Types /\ Handling /\ Apart /\ Kept /\ Locked
-----------------------------------------------------------------------------
(* Lemmas. *)

LEMMA Numbers ==
    ASSUME threads \in Threads
    PROVE  nb_cpus \in Nat
  BY ThreadsAssumption DEF nb_cpus, Min2

LEMMA SameWorkers ==
    ASSUME UNCHANGED threads
    PROVE  nb_cpus' = nb_cpus /\ Workers' = Workers
  BY DEF nb_cpus, Workers

\* One more entry is walked: a skipped one changes nothing, another adds its
\* path, which was not sent before.
LEMMA PathsGrow ==
    ASSUME NEW n \in Nat, n < Len(Entries)
    PROVE  /\ Entries[n + 1].skipped => PathsUpTo(n + 1) = PathsUpTo(n)
           /\ ~Entries[n + 1].skipped =>
                 /\ PathsUpTo(n + 1) = PathsUpTo(n) \cup {Entries[n + 1].path}
                 /\ Entries[n + 1].path \notin PathsUpTo(n)
                 /\ Entries[n + 1].path \in Paths
                 /\ Entries[n + 1].path # Nobody
  <1>1. 1 .. n + 1 = (1 .. n) \cup {n + 1} /\ n + 1 \in DOMAIN Entries
    BY EntriesAssumption
  <1>2. ASSUME NEW j \in 1 .. n, ~Entries[j].skipped
        PROVE  Entries[n + 1].skipped \/ Entries[j].path # Entries[n + 1].path
    BY <1>1, <1>2, EntriesAssumption
  <1> QED
    BY <1>1, <1>2, EntriesAssumption DEF PathsUpTo, Paths

LEMMA AllWalked == PathsUpTo(Len(Entries)) = Paths /\ PathsUpTo(0) = {}
  BY EntriesAssumption DEF PathsUpTo, Paths

LEMMA NobodyIsNoPath == Nobody \notin Paths
  BY EntriesAssumption DEF Paths

LEMMA NobodyIsNoWorker ==
    ASSUME threads \in Threads
    PROVE  Nobody \notin Workers
  BY NobodyAssumption, Numbers DEF Workers

\* The channel by its positions, when a path is received.
LEMMA TailOfQueue ==
    ASSUME queue \in Seq(Paths), queue # <<>>
    PROVE  /\ Tail(queue) \in Seq(Paths)
           /\ Head(queue) = queue[1] /\ 1 \in DOMAIN queue
           /\ DOMAIN Tail(queue) = 1 .. Len(queue) - 1
           /\ DOMAIN queue = 1 .. Len(queue) /\ Len(queue) \in Nat
           /\ \A i \in 1 .. Len(queue) - 1 : Tail(queue)[i] = queue[i + 1]
  BY HeadTailProperties, LenProperties, EmptySeq

LEMMA LongerQueue ==
    ASSUME queue \in Seq(Paths), NEW p \in Paths
    PROVE  /\ Append(queue, p) \in Seq(Paths)
           /\ Append(queue, p) # <<>>
           /\ DOMAIN Append(queue, p) = 1 .. Len(queue) + 1
           /\ DOMAIN queue = 1 .. Len(queue) /\ Len(queue) \in Nat
           /\ \A i \in 1 .. Len(queue) : Append(queue, p)[i] = queue[i]
           /\ Append(queue, p)[Len(queue) + 1] = p
  BY AppendProperties, LenProperties

-----------------------------------------------------------------------------
(* The initial states. *)

LEMMA InitInv == Init => IInv
  <1> SUFFICES ASSUME Init
               PROVE  IInv
    OBVIOUS
  <1> USE DEF Init
  <1>1. nb_cpus \in Nat /\ Len(Entries) \in Nat
    BY Numbers, EntriesAssumption
  <1>2. Types
    BY <1>1 DEF Types, MainStates, WorkerStates
  <1>3. Handling
    BY DEF Handling
  <1>4. Apart
    BY DEF Apart
  <1>5. Kept
    BY AllWalked DEF Kept, Sent
  <1>6. Locked
    BY NobodyIsNoWorker DEF Locked, RuleLinesTogether
  <1> QED
    BY <1>2, <1>3, <1>4, <1>5, <1>6 DEF IInv

-----------------------------------------------------------------------------
(* The main thread. *)

LEMMA MainKeeps ==
    ASSUME IInv, MainStep
    PROVE  IInv'
  <1> USE DEF IInv
  <1>0. /\ UNCHANGED <<threads, may_panic, pc, path, printed, stdout, last, finished>>
        /\ nb_cpus' = nb_cpus /\ Workers' = Workers /\ nb_cpus \in Nat
        /\ Len(Entries) \in Nat
    BY SameWorkers, Numbers, EntriesAssumption
       DEF MainStep, SkipEntry, Send, SendFails, DropSender, Join, Exit, config, worker, Types
  <1>1. Handling' /\ Locked'
    BY <1>0 DEF Handling, Locked, RuleLinesTogether
  <1>2. CASE SkipEntry
    <2>1. /\ main = "sending" /\ walked < Len(Entries) /\ Entries[walked + 1].skipped
          /\ walked' = walked + 1 /\ UNCHANGED <<main, queue>>
      BY <1>2 DEF SkipEntry, Entry
    <2>2. Types'
      BY <1>0, <2>1 DEF Types, MainStates
    <2>3. Sent' = Sent
      BY <2>1, PathsGrow DEF Sent, Types
    <2>4. Apart'
      BY <1>0, <2>1, <2>3 DEF Apart
    <2>5. Kept'
      BY <1>0, <2>1, <2>3 DEF Kept
    <2> QED
      BY <1>1, <2>2, <2>4, <2>5
  <1>3. CASE Send
    <2> DEFINE p == Entries[walked + 1].path
    <2>1. /\ main = "sending" /\ walked < Len(Entries) /\ ~Entries[walked + 1].skipped
          /\ walked' = walked + 1 /\ main' = main /\ queue' = Append(queue, p)
          /\ Receivers # {}
      BY <1>3 DEF Send, Entry
    <2>2. /\ Sent' = Sent \cup {p} /\ p \notin Sent /\ p \in Paths /\ p # Nobody
      BY <2>1, PathsGrow DEF Sent, Types
    <2>3. /\ queue' \in Seq(Paths) /\ queue' # <<>>
          /\ DOMAIN queue = 1 .. Len(queue) /\ Len(queue) \in Nat
          /\ DOMAIN queue' = 1 .. Len(queue) + 1
          /\ \A i \in 1 .. Len(queue) : queue'[i] = queue[i]
          /\ queue'[Len(queue) + 1] = p
      BY <2>1, <2>2, LongerQueue DEF Types
    <2> HIDE DEF p
    <2>4. Types'
      BY <1>0, <2>1, <2>3 DEF Types, MainStates
    <2>5. \A i \in DOMAIN queue' : \/ i \in DOMAIN queue /\ queue'[i] = queue[i]
                                   \/ i = Len(queue) + 1 /\ queue'[i] = p
      BY <2>3
    <2>6. Apart'
      <3>1. finished' \subseteq Sent'
        BY <1>0, <2>2 DEF Apart
      <3>2. \A i \in DOMAIN queue' : queue'[i] \in Sent' /\ queue'[i] \notin finished'
        BY <1>0, <2>2, <2>5 DEF Apart
      <3>3. \A i, j \in DOMAIN queue' : queue'[i] = queue'[j] => i = j
        BY <2>2, <2>5 DEF Apart
      <3>4. \A w \in Workers' : path'[w] # Nobody =>
              /\ path'[w] \in Sent' /\ path'[w] \notin finished'
              /\ \A i \in DOMAIN queue' : queue'[i] # path'[w]
              /\ \A v \in Workers' : path'[v] = path'[w] => v = w
        BY <1>0, <2>2, <2>5 DEF Apart
      <3> QED
        BY <3>1, <3>2, <3>3, <3>4 DEF Apart
    <2>7. Kept'
      <3>1. \A q \in Sent' : \/ \E i \in DOMAIN queue' : queue'[i] = q
                             \/ \E w \in Workers' : path'[w] = q
                             \/ q \in finished'
        <4>1. \A q \in Sent : \/ \E i \in DOMAIN queue : queue[i] = q
                              \/ \E w \in Workers : path[w] = q
                              \/ q \in finished
          BY <2>1 DEF Kept
        <4>2. DOMAIN queue \subseteq DOMAIN queue' /\ Len(queue) + 1 \in DOMAIN queue'
          BY <2>3
        <4> QED
          BY <1>0, <2>2, <2>3, <4>1, <4>2
      <3>2. nb_cpus' # 0
        BY <1>0, <2>1 DEF Receivers, Workers
      <3>3. \A w \in Workers' : pc'[w] # "ended"
        BY <1>0, <2>1 DEF Kept
      <3> QED
        BY <2>1, <3>1, <3>2, <3>3 DEF Kept
    <2> QED
      BY <1>1, <2>4, <2>6, <2>7
  <1>4. CASE SendFails
    <2>1. main = "sending" /\ main' = "panicked" /\ UNCHANGED <<walked, queue>>
      BY <1>4 DEF SendFails
    <2>2. Types'
      BY <1>0, <2>1 DEF Types, MainStates
    <2>3. Apart'
      <3>1. \A i \in DOMAIN queue : queue[i] \in Paths
        BY LenProperties, ElementOfSeq DEF Types
      <3>2. Sent' = Paths
        BY <2>1 DEF Sent, Paths
      <3> QED
        BY <1>0, <2>1, <3>1, <3>2 DEF Apart, Types
    <2>4. Kept'
      BY <1>0, <2>1 DEF Kept
    <2> QED
      BY <1>1, <2>2, <2>3, <2>4
  <1>5. CASE DropSender
    <2>1. /\ main = "sending" /\ walked = Len(Entries)
          /\ main' = "joining" /\ walked' = 0 /\ UNCHANGED queue
      BY <1>5 DEF DropSender
    <2>2. Types'
      BY <1>0, <2>1 DEF Types, MainStates
    <2>3. Sent' = Sent
      BY <2>1, AllWalked DEF Sent
    <2>4. Apart'
      BY <1>0, <2>1, <2>3 DEF Apart
    <2>5. Kept'
      BY <1>0, <2>1, <2>3 DEF Kept
    <2> QED
      BY <1>1, <2>2, <2>4, <2>5
  <1>6. CASE Join
    <2>1. /\ main = "joining" /\ walked < nb_cpus /\ pc[walked + 1] \in Stopped
          /\ \/ pc[walked + 1] = "ended" /\ walked' = walked + 1 /\ main' = main
             \/ main' = "panicked" /\ walked' = walked
          /\ UNCHANGED queue
      BY <1>6 DEF Join
    <2>2. Types'
      BY <1>0, <2>1 DEF Types, MainStates
    <2>3. Sent' = Sent
      BY <2>1 DEF Sent, Paths
    <2>4. Apart'
      BY <1>0, <2>1, <2>3 DEF Apart
    <2>5. walked \in Nat /\ 1 .. walked + 1 = (1 .. walked) \cup {walked + 1}
      BY <1>0, <2>1 DEF Types
    <2>6. Kept'
      BY <1>0, <2>1, <2>3, <2>5 DEF Kept
    <2> QED
      BY <1>1, <2>2, <2>4, <2>6
  <1>7. CASE Exit
    <2>1. /\ main = "joining" /\ walked = nb_cpus /\ main' = "success"
          /\ UNCHANGED <<walked, queue>>
      BY <1>7 DEF Exit
    <2>2. Types'
      BY <1>0, <2>1 DEF Types, MainStates
    <2>3. Sent' = Sent
      BY <2>1 DEF Sent, Paths
    <2>4. Apart'
      BY <1>0, <2>1, <2>3 DEF Apart
    <2>5. Kept'
      BY <1>0, <2>1, <2>3 DEF Kept
    <2> QED
      BY <1>1, <2>2, <2>4, <2>5
  <1> QED
    BY <1>2, <1>3, <1>4, <1>5, <1>6, <1>7 DEF MainStep

-----------------------------------------------------------------------------
(* A worker. *)

\* What a worker displays concerns the lock and the order of the lines only.
LEMMA DisplayKeeps ==
    ASSUME IInv, NEW w \in Workers,
           Scanned(w) \/ PrintModuleLine(w) \/ LockStdout(w) \/ PrintRuleLine(w)
    PROVE  IInv'
  <1> USE DEF IInv
  <1>0. /\ UNCHANGED <<threads, may_panic, main, walked, queue, path, finished>>
        /\ nb_cpus' = nb_cpus /\ Workers' = Workers /\ nb_cpus \in Nat
        /\ Nobody \notin Workers
        /\ pc[w] \in {"scan", "modules", "rules"}
        /\ \A v \in Workers : v # w => pc'[v] = pc[v] /\ printed'[v] = printed[v]
    BY SameWorkers, Numbers, NobodyIsNoWorker
       DEF Scanned, PrintModuleLine, LockStdout, PrintRuleLine, config, Types
  <1>1. pc' \in [Workers -> WorkerStates] /\ pc'[w] \in {"modules", "rules"}
    BY <1>0 DEF Scanned, PrintModuleLine, LockStdout, PrintRuleLine, Types, WorkerStates,
                Displaying
  <1>2. printed' \in [Workers -> Nat] /\ stdout' \in Workers \cup {Nobody}
    BY <1>0 DEF Scanned, PrintModuleLine, LockStdout, PrintRuleLine, Types
  <1>3. Types'
    BY <1>0, <1>1, <1>2 DEF Types
  <1>4. Handling'
    BY <1>0, <1>1 DEF Handling
  <1>5. Sent' = Sent
    BY <1>0 DEF Sent, PathsUpTo, Paths
  <1>6. Apart'
    BY <1>0, <1>5 DEF Apart
  <1>7. Kept'
    <2>1. \A v \in Workers : pc'[v] = "ended" <=> pc[v] = "ended"
      BY <1>0, <1>1
    <2>2. main \in {"joining", "success"} => 1 .. walked \subseteq Workers
      BY <1>0 DEF Types, Workers
    <2> QED
      BY <1>0, <1>5, <2>1, <2>2 DEF Kept
  <1>8. Locked'
    <2>1. CASE Scanned(w)
      <3>1. pc[w] = "scan" /\ pc'[w] = "modules" /\ UNCHANGED <<stdout, last>>
        BY <2>1 DEF Scanned, Types
      <3> QED
        BY <1>0, <3>1 DEF Locked, RuleLinesTogether
    <2>2. CASE PrintModuleLine(w)
      <3>1. stdout = Nobody /\ UNCHANGED <<stdout, pc>>
        BY <2>2 DEF PrintModuleLine
      <3>2. \A v \in Workers : pc[v] # "rules"
        BY <1>0, <3>1 DEF Locked
      <3> QED
        BY <1>0, <3>1, <3>2 DEF Locked, RuleLinesTogether
    <2>3. CASE LockStdout(w)
      <3>1. /\ stdout = Nobody /\ stdout' = w /\ last' = last
            /\ pc'[w] = "rules" /\ printed'[w] = 0
        BY <2>3 DEF LockStdout, Types
      <3>2. \A v \in Workers : pc[v] # "rules"
        BY <1>0, <3>1 DEF Locked
      <3> QED
        BY <1>0, <3>1, <3>2 DEF Locked, RuleLinesTogether
    <2>4. CASE PrintRuleLine(w)
      <3>1. pc[w] = "rules" /\ last' = path[w] /\ UNCHANGED <<stdout, pc>>
        BY <2>4 DEF PrintRuleLine
      <3>2. \A v \in Workers : pc[v] = "rules" => v = w
        BY <1>0, <3>1 DEF Locked
      <3> QED
        BY <1>0, <3>1, <3>2 DEF Locked, RuleLinesTogether
    <2> QED
      BY <2>1, <2>2, <2>3, <2>4
  <1> QED
    BY <1>3, <1>4, <1>6, <1>7, <1>8

\* The first path of the channel goes to the worker.
LEMMA ReceiveKeeps ==
    ASSUME IInv, NEW w \in Workers, Receive(w)
    PROVE  IInv'
  <1> USE DEF IInv
  <1>0. /\ UNCHANGED <<threads, may_panic, main, walked, printed, stdout, last, finished>>
        /\ nb_cpus' = nb_cpus /\ Workers' = Workers /\ nb_cpus \in Nat
        /\ pc[w] = "receive" /\ queue # <<>>
        /\ queue' = Tail(queue)
        /\ path' = [path EXCEPT ![w] = Head(queue)]
        /\ pc' = [pc EXCEPT ![w] = "scan"]
    BY SameWorkers, Numbers DEF Receive, config, Types
  <1>1. /\ queue' \in Seq(Paths) /\ Head(queue) = queue[1] /\ 1 \in DOMAIN queue
        /\ DOMAIN queue = 1 .. Len(queue) /\ Len(queue) \in Nat
        /\ DOMAIN queue' = 1 .. Len(queue) - 1
        /\ \A i \in 1 .. Len(queue) - 1 : queue'[i] = queue[i + 1]
    BY <1>0, TailOfQueue DEF Types
  <1>2. /\ path[w] = Nobody /\ path'[w] = queue[1]
        /\ \A v \in Workers : v # w => path'[v] = path[v] /\ pc'[v] = pc[v]
        /\ pc'[w] = "scan"
        /\ queue[1] \in Paths /\ queue[1] # Nobody
    BY <1>0, <1>1, NobodyIsNoPath, ElementOfSeq DEF Types, Handling
  <1>3. Types'
    BY <1>0, <1>1, <1>2 DEF Types, WorkerStates
  <1>4. Handling'
    BY <1>0, <1>2 DEF Handling
  <1>5. Sent' = Sent
    BY <1>0 DEF Sent, PathsUpTo, Paths
  <1>6. \A i \in DOMAIN queue' : i + 1 \in DOMAIN queue /\ i \in Nat
                                 /\ queue'[i] = queue[i + 1] /\ i + 1 # 1
    BY <1>1
  <1>7. Apart'
    <2>1. \A i \in DOMAIN queue' : queue'[i] \in Sent' /\ queue'[i] \notin finished'
      BY <1>0, <1>5, <1>6 DEF Apart
    <2>2. \A i, j \in DOMAIN queue' : queue'[i] = queue'[j] => i = j
      BY <1>6 DEF Apart
    <2>3. ASSUME NEW v \in Workers, path'[v] # Nobody
          PROVE  /\ path'[v] \in Sent' /\ path'[v] \notin finished'
                 /\ \A i \in DOMAIN queue' : queue'[i] # path'[v]
                 /\ \A u \in Workers : path'[u] = path'[v] => u = v
      <3>1. CASE v = w
        BY <3>1, <1>0, <1>1, <1>2, <1>5, <1>6 DEF Apart
      <3>2. CASE v # w
        BY <3>2, <2>3, <1>0, <1>1, <1>2, <1>5, <1>6 DEF Apart
      <3> QED
        BY <3>1, <3>2
    <2> QED
      BY <1>0, <1>5, <2>1, <2>2, <2>3 DEF Apart
  <1>8. Kept'
    <2>1. ASSUME main # "panicked", NEW p \in Sent
          PROVE  \/ \E i \in DOMAIN queue' : queue'[i] = p
                 \/ \E v \in Workers : path'[v] = p
                 \/ p \in finished'
      <3>1. CASE \E i \in DOMAIN queue : queue[i] = p
        <4>1. PICK i \in DOMAIN queue : queue[i] = p
          BY <3>1
        <4>2. CASE i = 1
          BY <4>1, <4>2, <1>2
        <4>3. CASE i # 1
          <5>1. i - 1 \in DOMAIN queue' /\ queue'[i - 1] = p
            BY <4>1, <4>3, <1>1
          <5> QED
            BY <5>1
        <4> QED
          BY <4>2, <4>3
      <3>2. CASE \E v \in Workers : path[v] = p
        <4>1. p # Nobody
          BY <2>1, NobodyIsNoPath DEF Sent, Paths, PathsUpTo, Types
        <4> QED
          BY <3>2, <4>1, <1>2
      <3>3. CASE p \in finished
        BY <3>3, <1>0
      <3> QED
        BY <2>1, <3>1, <3>2, <3>3 DEF Kept
    <2>2. \A v \in Workers : pc'[v] # "ended"
      BY <1>0, <1>2 DEF Kept
    <2>3. main \in {"joining", "success"} => \A v \in 1 .. walked : pc'[v] = "ended"
      <3>1. main \in {"joining", "success"} => 1 .. walked \subseteq Workers
        BY <1>0 DEF Types, Workers
      <3> QED
        BY <1>0, <1>2, <3>1 DEF Kept
    <2> QED
      BY <1>0, <1>5, <2>1, <2>2, <2>3 DEF Kept
  <1>9. Locked'
    BY <1>0, <1>2 DEF Locked, RuleLinesTogether
  <1> QED
    BY <1>3, <1>4, <1>7, <1>8, <1>9

\* A worker that ends has no path, finds the channel empty and the walk over.
LEMMA EndKeeps ==
    ASSUME IInv, NEW w \in Workers, End(w)
    PROVE  IInv'
  <1> USE DEF IInv
  <1>0. /\ UNCHANGED <<threads, may_panic, main, walked, queue, path, printed, stdout,
                       last, finished>>
        /\ nb_cpus' = nb_cpus /\ Workers' = Workers /\ nb_cpus \in Nat
        /\ pc[w] = "receive" /\ queue = <<>> /\ main = "joining"
        /\ pc' = [pc EXCEPT ![w] = "ended"]
    BY SameWorkers, Numbers DEF End, config, Types
  <1>1. pc'[w] = "ended" /\ \A v \in Workers : v # w => pc'[v] = pc[v]
    BY <1>0 DEF Types
  <1>2. Types'
    BY <1>0 DEF Types, WorkerStates, Stopped
  <1>3. Handling'
    BY <1>0, <1>1 DEF Handling
  <1>4. Sent' = Sent
    BY <1>0 DEF Sent, Paths
  <1>5. Apart'
    BY <1>0, <1>4 DEF Apart
  <1>6. 1 .. walked \subseteq Workers
    BY <1>0 DEF Types, Workers
  <1>7. Kept'
    BY <1>0, <1>1, <1>4, <1>6 DEF Kept
  <1>8. Locked'
    BY <1>0, <1>1 DEF Locked, RuleLinesTogether
  <1> QED
    BY <1>2, <1>3, <1>5, <1>7, <1>8

\* The path of the worker goes to the files done.
LEMMA DisplayedKeeps ==
    ASSUME IInv, NEW w \in Workers, Displayed(w)
    PROVE  IInv'
  <1> USE DEF IInv
  <1>0. /\ UNCHANGED <<threads, may_panic, main, walked, queue, last>>
        /\ nb_cpus' = nb_cpus /\ Workers' = Workers /\ nb_cpus \in Nat
        /\ Nobody \notin Workers
        /\ pc[w] = "rules"
        /\ stdout' = IF stdout = w THEN Nobody ELSE stdout
        /\ finished' = finished \cup {path[w]}
        /\ pc' = [pc EXCEPT ![w] = "receive"]
        /\ path' = [path EXCEPT ![w] = Nobody]
        /\ printed' = [printed EXCEPT ![w] = 0]
    BY SameWorkers, Numbers, NobodyIsNoWorker DEF Displayed, config, Types
  <1>1. /\ pc'[w] = "receive" /\ path'[w] = Nobody
        /\ \A v \in Workers : v # w =>
              pc'[v] = pc[v] /\ path'[v] = path[v] /\ printed'[v] = printed[v]
        /\ path[w] # Nobody /\ path[w] \in Paths
    BY <1>0 DEF Types, Handling
  <1>2. Types'
    BY <1>0, <1>1 DEF Types, WorkerStates
  <1>3. Handling'
    BY <1>0, <1>1 DEF Handling
  <1>4. Sent' = Sent
    BY <1>0 DEF Sent, PathsUpTo, Paths
  <1>5. Apart'
    <2>1. path[w] \in Sent /\ \A i \in DOMAIN queue : queue[i] # path[w]
      BY <1>1 DEF Apart
    <2>2. finished' \subseteq Sent'
      BY <1>0, <1>4, <2>1 DEF Apart
    <2>3. \A i \in DOMAIN queue' : queue'[i] \in Sent' /\ queue'[i] \notin finished'
      BY <1>0, <1>4, <2>1 DEF Apart
    <2>4. \A i, j \in DOMAIN queue' : queue'[i] = queue'[j] => i = j
      BY <1>0 DEF Apart
    <2>5. ASSUME NEW v \in Workers, path'[v] # Nobody
          PROVE  /\ path'[v] \in Sent' /\ path'[v] \notin finished'
                 /\ \A i \in DOMAIN queue' : queue'[i] # path'[v]
                 /\ \A u \in Workers : path'[u] = path'[v] => u = v
      <3>1. v # w /\ path'[v] = path[v] /\ path[v] # path[w]
        BY <2>5, <1>1 DEF Apart
      <3> QED
        BY <3>1, <1>0, <1>1, <1>4, <2>5 DEF Apart
    <2> QED
      BY <1>0, <2>2, <2>3, <2>4, <2>5 DEF Apart
  <1>6. Kept'
    <2>1. ASSUME main # "panicked", NEW p \in Sent
          PROVE  \/ \E i \in DOMAIN queue' : queue'[i] = p
                 \/ \E v \in Workers : path'[v] = p
                 \/ p \in finished'
      BY <2>1, <1>0, <1>1 DEF Kept
    <2>2. \A v \in Workers : pc'[v] = "ended" <=> pc[v] = "ended"
      BY <1>0, <1>1
    <2>3. main \in {"joining", "success"} => 1 .. walked \subseteq Workers
      BY <1>0 DEF Types, Workers
    <2> QED
      BY <1>0, <1>4, <2>1, <2>2, <2>3 DEF Kept
  <1>7. Locked'
    <2>1. stdout = w /\ stdout' = Nobody /\ \A v \in Workers : pc[v] = "rules" => v = w
      BY <1>0 DEF Locked
    <2> QED
      BY <1>0, <1>1, <2>1 DEF Locked, RuleLinesTogether
  <1> QED
    BY <1>2, <1>3, <1>5, <1>6, <1>7

\* The worker keeps the path it had for ever, and gives the lock back.
LEMMA PanicKeeps ==
    ASSUME IInv, NEW w \in Workers, Panic(w)
    PROVE  IInv'
  <1> USE DEF IInv
  <1>0. /\ UNCHANGED <<threads, may_panic, main, walked, queue, path, printed, last,
                       finished>>
        /\ nb_cpus' = nb_cpus /\ Workers' = Workers /\ nb_cpus \in Nat
        /\ Nobody \notin Workers
        /\ pc[w] \in {"scan", "modules", "rules"}
        /\ stdout' = IF stdout = w THEN Nobody ELSE stdout
        /\ pc' = [pc EXCEPT ![w] = "panicked"]
    BY SameWorkers, Numbers, NobodyIsNoWorker DEF Panic, config, Types, Displaying
  <1>1. pc'[w] = "panicked" /\ \A v \in Workers : v # w => pc'[v] = pc[v]
    BY <1>0 DEF Types
  <1>2. Types'
    BY <1>0 DEF Types, WorkerStates, Stopped
  <1>3. Handling'
    BY <1>0, <1>1 DEF Handling
  <1>4. Sent' = Sent
    BY <1>0 DEF Sent, PathsUpTo, Paths
  <1>5. Apart'
    BY <1>0, <1>4 DEF Apart
  <1>6. Kept'
    <2>1. \A v \in Workers : pc'[v] = "ended" <=> pc[v] = "ended"
      BY <1>0, <1>1
    <2>2. main \in {"joining", "success"} => 1 .. walked \subseteq Workers
      BY <1>0 DEF Types, Workers
    <2> QED
      BY <1>0, <1>4, <2>1, <2>2 DEF Kept
  <1>7. Locked'
    BY <1>0, <1>1 DEF Locked, RuleLinesTogether
  <1> QED
    BY <1>2, <1>3, <1>5, <1>6, <1>7

LEMMA StepInv == IInv /\ [Next]_vars => IInv'
  <1> SUFFICES ASSUME IInv, [Next]_vars
               PROVE  IInv'
    OBVIOUS
  <1>1. ASSUME NEW w \in Workers, WorkerStep(w) \/ Panic(w)
        PROVE  IInv'
    BY <1>1, ReceiveKeeps, EndKeeps, DisplayKeeps, DisplayedKeeps, PanicKeeps
       DEF WorkerStep
  <1>2. CASE UNCHANGED vars
    <2>1. nb_cpus' = nb_cpus /\ Workers' = Workers
      BY <1>2, SameWorkers DEF vars
    <2>2. Types' /\ Handling' /\ Locked'
      BY <1>2, <2>1 DEF vars, IInv, Types, Handling, Locked, RuleLinesTogether
    <2>3. Sent' = Sent
      BY <1>2 DEF vars, Sent, PathsUpTo, Paths
    <2>4. Apart' /\ Kept'
      BY <1>2, <2>1, <2>3 DEF vars, IInv, Apart, Kept
    <2> QED
      BY <2>2, <2>4 DEF IInv
  <1> QED
    BY <1>1, <1>2, MainKeeps DEF Next, Terminated

-----------------------------------------------------------------------------

\* In every state a path is in one place, none is missing before a panic of the
\* main thread, and the lock is that of the worker that displays.
THEOREM Inductive == Spec => []IInv
  BY InitInv, StepInv, PTL DEF Spec

\* Every file is in the channel, with a worker or done, and there once, however
\* the workers and the walk interleave and whoever panics.
THEOREM FilesHandledOnce == Spec => []HandledOnce
  <1>1. ASSUME IInv, NEW p \in Paths
        PROVE  Cardinality({k \in DOMAIN queue : queue[k] = p})
               + Cardinality({w \in Workers : path[w] = p})
               + (IF p \in finished THEN 1 ELSE 0) <= 1
    <2> DEFINE waiting == {k \in DOMAIN queue : queue[k] = p}
               handling == {w \in Workers : path[w] = p}
    <2>1. p # Nobody
      BY NobodyIsNoPath
    <2>2. \A i, j \in waiting : i = j
      BY <1>1 DEF IInv, Apart
    <2>3. \A v, w \in handling : v = w
      BY <1>1, <2>1 DEF IInv, Apart
    <2>4. waiting = {} \/ handling = {}
      BY <1>1, <2>1 DEF IInv, Apart
    <2>5. p \in finished => waiting = {} /\ handling = {}
      BY <1>1, <2>1 DEF IInv, Apart
    <2>6. ASSUME NEW S, \A a, b \in S : a = b
          PROVE  Cardinality(S) = IF S = {} THEN 0 ELSE 1
      <3>1. CASE S = {}
        BY <3>1, FS_EmptySet
      <3>2. CASE S # {}
        <4>1. PICK a : S = {a}
          BY <2>6, <3>2
        <4> QED
          BY <4>1, <3>2, FS_Singleton
      <3> QED
        BY <3>1, <3>2
    <2> HIDE DEF waiting, handling
    <2>7. /\ Cardinality(waiting) = IF waiting = {} THEN 0 ELSE 1
          /\ Cardinality(handling) = IF handling = {} THEN 0 ELSE 1
      BY <2>2, <2>3, <2>6
    <2>8. Cardinality(waiting) + Cardinality(handling)
          + (IF p \in finished THEN 1 ELSE 0) <= 1
      BY <2>4, <2>5, <2>7
    <2> QED
      BY <2>8 DEF waiting, handling
  <1>2. IInv => HandledOnce
    BY <1>1 DEF HandledOnce
  <1> QED
    BY <1>2, Inductive, PTL

\* A process that exits with success has displayed the results of every file of
\* the walk: a worker that panicked, or one that stopped too early, prevents it.
THEOREM SuccessIsHonest == Spec => []SuccessMeansAllDone
  <1>1. ASSUME IInv, main = "success"
        PROVE  finished = Paths
    <2>1. nb_cpus \in Nat /\ Workers = 1 .. walked
      BY <1>1, Numbers DEF IInv, Types, Kept, Workers
    <2>2. \A w \in Workers : pc[w] = "ended" /\ path[w] = Nobody
      BY <1>1, <2>1 DEF IInv, Kept, Handling
    <2>3. queue = <<>>
      BY <1>1, <2>1, <2>2 DEF IInv, Kept, Workers
    <2>4. DOMAIN queue = {}
      BY <2>3
    <2>5. \A p \in Paths : p \in finished
      BY <1>1, <2>2, <2>4, NobodyIsNoPath DEF IInv, Kept, Sent
    <2> QED
      BY <1>1, <2>5 DEF IInv, Types
  <1>2. IInv => SuccessMeansAllDone
    BY <1>1 DEF SuccessMeansAllDone
  <1> QED
    BY <1>2, Inductive, PTL

\* The lines of the matched rules of a file are displayed together, also after
\* another worker panicked with the lock.
THEOREM RuleLinesUninterrupted == Spec => []RuleLinesTogether
  <1>1. IInv => RuleLinesTogether
    BY DEF IInv, Locked
  <1> QED
    BY <1>1, Inductive, PTL
=============================================================================
