-------------------------------- MODULE EcsScan --------------------------------
(***************************************************************************)
(* The scan of ecs-scanner/ecs_ingress_scanner.py over an output directory *)
(* that outlives the process: results.csv, appended to while the scan      *)
(* runs, and summary.txt, the checkpoint a later run of the same command   *)
(* resumes from.                                                           *)
(*                                                                         *)
(* The input is the numbers 1..N in place of sorted /24 prefixes, and the  *)
(* last address of a returned scope is the last prefix it covers.  What    *)
(* the worker threads compute is not visible before the main thread takes  *)
(* it, in input order, from the head of the queue; there the answer is     *)
(* chosen.  Counters that no decision reads are left out, and so is        *)
(* unique_ingress_ips.txt, which each run derives anew from results.csv.   *)
(***************************************************************************)
EXTENDS Integers, Sequences, FiniteSets

CONSTANTS
  N,            \* the number of input prefixes
  Concurrency,  \* --concurrency: how many prefixes the queue holds
  MaxFailures,  \* --max-consecutive-failures
  Faults,       \* the kinds of fault the environment may inject
  MaxFaults     \* bound: how many faults a behaviour contains

\* "timeout": a query fails this once; "interrupt": Ctrl-C; "kill": the process
\* dies; "power": the machine dies, and what was not synced may be lost.
FaultKinds == {"timeout", "interrupt", "kill", "power"}

ASSUME ConstantsAssumption ==
  /\ N \in Nat \ {0} /\ Concurrency \in Nat \ {0} /\ MaxFailures \in Nat \ {0}
  /\ Faults \subseteq FaultKinds
  /\ MaxFaults \in Nat

VARIABLES
  pc,       \* what the main thread does next; "off" when no scan runs
  then,     \* where it goes after the checkpoint it is making
  scan,     \* the state it holds in memory
  queue,    \* the prefixes taken from the input and not processed yet
  results,  \* results.csv: the header, then one entry for each answer
  synced,   \* how much of results.csv is on disk
  summary,  \* summary.txt, NoSummary while it is absent or empty
  durable,  \* the summary.txt on disk
  faults    \* how many faults have happened

vars == <<pc, then, scan, queue, results, synced, summary, durable, faults>>
disk == <<results, synced, summary, durable>>

Header == [prefix |-> 0, upto |-> 0]
NoSummary == [last |-> 0, skip |-> 0, pending |-> {}, status |-> "none"]
\* What main() starts from in an empty output directory.
Fresh == [last |-> 0, skip |-> 0, pending |-> {}, status |-> "running",
          todo |-> {}, next |-> 1, fails |-> 0]

Init ==
  /\ pc = "off" /\ then = "off"
  /\ scan = Fresh /\ queue = <<>>
  /\ results = <<>> /\ synced = 0
  /\ summary = NoSummary /\ durable = NoSummary
  /\ faults = 0

---------------------------------------------------------------------------
\* Vocabulary.

Larger(a, b) == IF a > b THEN a ELSE b
Smaller(a, b) == IF a < b THEN a ELSE b
Smallest(S) == CHOOSE x \in S : \A y \in S : x <= y

Fault(kind) == kind \in Faults /\ faults < MaxFaults /\ faults' = faults + 1

\* checkpoint(), after which the main thread goes on at label.
CheckpointThen(label) == pc' = "sync" /\ then' = label
Answered(p, upto) == results' = Append(results, [prefix |-> p, upto |-> upto])
\* A query fails, with all its retries.
MayFail == Fault("timeout")

---------------------------------------------------------------------------
\* The start of a run.

\* A directory with results and no readable checkpoint is refused.
Readable == results = <<>> \/ summary # NoSummary

\* Mutant: the end of the last returned scope is not taken over.
StartWithoutScope ==
  /\ pc = "off"
  /\ Readable
  /\ scan' = [Fresh EXCEPT !.last = summary.last,
                           !.pending = summary.pending, !.todo = summary.pending]
  /\ queue' = <<>>
  /\ pc' = "header"
  /\ UNCHANGED <<then, disk, faults>>

\* Mutant: what is pending is kept, and not retried.
StartWithoutRetries ==
  /\ pc = "off"
  /\ Readable
  /\ scan' = [Fresh EXCEPT !.last = summary.last, !.skip = summary.skip,
                           !.pending = summary.pending]
  /\ queue' = <<>>
  /\ pc' = "header"
  /\ UNCHANGED <<then, disk, faults>>

\* main() takes its state from the checkpoint.
Start ==
  /\ pc = "off"
  /\ Readable
  /\ scan' = [Fresh EXCEPT !.last = summary.last, !.skip = summary.skip,
                           !.pending = summary.pending, !.todo = summary.pending]
  /\ queue' = <<>>
  /\ pc' = "header"
  /\ UNCHANGED <<then, disk, faults>>

\* A new results.csv gets its header; the run's first checkpoint follows.
WriteHeader ==
  /\ pc = "header"
  /\ results' = IF results = <<>> THEN <<Header>> ELSE results
  /\ CheckpointThen("retry")
  /\ UNCHANGED <<scan, queue, synced, summary, durable, faults>>

---------------------------------------------------------------------------
\* checkpoint: fsync results.csv, truncate summary.txt, write it, fsync it.

\* Mutant: results.csv is flushed and not synced.
CheckpointUnsynced ==
  /\ pc = "sync"
  /\ pc' = "truncate"
  /\ UNCHANGED <<then, scan, queue, disk, faults>>

CheckpointSync ==
  /\ pc = "sync"
  /\ synced' = Len(results)
  /\ pc' = "truncate"
  /\ UNCHANGED <<then, scan, queue, results, summary, durable, faults>>

CheckpointWrite ==
  /\ \/ /\ pc = "truncate" /\ pc' = "write"
        /\ summary' = NoSummary
        /\ UNCHANGED durable
     \/ /\ pc = "write" /\ pc' = "fsync"
        /\ summary' = [last |-> scan.last, skip |-> scan.skip,
                       pending |-> scan.pending, status |-> scan.status]
        /\ UNCHANGED durable
     \/ /\ pc = "fsync" /\ pc' = then
        /\ durable' = summary
        /\ UNCHANGED summary
  /\ UNCHANGED <<then, scan, queue, results, synced, faults>>

---------------------------------------------------------------------------
\* The prefixes an earlier run left pending come first, in their order.

Stop == scan.fails >= MaxFailures

\* One more prefix has failed.
Failing(s) == [s EXCEPT !.fails = @ + 1]

Retried ==
  /\ pc = "retried"
  /\ LET p == Smallest(scan.todo)
     IN scan' = [scan EXCEPT !.todo = @ \ {p}, !.pending = @ \ {p}, !.fails = 0]
  /\ pc' = "retry"
  /\ UNCHANGED <<then, queue, disk, faults>>

RetryPending ==
  /\ pc = "retry" /\ ~Stop /\ scan.todo # {}
  /\ LET p == Smallest(scan.todo)
     IN \/ /\ \E upto \in p..N : Answered(p, upto)
           /\ pc' = "retried"
           /\ UNCHANGED <<scan, faults>>
        \/ /\ MayFail
           /\ scan' = Failing([scan EXCEPT !.todo = @ \ {p}])
           /\ UNCHANGED <<pc, results>>
  /\ UNCHANGED <<then, queue, synced, summary, durable>>

\* Too many failures in a row end the run; otherwise the input comes next,
\* with what is left of the count.
RetriesDone ==
  /\ pc = "retry"
  /\ \/ /\ Stop
        /\ scan' = [scan EXCEPT !.status = "stopped"]
        /\ CheckpointThen("off")
     \/ /\ ~Stop /\ scan.todo = {}
        /\ pc' = "fill"
        /\ UNCHANGED <<then, scan>>
  /\ UNCHANGED <<queue, disk, faults>>

---------------------------------------------------------------------------
\* The input, in order, through a queue of bounded length.

\* The prefixes fill_queue appends: it skips those the checkpoint covers.
From == Larger(scan.next, scan.last + 1)
\* Mutant: the queue is filled while it is no longer than the bound.
UptoOneMore == Smaller(N, From + Concurrency - Len(queue))
Upto == Smaller(N, From + Concurrency - Len(queue) - 1)

\* Mutant: every prefix is queried, covered by a scope or not.
FillRegardless ==
  /\ pc = "fill"
  /\ queue' = queue \o [i \in 1..(Upto - From + 1) |->
                          [prefix |-> From + i - 1, sent |-> TRUE]]
  /\ scan' = [scan EXCEPT !.next = Upto + 1]
  /\ pc' = "take"
  /\ UNCHANGED <<then, disk, faults>>

\* fill_queue: a prefix inside a known scope is queued without a query.
Fill ==
  /\ pc = "fill"
  /\ queue' = queue \o [i \in 1..(Upto - From + 1) |->
                          [prefix |-> From + i - 1, sent |-> From + i - 1 > scan.skip]]
  /\ scan' = [scan EXCEPT !.next = Upto + 1]
  /\ pc' = "take"
  /\ UNCHANGED <<then, disk, faults>>

\* The head has been processed: a checkpoint is due or not.
Advance(s) ==
  /\ scan' = [s EXCEPT !.last = Head(queue).prefix]
  /\ queue' = Tail(queue)
  /\ CheckpointThen("decide") \/ (pc' = "decide" /\ UNCHANGED then)

\* The head of the queue: covered by a scope by now, answered, or failed.
Take ==
  /\ pc = "take" /\ queue # <<>>
  /\ LET p == Head(queue).prefix
     IN \/ /\ p <= scan.skip
           /\ Advance(scan)
           /\ UNCHANGED <<results, faults>>
        \/ /\ p > scan.skip
           /\ \E upto \in p..N : Answered(p, upto)
           /\ pc' = "commit"
           /\ UNCHANGED <<then, scan, queue, faults>>
        \/ /\ p > scan.skip /\ MayFail
           /\ Advance(Failing([scan EXCEPT !.pending = @ \cup {p}]))
           /\ UNCHANGED results
  /\ UNCHANGED <<synced, summary, durable>>

\* The answer is in results.csv: widen what it covers.
Commit ==
  /\ pc = "commit"
  /\ LET answer == results[Len(results)]
     IN Advance([scan EXCEPT !.pending = @ \ {answer.prefix}, !.fails = 0,
                             !.skip = Larger(@, answer.upto)])
  /\ UNCHANGED <<disk, faults>>

Decide ==
  /\ pc = "decide"
  /\ \/ /\ Stop
        /\ scan' = [scan EXCEPT !.status = "stopped"]
        /\ CheckpointThen("off")
     \/ ~Stop /\ pc' = "fill" /\ UNCHANGED <<then, scan>>
  /\ UNCHANGED <<queue, disk, faults>>

\* Mutant: the scan is complete when the input is exhausted.
FinishAnyway ==
  /\ pc = "take" /\ queue = <<>>
  /\ scan' = [scan EXCEPT !.status = "completed"]
  /\ CheckpointThen("off")
  /\ UNCHANGED <<queue, disk, faults>>

Finish ==
  /\ pc = "take" /\ queue = <<>>
  /\ scan' = [scan EXCEPT !.status =
                IF scan.pending = {} THEN "completed" ELSE "completed_with_pending_errors"]
  /\ CheckpointThen("off")
  /\ UNCHANGED <<queue, disk, faults>>

---------------------------------------------------------------------------
\* Faults.

\* KeyboardInterrupt is caught from the retries on, up to the last step of the
\* input; the final checkpoint follows.  Elsewhere it ends the process.
InTry ==
  \/ pc \in {"retry", "retried", "fill", "take", "commit", "decide"}
  \/ pc \in {"sync", "truncate", "write", "fsync"} /\ then = "decide"

Interrupt ==
  /\ pc # "off" /\ Fault("interrupt")
  /\ IF InTry THEN /\ scan' = [scan EXCEPT !.status = "stopped_early"]
                   /\ CheckpointThen("off")
              ELSE pc' = "off" /\ UNCHANGED <<then, scan>>
  /\ UNCHANGED <<queue, disk>>

Kill ==
  /\ pc # "off" /\ Fault("kill")
  /\ pc' = "off"
  /\ UNCHANGED <<then, scan, queue, disk>>

\* Of what was not synced, any prefix of results.csv and either summary.txt
\* may be found on the disk.
PowerLoss ==
  /\ Fault("power")
  /\ pc' = "off"
  /\ \E n \in synced..Len(results) :
       results' = SubSeq(results, 1, n) /\ synced' = n
  /\ summary' \in {summary, durable}
  /\ durable' = summary'
  /\ UNCHANGED <<then, scan, queue>>

---------------------------------------------------------------------------
\* The specification.

Step ==
  \/ WriteHeader \/ CheckpointSync \/ CheckpointWrite
  \/ RetryPending \/ Retried \/ RetriesDone
  \/ Fill \/ Take \/ Commit \/ Decide \/ Finish

Next == Start \/ Step \/ Interrupt \/ Kill \/ PowerLoss

Spec == Init /\ [][Next]_vars

\* A running scan goes on, and the operator types the command again whenever
\* it has ended.
FairSpec == Spec /\ WF_vars(Step) /\ WF_vars(Start)

---------------------------------------------------------------------------
\* Properties.

Labels == {"off", "header", "sync", "truncate", "write", "fsync", "retry", "retried",
           "fill", "take", "commit", "decide"}
Statuses == {"running", "stopped", "stopped_early", "completed",
             "completed_with_pending_errors"}
Checkpoints == [last : 0..N, skip : 0..N, pending : SUBSET (1..N),
                status : Statuses \cup {"none"}]

\* Every variable has its type; the queue holds the next prefixes of the input
\* and no more of them than --concurrency allows.
TypeOK ==
  /\ pc \in Labels /\ then \in {"off", "retry", "decide"}
  /\ scan \in [last : 0..N, skip : 0..N, pending : SUBSET (1..N), status : Statuses,
               todo : SUBSET (1..N), next : 1..(N + 1), fails : 0..MaxFailures]
  /\ queue \in Seq([prefix : 1..N, sent : BOOLEAN])
  /\ Len(queue) <= Concurrency
  /\ results \in Seq([prefix : 0..N, upto : 0..N])
  /\ synced \in 0..Len(results)
  /\ {summary, durable} \subseteq Checkpoints
  /\ faults \in Nat

\* A prefix is accounted for when one of the first n answers is for it, or
\* returned a scope that covers it.
Accounted(p, n) ==
  \E i \in 1..n : results[i].prefix <= p /\ p <= results[i].upto

\* No checkpoint, however the machine stops, claims more than results.csv can
\* back: up to its last processed prefix, each is answered on disk, covered by
\* an answer on disk, or listed as pending (checkpoint's order of writes).
CheckpointBacked ==
  \A s \in {summary, durable} :
    \A p \in 1..s.last : p \in s.pending \/ Accounted(p, synced)

\* A scan that calls itself completed has accounted for the whole input, in
\* however many runs, with however many retries.
CompletedIsComplete ==
  \A s \in {summary, durable} :
    s.status = "completed" => \A p \in 1..N : Accounted(p, synced)

\* "can cause up to one checkpoint interval to be repeated": no answer is ever
\* added for a prefix that the checkpoint on disk has accounted for, and from
\* one run to the next the checkpoint takes back nothing it has accounted for.
RepeatsAreBounded ==
  [][/\ Len(results') > Len(results) /\ Len(results') > 1
          => LET p == results'[Len(results')].prefix
             IN p > Larger(durable.last, durable.skip) \/ p \in durable.pending
     /\ durable' # NoSummary
          => /\ durable'.last >= durable.last /\ durable'.skip >= durable.skip
             /\ durable'.pending \subseteq durable.pending \cup (durable.last + 1)..N]_vars

\* "a maximum of concurrency - 1 prefix tasks may already have started inside
\* that newly known scope".
RedundantBound ==
  Cardinality({i \in DOMAIN queue : queue[i].sent /\ queue[i].prefix <= scan.skip})
    < Concurrency

\* A scan whose queries do not fail for ever completes, whatever stops its runs:
\* neither a run of failures, nor what was pending when it stopped, keeps a later
\* run from it.  Only a directory left in the state that every run refuses
\* ("pre-streaming results") ends it otherwise.
Completes == <>(summary.status = "completed" \/ (pc = "off" /\ ~Readable))

=============================================================================
