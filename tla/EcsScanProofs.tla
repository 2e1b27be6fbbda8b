----------------------------- MODULE EcsScanProofs -----------------------------
(***************************************************************************)
(* EcsScan keeps its types and never forgets a prefix, for any input, any  *)
(* queue, any number of failures and faults.                               *)
(*                                                                         *)
(* The invariant follows an answer from the worker to the disk: what the   *)
(* main thread holds in memory is backed by results.csv as it is; what a   *)
(* checkpoint is about to write is backed by what has been synced; so is   *)
(* whatever summary.txt the disk may hold.                                 *)
(*                                                                         *)
(* How little is queried twice follows from the order of the three states  *)
(* of a scan, in memory, in summary.txt and on the disk: none is behind    *)
(* the next, and a run retries what the checkpoint on the disk lists.      *)
(***************************************************************************)
EXTENDS EcsScan, FiniteSetTheorems, WellFoundedInduction, TLAPS

\* One of the first n answers of rs is for prefix p, or covers it.
Covers(rs, p, n) == \E i \in 1..n : rs[i].prefix <= p /\ p <= rs[i].upto

\* What state s claims is backed by the first n answers: up to s.last each
\* prefix is answered, covered or pending, and beyond s.last the scope that
\* s.skip remembers covers every prefix.
Backed(rs, s, n) ==
  /\ \A p \in 1..s.last : p \in s.pending \/ Covers(rs, p, n)
  /\ \A p \in (s.last + 1)..s.skip : Covers(rs, p, n)

\* The queue is the input that follows the last processed prefix.
QueueFollows ==
  /\ \A i \in 1..Len(queue) : queue[i].prefix = scan.last + i
  /\ From = scan.last + Len(queue) + 1
  /\ scan.last + Len(queue) <= N

\* Between an answer's row and its effect in memory, the row is the last one.
AnswerInHand ==
  /\ pc = "commit" =>
       /\ queue # <<>> /\ results # <<>>
       /\ results[Len(results)].prefix = queue[1].prefix
       /\ results[Len(results)].upto >= queue[1].prefix
  /\ pc = "retried" =>
       /\ scan.todo # {} /\ results # <<>>
       /\ results[Len(results)].prefix = Smallest(scan.todo)
       /\ results[Len(results)].upto >= Smallest(scan.todo)

\* A prefix is only queried while the run is below its limit of failures, and
\* an empty queue means that the input is exhausted.
Running ==
  /\ pc \in {"retried", "fill", "take", "commit"} => scan.fails < MaxFailures
  /\ pc = "take" /\ queue = <<>> => scan.last = N

\* summary.txt is rewritten after results.csv has been synced.
SyncedFirst == pc \in {"truncate", "write"} => synced = Len(results)

MemoryBacked == pc # "off" => Backed(results, scan, Len(results))
DiskBacked == \A s \in {summary, durable} : Backed(results, s, synced)

DoneMeansAll ==
  \A s \in {scan, summary, durable} :
    s.status = "completed" => s.last = N /\ s.pending = {}

IInv ==
  /\ TypeOK /\ Running
  /\ QueueFollows /\ AnswerInHand
  /\ SyncedFirst /\ MemoryBacked /\ DiskBacked
  /\ DoneMeansAll

---------------------------------------------------------------------------
\* Lemmas about the helpers.

\* min() of a set of prefixes that is not empty is one of them.
LEMMA SmallestIsMember ==
  ASSUME NEW S \in SUBSET Nat, S # {}
  PROVE  Smallest(S) \in S
<1> DEFINE R == OpToRel(<, Nat)
<1>1. IsWellFoundedOn(R, Nat)
  BY NatLessThanWellFounded
<1>2. PICK x \in S : \A y \in S : ~(<<y, x>> \in R)
  BY <1>1, WFMin
<1>3. \A y \in S : x <= y
  <2> SUFFICES ASSUME NEW y \in S PROVE x <= y
    OBVIOUS
  <2>1. x \in Nat /\ y \in Nat
    OBVIOUS
  <2>2. ~(y < x)
    BY <1>2, <2>1 DEF OpToRel
  <2> QED
    BY <2>1, <2>2
<1> QED
  BY <1>3 DEF Smallest

\* More answers back what fewer have backed.
LEMMA BackedExtends ==
  ASSUME NEW rs, NEW rs2, NEW s, NEW n \in Nat, NEW m \in Nat,
         n <= m, \A i \in 1..n : rs2[i] = rs[i], Backed(rs, s, n)
  PROVE  Backed(rs2, s, m)
<1>1. ASSUME NEW p, Covers(rs, p, n) PROVE Covers(rs2, p, m)
  BY <1>1 DEF Covers
<1> QED
  BY <1>1 DEF Backed

\* The input position that follows is a prefix, or the end.
LEMMA NextPosition ==
  ASSUME TypeOK, QueueFollows
  PROVE  /\ From \in 1..(N + 1)
         /\ Upto \in 0..N
         /\ Upto + 1 >= From
         /\ Upto - From + 1 \in 0..(Concurrency - Len(queue))
         /\ From <= N /\ Len(queue) < Concurrency => Upto >= From
<1>1. N \in Nat /\ Concurrency \in Nat
  BY ConstantsAssumption
<1>2. scan.last \in 0..N
  BY DEF TypeOK
<1>3. Len(queue) \in 0..Concurrency
  BY <1>1 DEF TypeOK
<1>4. From \in 1..(N + 1)
  BY <1>1, <1>2, <1>3 DEF QueueFollows
<1>5. Upto = IF N < From + Concurrency - Len(queue) - 1
             THEN N ELSE From + Concurrency - Len(queue) - 1
  BY DEF Upto, Smaller
<1>6. Upto \in 0..N /\ Upto + 1 >= From
  BY <1>1, <1>3, <1>4, <1>5
<1>7. Upto - From + 1 \in 0..(Concurrency - Len(queue))
  BY <1>1, <1>3, <1>4, <1>5, <1>6
<1>8. From <= N /\ Len(queue) < Concurrency => Upto >= From
  BY <1>1, <1>3, <1>4, <1>5
<1> QED
  BY <1>4, <1>6, <1>7, <1>8

---------------------------------------------------------------------------
\* What the actions do to the record in memory, field by field.

ScanType == [last : 0..N, skip : 0..N, pending : SUBSET (1..N), status : Statuses,
             todo : SUBSET (1..N), next : 1..(N + 1), fails : 0..MaxFailures]
QueueType == Seq([prefix : 1..N, sent : BOOLEAN])
ResultsType == Seq([prefix : 0..N, upto : 0..N])

\* The fields of a and b other than those named are the same.
SameFields(a, b, named) ==
  /\ "last" \in named \/ a.last = b.last
  /\ "skip" \in named \/ a.skip = b.skip
  /\ "pending" \in named \/ a.pending = b.pending
  /\ "status" \in named \/ a.status = b.status
  /\ "todo" \in named \/ a.todo = b.todo
  /\ "next" \in named \/ a.next = b.next
  /\ "fails" \in named \/ a.fails = b.fails

\* Start takes over the checkpoint.
LEMMA StartEffect ==
  ASSUME TypeOK, Start
  PROVE  /\ scan' \in ScanType
         /\ scan'.last = summary.last /\ scan'.skip = summary.skip
         /\ scan'.pending = summary.pending /\ scan'.todo = summary.pending
         /\ scan'.status = "running" /\ scan'.next = 1 /\ scan'.fails = 0
<1>1. summary \in Checkpoints
  BY DEF TypeOK
<1>2. /\ summary.last \in 0..N /\ summary.skip \in 0..N
      /\ summary.pending \in SUBSET (1..N)
  BY <1>1 DEF Checkpoints
<1>3. scan' = [last |-> summary.last, skip |-> summary.skip,
               pending |-> summary.pending, status |-> "running",
               todo |-> summary.pending, next |-> 1, fails |-> 0]
  BY DEF Start, Fresh
<1>4. 1 \in 1..(N + 1) /\ 0 \in 0..MaxFailures
  BY ConstantsAssumption
<1> QED
  BY <1>2, <1>3, <1>4 DEF ScanType, Statuses

\* The actions that end a run, and those of the retries.
LEMMA StatusEffect ==
  ASSUME TypeOK, NEW status \in Statuses, scan' = [scan EXCEPT !.status = status]
  PROVE  /\ scan' \in ScanType /\ SameFields(scan', scan, {"status"})
         /\ scan'.status = status
<1>1. scan \in ScanType
  BY DEF TypeOK, ScanType
<1>2. scan' \in ScanType
  BY <1>1 DEF ScanType
<1>3. SameFields(scan', scan, {"status"})
  BY <1>1 DEF ScanType, SameFields
<1>4. scan'.status = status
  BY <1>1 DEF ScanType
<1> QED
  BY <1>2, <1>3, <1>4

\* A successful retry takes the prefix off both lists.
LEMMA RetriedEffect ==
  ASSUME TypeOK, NEW p,
         scan' = [scan EXCEPT !.todo = @ \ {p}, !.pending = @ \ {p}, !.fails = 0]
  PROVE  /\ scan' \in ScanType /\ SameFields(scan', scan, {"todo", "pending", "fails"})
         /\ scan'.pending = scan.pending \ {p} /\ scan'.fails = 0
<1>1. scan \in ScanType
  BY DEF TypeOK, ScanType
<1>2. scan.todo \ {p} \in SUBSET (1..N) /\ scan.pending \ {p} \in SUBSET (1..N)
  BY <1>1 DEF ScanType
<1>3. 0 \in 0..MaxFailures
  BY ConstantsAssumption
<1>4. scan' \in ScanType
  BY <1>1, <1>2, <1>3 DEF ScanType
<1>5. SameFields(scan', scan, {"todo", "pending", "fails"})
  BY <1>1 DEF ScanType, SameFields
<1>6. scan'.pending = scan.pending \ {p} /\ scan'.fails = 0
  BY <1>1 DEF ScanType
<1> QED
  BY <1>4, <1>5, <1>6

\* A failed one takes it off the list of this run only, and is counted.
LEMMA RetryFailsEffect ==
  ASSUME TypeOK, NEW p, ~Stop,
         scan' = Failing([scan EXCEPT !.todo = @ \ {p}])
  PROVE  scan' \in ScanType /\ SameFields(scan', scan, {"todo", "fails"})
<1>1. scan \in ScanType
  BY DEF TypeOK, ScanType
<1>2. scan.todo \ {p} \in SUBSET (1..N)
  BY <1>1 DEF ScanType
<1>3. scan.fails + 1 \in 0..MaxFailures
  BY <1>1, ConstantsAssumption DEF ScanType, Stop
<1>4. scan' = [scan EXCEPT !.todo = scan.todo \ {p}, !.fails = scan.fails + 1]
  BY <1>1 DEF Failing, ScanType
<1>5. scan' \in ScanType
  BY <1>1, <1>2, <1>3, <1>4 DEF ScanType
<1>6. SameFields(scan', scan, {"todo", "fails"})
  BY <1>1, <1>4 DEF ScanType, SameFields
<1> QED
  BY <1>5, <1>6

\* Fill appends the prefixes From..Upto.
LEMMA FillEffect ==
  ASSUME TypeOK, QueueFollows, Fill
  PROVE  /\ scan' \in ScanType /\ SameFields(scan', scan, {"next"})
         /\ scan'.next = Upto + 1
         /\ queue' \in QueueType /\ Len(queue') = Len(queue) + (Upto - From + 1)
         /\ \A i \in 1..Len(queue) : queue'[i] = queue[i]
         /\ \A i \in (Len(queue) + 1)..Len(queue') :
              /\ queue'[i].prefix = From + (i - Len(queue)) - 1
              /\ queue'[i].sent => queue'[i].prefix > scan.skip
<1> DEFINE k == Upto - From + 1
           entry(i) == [prefix |-> From + i - 1, sent |-> From + i - 1 > scan.skip]
           more == [i \in 1..k |-> entry(i)]
<1>1. scan \in ScanType /\ queue \in QueueType
  BY DEF TypeOK, ScanType, QueueType
<1>2. /\ From \in 1..(N + 1) /\ Upto \in 0..N /\ Upto + 1 >= From
      /\ k \in 0..(Concurrency - Len(queue))
  BY NextPosition
<1>3. N \in Nat /\ Concurrency \in Nat /\ Len(queue) \in Nat /\ k \in Nat
  BY <1>1, <1>2, ConstantsAssumption DEF QueueType
<1>4. queue' = queue \o more /\ scan' = [scan EXCEPT !.next = Upto + 1]
  BY DEF Fill
<1>5. \A i \in 1..k : entry(i) \in [prefix : 1..N, sent : BOOLEAN]
  <2> SUFFICES ASSUME NEW i \in 1..k PROVE entry(i) \in [prefix : 1..N, sent : BOOLEAN]
    OBVIOUS
  <2>1. From + i - 1 \in 1..N
    BY <1>2, <1>3
  <2> QED
    BY <2>1
<1> HIDE DEF entry, k
<1>6. more \in QueueType /\ Len(more) = k /\ \A i \in 1..k : more[i] = entry(i)
  BY <1>3, <1>5 DEF QueueType
<1> HIDE DEF more
<1>7. queue' \in QueueType /\ Len(queue') = Len(queue) + k
  BY <1>1, <1>4, <1>6 DEF QueueType
<1>8. \A i \in 1..Len(queue) : queue'[i] = queue[i]
  BY <1>1, <1>4, <1>6, <1>3 DEF QueueType
<1>9. \A i \in (Len(queue) + 1)..Len(queue') :
        /\ queue'[i].prefix = From + (i - Len(queue)) - 1
        /\ queue'[i].sent => queue'[i].prefix > scan.skip
  <2> SUFFICES ASSUME NEW i \in (Len(queue) + 1)..(Len(queue) + k)
               PROVE  /\ queue'[i].prefix = From + (i - Len(queue)) - 1
                      /\ queue'[i].sent => queue'[i].prefix > scan.skip
    BY <1>7
  <2>1. i - Len(queue) \in 1..k /\ i \in Int
    BY <1>3
  <2>2. queue'[i] = more[i - Len(queue)]
    BY <1>1, <1>3, <1>4, <1>6, <2>1 DEF QueueType
  <2>3. more[i - Len(queue)] = entry(i - Len(queue))
    BY <1>6, <2>1
  <2>4. queue'[i].prefix = From + (i - Len(queue)) - 1
    BY <2>2, <2>3 DEF entry
  <2>5. queue'[i].sent = (From + (i - Len(queue)) - 1 > scan.skip)
    BY <2>2, <2>3 DEF entry
  <2> QED
    BY <2>4, <2>5
<1>10. Upto + 1 \in 1..(N + 1)
  BY <1>2, <1>3
<1>11. scan' \in ScanType
  BY <1>1, <1>4, <1>10 DEF ScanType
<1>12. SameFields(scan', scan, {"next"}) /\ scan'.next = Upto + 1
  BY <1>1, <1>4 DEF ScanType, SameFields
<1> QED
  BY <1>7, <1>8, <1>9, <1>11, <1>12 DEF k

\* What the members and the prefixes of a typed sequence are.
LEMMA Element ==
  ASSUME NEW S, NEW q \in Seq(S), NEW i \in 1..Len(q)
  PROVE  q[i] \in S
  OBVIOUS

\* A prefix of a typed sequence has the type and the same members.
LEMMA Shorter ==
  ASSUME NEW S, NEW q \in Seq(S), NEW n \in Nat, n <= Len(q)
  PROVE  /\ SubSeq(q, 1, n) \in Seq(S) /\ Len(SubSeq(q, 1, n)) = n
         /\ \A i \in 1..n : SubSeq(q, 1, n)[i] = q[i]
<1>1. Len(q) \in Nat /\ q \in [1..Len(q) -> S]
  OBVIOUS
<1>2. \A i \in 1..n : i \in 1..Len(q)
  BY <1>1
<1>3. SubSeq(q, 1, n) = [i \in 1..n |-> q[i]]
  BY <1>1
<1>4. [i \in 1..n |-> q[i]] \in [1..n -> S]
  BY <1>1, <1>2
<1>5. [i \in 1..n |-> q[i]] \in Seq(S) /\ Len([i \in 1..n |-> q[i]]) = n
  BY <1>4
<1> QED
  BY <1>3, <1>5

\* Advance moves the head of the queue to the processed ones.
LEMMA AdvanceEffect ==
  ASSUME TypeOK, QueueFollows, queue # <<>>,
         NEW s \in ScanType, s.last = scan.last, Advance(s)
  PROVE  /\ scan' \in ScanType /\ SameFields(scan', s, {"last"})
         /\ scan'.last = scan.last + 1 /\ queue[1].prefix = scan.last + 1
         /\ queue' \in QueueType /\ Len(queue) >= 1 /\ Len(queue') = Len(queue) - 1
         /\ \A i \in 1..Len(queue') : queue'[i] = queue[i + 1]
         /\ pc' \in {"sync", "decide"} /\ then' \in {then, "decide"}
<1>1. queue \in QueueType
  BY DEF TypeOK, QueueType
<1>2. Len(queue) \in Nat /\ Len(queue) >= 1 /\ Head(queue) = queue[1]
  BY <1>1 DEF QueueType
<1>3. queue[1].prefix = scan.last + 1 /\ queue[1] \in [prefix : 1..N, sent : BOOLEAN]
  <2>1. 1 \in 1..Len(queue)
    BY <1>2
  <2>2. queue[1] \in [prefix : 1..N, sent : BOOLEAN]
    BY <1>1, <2>1, Element DEF QueueType
  <2> QED
    BY <2>1, <2>2 DEF QueueFollows
<1>4. scan' = [s EXCEPT !.last = queue[1].prefix] /\ queue' = Tail(queue)
  BY <1>2 DEF Advance
<1>5. /\ queue' \in QueueType /\ Len(queue') = Len(queue) - 1
      /\ \A i \in 1..Len(queue') : queue'[i] = queue[i + 1]
  BY <1>1, <1>2, <1>4 DEF QueueType
<1>6. scan' \in ScanType
  BY <1>3, <1>4 DEF ScanType
<1>7. SameFields(scan', s, {"last"}) /\ scan'.last = queue[1].prefix
  BY <1>4 DEF SameFields, ScanType
<1>8. pc' \in {"sync", "decide"} /\ then' \in {then, "decide"}
  BY DEF Advance, CheckpointThen
<1> QED
  BY <1>2, <1>3, <1>5, <1>6, <1>7, <1>8

\* The records that Take and Commit advance from.
LEMMA TakeFailsRecord ==
  ASSUME TypeOK, NEW p \in 1..N, scan.fails < MaxFailures
  PROVE  LET s == Failing([scan EXCEPT !.pending = @ \cup {p}])
         IN /\ s \in ScanType /\ SameFields(s, scan, {"pending", "fails"})
            /\ s.pending = scan.pending \cup {p}
<1> DEFINE s == Failing([scan EXCEPT !.pending = @ \cup {p}])
<1>1. scan \in ScanType
  BY DEF TypeOK, ScanType
<1>2. scan.pending \cup {p} \in SUBSET (1..N)
  BY <1>1 DEF ScanType
<1>3. scan.fails + 1 \in 0..MaxFailures
  BY <1>1, ConstantsAssumption DEF ScanType
<1>4. s = [scan EXCEPT !.pending = scan.pending \cup {p}, !.fails = scan.fails + 1]
  BY <1>1 DEF Failing, ScanType
<1> HIDE DEF s
<1>5. s \in ScanType
  BY <1>1, <1>2, <1>3, <1>4 DEF ScanType
<1>6. SameFields(s, scan, {"pending", "fails"}) /\ s.pending = scan.pending \cup {p}
  BY <1>1, <1>4 DEF SameFields, ScanType
<1> QED
  BY <1>5, <1>6 DEF s

\* An answer takes its prefix off the pending ones and may widen the scope.
LEMMA CommitRecord ==
  ASSUME TypeOK, NEW answer \in [prefix : 0..N, upto : 0..N]
  PROVE  LET s == [scan EXCEPT !.pending = @ \ {answer.prefix}, !.fails = 0,
                               !.skip = Larger(@, answer.upto)]
         IN /\ s \in ScanType /\ SameFields(s, scan, {"pending", "fails", "skip"})
            /\ s.pending = scan.pending \ {answer.prefix}
            /\ s.skip = Larger(scan.skip, answer.upto)
<1> DEFINE s == [scan EXCEPT !.pending = @ \ {answer.prefix}, !.fails = 0,
                             !.skip = Larger(@, answer.upto)]
<1>1. scan \in ScanType
  BY DEF TypeOK, ScanType
<1>2. scan.pending \ {answer.prefix} \in SUBSET (1..N)
  BY <1>1 DEF ScanType
<1>3. Larger(scan.skip, answer.upto) \in 0..N
  BY <1>1 DEF ScanType, Larger
<1>4. 0 \in 0..MaxFailures
  BY ConstantsAssumption
<1>5. s = [scan EXCEPT !.pending = scan.pending \ {answer.prefix}, !.fails = 0,
                       !.skip = Larger(scan.skip, answer.upto)]
  BY <1>1 DEF ScanType
<1> HIDE DEF s
<1>6. s \in ScanType
  BY <1>1, <1>2, <1>3, <1>4, <1>5 DEF ScanType
<1>7. /\ SameFields(s, scan, {"pending", "fails", "skip"})
      /\ s.pending = scan.pending \ {answer.prefix}
      /\ s.skip = Larger(scan.skip, answer.upto)
  BY <1>1, <1>5 DEF SameFields, ScanType
<1> QED
  BY <1>6, <1>7 DEF s

\* What Take and Commit do, in those terms.
LEMMA TakeEffect ==
  ASSUME TypeOK, Running, QueueFollows, Take
  PROVE  /\ queue # <<>> /\ queue[1].prefix = scan.last + 1 /\ scan.last + 1 \in 1..N
         /\ \/ /\ pc' = "commit" /\ UNCHANGED <<scan, queue>>
               /\ \E upto \in (scan.last + 1)..N : Answered(scan.last + 1, upto)
            \/ /\ UNCHANGED results
               /\ \E s \in ScanType :
                    /\ Advance(s)
                    /\ \/ s = scan /\ scan.last + 1 <= scan.skip
                       \/ /\ SameFields(s, scan, {"pending", "fails"})
                          /\ s.pending = scan.pending \cup {scan.last + 1}
<1>1. queue # <<>> /\ pc = "take"
  BY DEF Take
<1>2. queue \in QueueType /\ scan \in ScanType
  BY DEF TypeOK, QueueType, ScanType
<1>3. Head(queue) = queue[1] /\ Len(queue) \in Nat /\ Len(queue) >= 1
  BY <1>1, <1>2 DEF QueueType
<1>4. queue[1].prefix = scan.last + 1 /\ queue[1] \in [prefix : 1..N, sent : BOOLEAN]
  <2>1. 1 \in 1..Len(queue)
    BY <1>3
  <2>2. queue[1] \in [prefix : 1..N, sent : BOOLEAN]
    BY <1>2, <2>1, Element DEF QueueType
  <2> QED
    BY <2>1, <2>2 DEF QueueFollows
<1> DEFINE p == scan.last + 1
           s == Failing([scan EXCEPT !.pending = @ \cup {p}])
<1>5. p \in 1..N /\ Head(queue).prefix = p
  BY <1>3, <1>4
<1>6. s \in ScanType /\ SameFields(s, scan, {"pending", "fails"})
        /\ s.pending = scan.pending \cup {p}
  BY <1>1, <1>5, TakeFailsRecord DEF Running
<1>7. \/ p <= scan.skip /\ Advance(scan) /\ UNCHANGED results
      \/ /\ pc' = "commit" /\ UNCHANGED <<scan, queue>>
         /\ \E upto \in p..N : Answered(p, upto)
      \/ Advance(s) /\ UNCHANGED results
  BY <1>5 DEF Take
<1> QED
  BY <1>1, <1>2, <1>4, <1>5, <1>6, <1>7

\* Commit works on the row that Take has appended.
LEMMA CommitEffect ==
  ASSUME TypeOK, QueueFollows, AnswerInHand, Commit
  PROVE  /\ queue # <<>> /\ queue[1].prefix = scan.last + 1
         /\ Len(results) \in Nat /\ Len(results) >= 1
         /\ results[Len(results)] \in [prefix : 0..N, upto : 0..N]
         /\ results[Len(results)].prefix = scan.last + 1
         /\ UNCHANGED results
         /\ \E s \in ScanType :
              /\ Advance(s)
              /\ SameFields(s, scan, {"pending", "fails", "skip"})
              /\ s.pending = scan.pending \ {scan.last + 1}
              /\ s.skip = Larger(scan.skip, results[Len(results)].upto)
<1>1. /\ pc = "commit" /\ queue # <<>> /\ results # <<>>
      /\ results[Len(results)].prefix = queue[1].prefix
  BY DEF Commit, AnswerInHand
<1>2. queue \in QueueType /\ results \in ResultsType
  BY DEF TypeOK, QueueType, ResultsType
<1>3. Len(queue) \in Nat /\ Len(queue) >= 1 /\ queue[1].prefix = scan.last + 1
  BY <1>1, <1>2 DEF QueueFollows, QueueType
<1> DEFINE answer == results[Len(results)]
           s == [scan EXCEPT !.pending = @ \ {answer.prefix}, !.fails = 0,
                             !.skip = Larger(@, answer.upto)]
<1>4. /\ Len(results) \in Nat /\ Len(results) >= 1
      /\ answer \in [prefix : 0..N, upto : 0..N]
  <2>1. Len(results) \in Nat /\ Len(results) >= 1
    BY <1>1, <1>2 DEF ResultsType
  <2>2. Len(results) \in 1..Len(results)
    BY <2>1
  <2> QED
    BY <1>2, <2>1, <2>2, Element DEF ResultsType
<1>5. /\ s \in ScanType /\ SameFields(s, scan, {"pending", "fails", "skip"})
      /\ s.pending = scan.pending \ {answer.prefix}
      /\ s.skip = Larger(scan.skip, answer.upto)
  BY <1>4, CommitRecord
<1>6. Advance(s) /\ UNCHANGED results
  BY DEF Commit, disk
<1> QED
  BY <1>1, <1>3, <1>4, <1>5, <1>6

\* The remaining actions leave the queue alone, and of the record in memory
\* they change neither the position nor the scope.
Still ==
  \/ WriteHeader \/ CheckpointSync \/ CheckpointWrite \/ RetryPending \/ Retried
  \/ RetriesDone \/ Decide \/ Finish \/ Interrupt \/ Kill \/ PowerLoss \/ UNCHANGED vars

\* Only Retried changes what is pending, only Finish completes the scan.
LEMMA StillEffect ==
  ASSUME TypeOK, Still
  PROVE  /\ queue' = queue /\ scan' \in ScanType
         /\ scan'.last = scan.last /\ scan'.skip = scan.skip /\ scan'.next = scan.next
         /\ Retried \/ scan'.pending = scan.pending
         /\ Finish \/ (scan'.status = "completed" => scan.status = "completed")
<1>1. scan \in ScanType
  BY DEF TypeOK, ScanType
<1>2. CASE scan' = scan /\ queue' = queue
  BY <1>1, <1>2
<1>3. CASE RetryPending /\ ~(scan' = scan /\ queue' = queue)
  <2>1. PICK p : scan' = Failing([scan EXCEPT !.todo = @ \ {p}]) /\ ~Stop /\ queue' = queue
    BY <1>3 DEF RetryPending
  <2>2. scan' \in ScanType /\ SameFields(scan', scan, {"todo", "fails"})
    BY <2>1, RetryFailsEffect
  <2>3. /\ scan'.last = scan.last /\ scan'.skip = scan.skip /\ scan'.next = scan.next
        /\ scan'.pending = scan.pending /\ scan'.status = scan.status
    BY <2>2 DEF SameFields
  <2> QED
    BY <2>1, <2>2, <2>3
<1>4. CASE Retried
  <2>1. PICK p : /\ queue' = queue
                 /\ scan' = [scan EXCEPT !.todo = @ \ {p}, !.pending = @ \ {p}, !.fails = 0]
    BY <1>4 DEF Retried
  <2>2. scan' \in ScanType /\ SameFields(scan', scan, {"todo", "pending", "fails"})
    BY <2>1, RetriedEffect
  <2>3. /\ scan'.last = scan.last /\ scan'.skip = scan.skip /\ scan'.next = scan.next
        /\ scan'.status = scan.status
    BY <2>2 DEF SameFields
  <2> QED
    BY <1>4, <2>1, <2>2, <2>3
<1>5. CASE (RetriesDone \/ Decide \/ Finish \/ Interrupt) /\ ~(scan' = scan /\ queue' = queue)
  <2>1. PICK status \in Statuses :
          /\ scan' = [scan EXCEPT !.status = status] /\ queue' = queue
          /\ Finish \/ status # "completed"
    <3>1. CASE RetriesDone
      BY <1>5, <3>1 DEF RetriesDone, Statuses
    <3>2. CASE Decide
      BY <1>5, <3>2 DEF Decide, Statuses
    <3>3. CASE Finish
      BY <3>3 DEF Finish, Statuses
    <3>4. CASE Interrupt
      BY <1>5, <3>4 DEF Interrupt, Statuses
    <3> QED
      BY <1>5, <3>1, <3>2, <3>3, <3>4
  <2>2. /\ scan' \in ScanType /\ SameFields(scan', scan, {"status"})
        /\ scan'.status = status
    BY <2>1, StatusEffect
  <2>3. /\ scan'.last = scan.last /\ scan'.skip = scan.skip /\ scan'.next = scan.next
        /\ scan'.pending = scan.pending
    BY <2>2 DEF SameFields
  <2> QED
    BY <2>1, <2>2, <2>3
<1>6. WriteHeader \/ CheckpointSync \/ CheckpointWrite \/ Kill \/ PowerLoss \/ UNCHANGED vars
        => scan' = scan /\ queue' = queue
  BY DEF WriteHeader, CheckpointSync, CheckpointWrite, Kill, PowerLoss, vars
<1> QED
  BY <1>2, <1>3, <1>4, <1>5, <1>6 DEF Still

---------------------------------------------------------------------------
\* The invariant, part by part.

\* The queue stays the next stretch of the input, across fills and restarts.
LEMMA QueueStep ==
  ASSUME IInv, [Next]_vars
  PROVE  QueueFollows'
<1>1. TypeOK /\ Running /\ QueueFollows /\ AnswerInHand
  BY DEF IInv
<1>2. /\ N \in Nat /\ scan.last \in Nat /\ scan.next \in Nat /\ Len(queue) \in Nat
      /\ scan \in ScanType /\ queue \in QueueType
  BY <1>1, ConstantsAssumption DEF TypeOK, ScanType, QueueType
<1>3. /\ \A i \in 1..Len(queue) : queue[i].prefix = scan.last + i
      /\ Larger(scan.next, scan.last + 1) = scan.last + Len(queue) + 1
      /\ scan.last + Len(queue) <= N
  BY <1>1 DEF QueueFollows, From
<1> SUFFICES /\ \A i \in 1..Len(queue') : queue'[i].prefix = scan'.last + i
             /\ Larger(scan'.next, scan'.last + 1) = scan'.last + Len(queue') + 1
             /\ scan'.last + Len(queue') <= N
  BY DEF QueueFollows, From, Larger
<1>4. CASE Start
  <2>1. queue' = <<>> /\ Len(queue') = 0
    BY <1>4 DEF Start
  <2>2. scan'.next = 1 /\ scan'.last \in 0..N
    BY <1>1, <1>4, StartEffect DEF ScanType
  <2> QED
    BY <1>2, <2>1, <2>2 DEF Larger
<1>5. CASE Fill
  <2>1. /\ SameFields(scan', scan, {"next"}) /\ scan'.next = Upto + 1
        /\ queue' \in QueueType /\ Len(queue') = Len(queue) + (Upto - From + 1)
        /\ \A i \in 1..Len(queue) : queue'[i] = queue[i]
        /\ \A i \in (Len(queue) + 1)..Len(queue') :
             queue'[i].prefix = From + (i - Len(queue)) - 1
    BY <1>1, <1>5, FillEffect
  <2>2. /\ From \in 1..(N + 1) /\ Upto \in 0..N /\ Upto + 1 >= From
        /\ From = scan.last + Len(queue) + 1 /\ scan'.last = scan.last
    BY <1>1, <2>1, NextPosition DEF QueueFollows, SameFields
  <2>3. scan'.last + Len(queue') = Upto
    <3>1. Len(queue') = Len(queue) + (Upto - From + 1) /\ scan'.last = scan.last
      BY <2>1, <2>2
    <3>2. Upto \in Int /\ scan.last \in Int /\ Len(queue) \in Int
      BY <1>2, <2>2
    <3>3. From = scan.last + Len(queue) + 1
      BY <2>2
    <3>4. scan.last + (Len(queue) + (Upto - (scan.last + Len(queue) + 1) + 1)) = Upto
      BY <3>2
    <3> QED
      BY <3>1, <3>3, <3>4
  <2>5. Larger(scan'.next, scan'.last + 1) = scan'.last + Len(queue') + 1
    <3>1. Upto + 1 >= scan.last + 1 /\ Upto \in Int /\ scan.last \in Int
      BY <1>2, <2>2
    <3>2. Larger(Upto + 1, scan.last + 1) = Upto + 1
      BY <3>1 DEF Larger
    <3>3. scan'.next = Upto + 1 /\ scan'.last = scan.last
      BY <2>1, <2>2
    <3> QED
      BY <2>3, <3>2, <3>3
  <2>4. ASSUME NEW i \in 1..Len(queue') PROVE queue'[i].prefix = scan'.last + i
    <3>1. i \in Int /\ Len(queue') \in Nat
      BY <2>1 DEF QueueType
    <3>2. CASE i <= Len(queue)
      <4>1. i \in 1..Len(queue)
        BY <1>2, <3>1, <3>2
      <4> QED
        BY <1>3, <2>1, <2>2, <4>1
    <3>3. CASE ~(i <= Len(queue))
      <4>1. i \in (Len(queue) + 1)..Len(queue')
        BY <1>2, <3>1, <3>3
      <4>2. From + (i - Len(queue)) - 1 = scan.last + i
        BY <1>2, <2>2, <3>1
      <4> QED
        BY <2>1, <2>2, <4>1, <4>2
    <3> QED
      BY <3>2, <3>3
  <2>6. scan'.last + Len(queue') <= N
    BY <2>2, <2>3
  <2> QED
    BY <2>4, <2>5, <2>6
<1>6. ASSUME NEW s \in ScanType, Advance(s), queue # <<>>,
             s.last = scan.last, s.next = scan.next
      PROVE  QueueFollows'
  <2>1. /\ SameFields(scan', s, {"last"}) /\ scan'.last = scan.last + 1
        /\ Len(queue) >= 1 /\ Len(queue') = Len(queue) - 1
        /\ \A i \in 1..Len(queue') : queue'[i] = queue[i + 1]
    BY <1>1, <1>6, AdvanceEffect
  <2>2. scan'.next = scan.next
    BY <1>6, <2>1 DEF SameFields
  <2>3. scan'.last + Len(queue') = scan.last + Len(queue)
    BY <1>2, <2>1
  <2>5. scan'.last + Len(queue') <= N
    BY <1>3, <2>3
  <2>6. Larger(scan'.next, scan'.last + 1) = scan'.last + Len(queue') + 1
    <3>1. Larger(scan.next, scan.last + 1) = scan.last + Len(queue) + 1 /\ Len(queue) >= 1
      BY <1>3, <2>1
    <3>2. scan.next = scan.last + Len(queue) + 1
      BY <1>2, <3>1 DEF Larger
    <3> QED
      BY <1>2, <2>1, <2>2, <2>3, <3>1, <3>2 DEF Larger
  <2>4. ASSUME NEW i \in 1..Len(queue') PROVE queue'[i].prefix = scan'.last + i
    <3>1. i \in Int /\ i + 1 \in 1..Len(queue)
      BY <1>2, <2>1
    <3>2. queue'[i].prefix = scan.last + (i + 1)
      BY <1>3, <2>1, <3>1
    <3>3. scan.last + (i + 1) = (scan.last + 1) + i
      BY <1>2, <3>1
    <3> QED
      BY <2>1, <3>2, <3>3
  <2> QED
    BY <2>4, <2>5, <2>6 DEF QueueFollows, From, Larger
<1>7. CASE Take
  <2>1. CASE UNCHANGED <<scan, queue>>
    BY <1>3, <2>1
  <2>2. CASE \E s \in ScanType :
               /\ Advance(s)
               /\ s = scan \/ SameFields(s, scan, {"pending", "fails"})
    BY <1>1, <1>6, <1>7, <2>2, TakeEffect DEF SameFields, QueueFollows, From, Larger
  <2> QED
    BY <1>1, <1>7, <2>1, <2>2, TakeEffect
<1>8. CASE Commit
  <2>1. PICK s \in ScanType : Advance(s) /\ SameFields(s, scan, {"pending", "fails", "skip"})
    BY <1>1, <1>8, CommitEffect
  <2>2. queue # <<>>
    BY <1>1, <1>8, CommitEffect
  <2> QED
    BY <1>6, <2>1, <2>2 DEF SameFields, QueueFollows, From, Larger
<1>9. CASE Still
  <2>1. queue' = queue /\ scan'.last = scan.last /\ scan'.next = scan.next
    BY <1>1, <1>9, StillEffect
  <2> QED
    BY <1>3, <2>1
<1> QED
  BY <1>4, <1>5, <1>7, <1>8, <1>9 DEF Next, Step, Still

\* Where the main thread is after a step, and where it was.
LEMMA ControlStep ==
  ASSUME TypeOK, QueueFollows, [Next]_vars
  PROVE  /\ pc' \in Labels /\ then' \in {"off", "retry", "decide"} /\ faults' \in Nat
         /\ pc = "off" /\ pc' # "off" => Start
         /\ pc' = "commit" => Take \/ UNCHANGED vars
         /\ pc' = "retried" => RetryPending \/ UNCHANGED vars
         /\ pc' = "fill" => RetriesDone \/ Decide \/ UNCHANGED vars
         /\ pc' = "take" => Fill \/ UNCHANGED vars
         /\ pc' = "truncate" => CheckpointSync \/ UNCHANGED vars
         /\ pc' = "write" => (pc = "truncate" /\ CheckpointWrite) \/ UNCHANGED vars
<1>1. pc \in Labels /\ then \in {"off", "retry", "decide"} /\ faults \in Nat
  BY DEF TypeOK
<1> HIDE DEF TypeOK
<1>2. CASE Start
  BY <1>1, <1>2 DEF Start, Labels
<1>3. CASE WriteHeader
  BY <1>1, <1>3 DEF WriteHeader, CheckpointThen, Labels
<1>4. CASE CheckpointSync
  BY <1>1, <1>4 DEF CheckpointSync, Labels
<1>5. CASE CheckpointWrite
  BY <1>1, <1>5 DEF CheckpointWrite, Labels
<1>6. CASE RetryPending
  BY <1>1, <1>6 DEF RetryPending, MayFail, Fault, Labels
<1>7. CASE Retried
  BY <1>1, <1>7 DEF Retried, Labels
<1>8. CASE RetriesDone
  BY <1>1, <1>8 DEF RetriesDone, CheckpointThen, Labels
<1>9. CASE Fill
  BY <1>1, <1>9 DEF Fill, Labels
<1>10. CASE Take
  BY <1>1, <1>10 DEF Take, Advance, CheckpointThen, MayFail, Fault, Labels
<1>11. CASE Commit
  BY <1>1, <1>11 DEF Commit, Advance, CheckpointThen, Labels
<1>12. CASE Decide
  BY <1>1, <1>12 DEF Decide, CheckpointThen, Labels
<1>13. CASE Finish
  BY <1>1, <1>13 DEF Finish, CheckpointThen, Labels
<1>14. CASE Interrupt
  BY <1>1, <1>14 DEF Interrupt, Fault, CheckpointThen, Labels
<1>15. CASE Kill
  BY <1>1, <1>15 DEF Kill, Fault, Labels
<1>16. CASE PowerLoss
  BY <1>1, <1>16 DEF PowerLoss, Fault, Labels
<1>17. CASE UNCHANGED vars
  BY <1>1, <1>17 DEF vars
<1> QED
  BY <1>2, <1>3, <1>4, <1>5, <1>6, <1>7, <1>8, <1>9, <1>10, <1>11, <1>12, <1>13, <1>14,
     <1>15, <1>16, <1>17 DEF Next, Step

\* The record and the queue keep their types.
LEMMA MemoryTypeStep ==
  ASSUME IInv, [Next]_vars
  PROVE  scan' \in ScanType /\ queue' \in QueueType /\ Len(queue') <= Concurrency
<1>1. TypeOK /\ Running /\ QueueFollows /\ AnswerInHand
  BY DEF IInv
<1>2. /\ scan \in ScanType /\ queue \in QueueType /\ Len(queue) <= Concurrency
      /\ Concurrency \in Nat /\ Len(queue) \in Nat
  BY <1>1, ConstantsAssumption DEF TypeOK, ScanType, QueueType
<1>3. CASE Start
  <2>1. queue' = <<>>
    BY <1>3 DEF Start
  <2>2. queue' \in QueueType /\ Len(queue') <= Concurrency
    BY <1>2, <2>1 DEF QueueType
  <2> QED
    BY <1>1, <1>3, <2>2, StartEffect
<1>4. CASE Fill
  <2>1. Upto - From + 1 \in 0..(Concurrency - Len(queue))
    BY <1>1, NextPosition
  <2>2. /\ scan' \in ScanType /\ queue' \in QueueType
        /\ Len(queue') = Len(queue) + (Upto - From + 1)
    BY <1>1, <1>4, FillEffect
  <2> QED
    BY <1>2, <2>1, <2>2
<1>5. ASSUME NEW s \in ScanType, s.last = scan.last, queue # <<>>, Advance(s)
      PROVE  scan' \in ScanType /\ queue' \in QueueType /\ Len(queue') <= Concurrency
  <2>1. /\ scan' \in ScanType /\ queue' \in QueueType /\ Len(queue') = Len(queue) - 1
    BY <1>1, <1>5, AdvanceEffect
  <2> QED
    BY <1>2, <2>1
<1>6. CASE Take
  <2>1. queue # <<>>
    BY <1>6 DEF Take
  <2>2. CASE UNCHANGED <<scan, queue>>
    BY <1>2, <2>2
  <2>3. CASE \E s \in ScanType :
               /\ Advance(s)
               /\ s = scan \/ SameFields(s, scan, {"pending", "fails"})
    BY <1>5, <2>1, <2>3 DEF SameFields
  <2> QED
    BY <1>1, <1>6, <2>2, <2>3, TakeEffect
<1>7. CASE Commit
  <2>1. PICK s \in ScanType : Advance(s) /\ SameFields(s, scan, {"pending", "fails", "skip"})
    BY <1>1, <1>7, CommitEffect
  <2>2. queue # <<>>
    BY <1>1, <1>7, CommitEffect
  <2> QED
    BY <1>5, <2>1, <2>2 DEF SameFields
<1>8. CASE Still
  BY <1>1, <1>2, <1>8, StillEffect
<1> QED
  BY <1>3, <1>4, <1>6, <1>7, <1>8 DEF Next, Step, Still

\* results.csv only grows, except that a power loss may take what is not synced.
LEMMA ResultsStep ==
  ASSUME IInv, [Next]_vars
  PROVE  /\ results' \in ResultsType /\ synced' \in 0..Len(results')
         /\ synced <= synced' /\ synced \in Nat
         /\ \A i \in 1..synced : results'[i] = results[i]
         /\ \/ PowerLoss
            \/ /\ Len(results) <= Len(results')
               /\ \A i \in 1..Len(results) : results'[i] = results[i]
<1>1. TypeOK /\ Running /\ QueueFollows
  BY DEF IInv
<1>2. results \in ResultsType /\ synced \in 0..Len(results) /\ Len(results) \in Nat
  BY <1>1 DEF TypeOK, ResultsType
<1>3. N \in Nat /\ synced \in Nat /\ synced <= Len(results)
  BY <1>2, ConstantsAssumption
<1>4. ASSUME NEW row \in [prefix : 0..N, upto : 0..N],
             results' = Append(results, row), synced' = synced
      PROVE  /\ results' \in ResultsType /\ synced' \in 0..Len(results')
             /\ Len(results) <= Len(results')
             /\ \A i \in 1..Len(results) : results'[i] = results[i]
  <2>1. results' \in ResultsType /\ Len(results') = Len(results) + 1
    BY <1>2, <1>4 DEF ResultsType
  <2>2. \A i \in 1..Len(results) : results'[i] = results[i]
    BY <1>2, <1>4 DEF ResultsType
  <2> QED
    BY <1>2, <1>3, <1>4, <2>1, <2>2
<1>5. CASE results' = results /\ synced' = synced
  BY <1>2, <1>3, <1>5
<1>6. CASE WriteHeader
  <2>1. synced' = synced /\ (results' = results \/ results' = <<Header>>)
    BY <1>6 DEF WriteHeader
  <2>2. results # <<>> => results' = results
    BY <1>6 DEF WriteHeader
  <2>3. CASE results' = results
    BY <1>5, <2>1, <2>3
  <2>4. CASE results = <<>>
    <3>1. Header \in [prefix : 0..N, upto : 0..N]
      BY <1>3 DEF Header
    <3>2. results' = <<Header>> \/ results' = results
      BY <2>1
    <3>3. CASE results' = <<Header>>
      <4>1. results' \in ResultsType /\ Len(results') = 1 /\ Len(results) = 0
        BY <2>4, <3>1, <3>3 DEF ResultsType
      <4> QED
        BY <1>2, <1>3, <2>1, <4>1
    <3> QED
      BY <2>3, <3>2, <3>3
  <2> QED
    BY <2>2, <2>3, <2>4
<1>7. CASE CheckpointSync
  <2>1. results' = results /\ synced' = Len(results)
    BY <1>7 DEF CheckpointSync
  <2> QED
    BY <1>2, <1>3, <2>1
<1>8. CASE RetryPending /\ ~(results' = results)
  <2>1. scan.todo # {} /\ scan.todo \in SUBSET (1..N)
    BY <1>1, <1>8 DEF RetryPending, TypeOK
  <2>2. Smallest(scan.todo) \in 1..N
    BY <1>3, <2>1, SmallestIsMember
  <2>3. PICK upto \in Smallest(scan.todo)..N : Answered(Smallest(scan.todo), upto)
    BY <1>8 DEF RetryPending
  <2>4. upto \in 0..N /\ synced' = synced
    BY <1>3, <1>8, <2>2, <2>3 DEF RetryPending
  <2>5. [prefix |-> Smallest(scan.todo), upto |-> upto] \in [prefix : 0..N, upto : 0..N]
    BY <2>2, <2>4
  <2>6. results' = Append(results, [prefix |-> Smallest(scan.todo), upto |-> upto])
    BY <2>3 DEF Answered
  <2> QED
    BY <1>3, <1>4, <2>4, <2>5, <2>6
<1>9. CASE Take /\ ~(results' = results)
  <2>1. scan.last + 1 \in 1..N
    BY <1>1, <1>9, TakeEffect
  <2>2. PICK upto \in (scan.last + 1)..N : Answered(scan.last + 1, upto)
    BY <1>1, <1>9, TakeEffect
  <2>3. upto \in 0..N /\ synced' = synced
    BY <1>3, <1>9, <2>1, <2>2 DEF Take
  <2>4. [prefix |-> scan.last + 1, upto |-> upto] \in [prefix : 0..N, upto : 0..N]
    BY <2>1, <2>3
  <2>5. results' = Append(results, [prefix |-> scan.last + 1, upto |-> upto])
    BY <2>2 DEF Answered
  <2> QED
    BY <1>3, <1>4, <2>3, <2>4, <2>5
<1>10. CASE PowerLoss
  <2>1. PICK n \in synced..Len(results) : results' = SubSeq(results, 1, n) /\ synced' = n
    BY <1>10 DEF PowerLoss
  <2>2. n \in Nat /\ n <= Len(results) /\ synced <= n
    BY <1>2, <1>3, <2>1
  <2>3. results' \in ResultsType /\ Len(results') = n
    BY <1>2, <2>1, <2>2, Shorter DEF ResultsType
  <2>4. \A i \in 1..n : results'[i] = results[i]
    BY <1>2, <2>1, <2>2, Shorter DEF ResultsType
  <2> QED
    BY <1>3, <1>10, <2>1, <2>2, <2>3, <2>4
<1>12. RetryPending \/ Take => synced' = synced
  BY DEF RetryPending, Take
<1>13. CASE RetryPending
  BY <1>5, <1>8, <1>12, <1>13
<1>14. CASE Take
  BY <1>5, <1>9, <1>12, <1>14
<1>15. CASE \/ Start \/ CheckpointWrite \/ Retried \/ RetriesDone \/ Fill \/ Commit
            \/ Decide \/ Finish \/ Interrupt \/ Kill \/ UNCHANGED vars
  <2>1. results' = results /\ synced' = synced
    BY <1>15 DEF Start, CheckpointWrite, Retried, RetriesDone, Fill, Commit, Decide,
                 Finish, Interrupt, Kill, vars, disk
  <2> QED
    BY <1>5, <2>1
<1> QED
  BY <1>6, <1>7, <1>10, <1>13, <1>14, <1>15 DEF Next, Step

\* Each step that queries or takes follows a test of the count of failures.
LEMMA RunningStep ==
  ASSUME IInv, [Next]_vars
  PROVE  Running'
<1>1. TypeOK /\ Running /\ QueueFollows
  BY DEF IInv
<1>2. scan.fails \in Nat /\ MaxFailures \in Nat
  BY <1>1, ConstantsAssumption DEF TypeOK
<1>3. ~Stop => scan.fails < MaxFailures
  BY <1>2 DEF Stop
<1>4. CASE UNCHANGED vars
  BY <1>1, <1>4 DEF Running, vars
<1>5. CASE pc' = "retried" /\ ~UNCHANGED vars
  <2>1. RetryPending
    BY <1>1, <1>5, ControlStep
  <2>2. ~Stop /\ scan' = scan
    BY <1>5, <2>1 DEF RetryPending
  <2> QED
    BY <1>3, <1>5, <2>2 DEF Running
<1>6. CASE pc' = "fill" /\ ~UNCHANGED vars
  <2>1. ~Stop /\ scan' = scan
    BY <1>1, <1>6, ControlStep DEF RetriesDone, Decide, CheckpointThen
  <2> QED
    BY <1>3, <1>6, <2>1 DEF Running
<1>7. CASE pc' = "commit" /\ ~UNCHANGED vars
  <2>1. Take
    BY <1>1, <1>7, ControlStep
  <2>2. scan' = scan /\ pc = "take"
    BY <1>7, <2>1 DEF Take, Advance, CheckpointThen
  <2> QED
    BY <1>1, <1>7, <2>2 DEF Running
<1>8. CASE pc' = "take" /\ ~UNCHANGED vars
  <2>1. Fill
    BY <1>1, <1>8, ControlStep
  <2>2. /\ SameFields(scan', scan, {"next"})
        /\ Len(queue') = Len(queue) + (Upto - From + 1)
    BY <1>1, <2>1, FillEffect
  <2>3. scan'.fails = scan.fails /\ scan'.last = scan.last
    BY <2>2 DEF SameFields
  <2>4. pc = "fill"
    BY <2>1 DEF Fill
  <2>5. scan'.fails < MaxFailures
    BY <1>1, <2>3, <2>4 DEF Running
  <2>6. ASSUME queue' = <<>> PROVE scan'.last = N
    <3>1. Len(queue') = 0
      BY <2>6
    <3>2. /\ N \in Nat /\ Concurrency \in Nat /\ Concurrency >= 1
          /\ Len(queue) \in Nat /\ scan.last \in Nat
      BY <1>1, ConstantsAssumption DEF TypeOK
    <3>3. /\ From \in 1..(N + 1) /\ Upto \in 0..N /\ Upto + 1 >= From
          /\ From <= N /\ Len(queue) < Concurrency => Upto >= From
          /\ From = scan.last + Len(queue) + 1
      BY <1>1, NextPosition DEF QueueFollows
    <3>4. From \in Int /\ Upto \in Int
      BY <3>2, <3>3
    <3>5. Len(queue) = 0 /\ Upto + 1 = From
      <4>1. Upto - From + 1 >= 0
        BY <3>3, <3>4
      <4>2. Len(queue) + (Upto - From + 1) = 0
        BY <2>2, <3>1
      <4> QED
        BY <3>2, <3>4, <4>1, <4>2
    <3>6. ~(From <= N)
      BY <3>2, <3>3, <3>4, <3>5
    <3> QED
      BY <2>3, <3>2, <3>3, <3>4, <3>5, <3>6
  <2> QED
    BY <1>8, <2>5, <2>6 DEF Running
<1> QED
  BY <1>4, <1>5, <1>6, <1>7, <1>8 DEF Running

\* The row of an answer is the last one until the answer has had its effect.
LEMMA AnswerStep ==
  ASSUME IInv, [Next]_vars
  PROVE  AnswerInHand' /\ SyncedFirst'
<1>1. TypeOK /\ Running /\ QueueFollows /\ AnswerInHand /\ SyncedFirst
  BY DEF IInv
<1>2. results \in ResultsType /\ N \in Nat
  BY <1>1, ConstantsAssumption DEF TypeOK, ResultsType
<1>3. ASSUME NEW p \in 1..N, NEW upto \in p..N, Answered(p, upto)
      PROVE  /\ results' # <<>> /\ results'[Len(results')].prefix = p
             /\ results'[Len(results')].upto >= p
  <2> DEFINE row == [prefix |-> p, upto |-> upto]
  <2>1. row \in [prefix : 0..N, upto : 0..N] /\ upto >= p
    BY <1>2
  <2>2. results' = Append(results, row)
    BY <1>3 DEF Answered
  <2> HIDE DEF row
  <2>3. results' # <<>> /\ results'[Len(results')] = row
    BY <1>2, <2>1, <2>2 DEF ResultsType
  <2> QED
    BY <2>1, <2>3 DEF row
<1>4. CASE UNCHANGED vars
  BY <1>1, <1>4 DEF AnswerInHand, SyncedFirst, vars
<1>5. ASSUME pc' = "commit", ~UNCHANGED vars
      PROVE  /\ queue' # <<>> /\ results' # <<>>
             /\ results'[Len(results')].prefix = queue'[1].prefix
             /\ results'[Len(results')].upto >= queue'[1].prefix
  <2>1. Take
    BY <1>1, <1>5, ControlStep
  <2>2. queue # <<>> /\ queue[1].prefix = scan.last + 1 /\ scan.last + 1 \in 1..N
    BY <1>1, <2>1, TakeEffect
  <2>3. /\ \E upto \in (scan.last + 1)..N : Answered(scan.last + 1, upto)
        /\ queue' = queue
    BY <1>1, <1>5, <2>1, TakeEffect DEF Advance, CheckpointThen
  <2> QED
    BY <1>3, <2>2, <2>3
<1>6. ASSUME pc' = "retried", ~UNCHANGED vars
      PROVE  /\ scan'.todo # {} /\ results' # <<>>
             /\ results'[Len(results')].prefix = Smallest(scan'.todo)
             /\ results'[Len(results')].upto >= Smallest(scan'.todo)
  <2>1. RetryPending
    BY <1>1, <1>6, ControlStep
  <2>2. /\ scan' = scan /\ scan.todo # {}
        /\ \E upto \in Smallest(scan.todo)..N : Answered(Smallest(scan.todo), upto)
    BY <1>6, <2>1 DEF RetryPending
  <2>3. Smallest(scan.todo) \in 1..N
    <3>1. scan.todo \in SUBSET Nat /\ scan.todo \in SUBSET (1..N)
      BY <1>1 DEF TypeOK
    <3> QED
      BY <2>2, <3>1, SmallestIsMember
  <2> QED
    BY <1>3, <2>2, <2>3
<1>7. ASSUME pc' \in {"truncate", "write"}, ~UNCHANGED vars
      PROVE  synced' = Len(results')
  <2>1. CASE pc' = "truncate"
    BY <1>1, <1>7, <2>1, ControlStep DEF CheckpointSync
  <2>2. CASE pc' = "write"
    <3>1. pc = "truncate" /\ CheckpointWrite
      BY <1>1, <1>7, <2>2, ControlStep
    <3> QED
      BY <1>1, <3>1 DEF SyncedFirst, CheckpointWrite
  <2> QED
    BY <1>7, <2>1, <2>2
<1> QED
  BY <1>4, <1>5, <1>6, <1>7 DEF AnswerInHand, SyncedFirst

\* Equal claims have equal backing.
LEMMA BackedSame ==
  ASSUME NEW rs, NEW s, NEW t, NEW n,
         t.last = s.last, t.skip = s.skip, t.pending = s.pending, Backed(rs, s, n)
  PROVE  Backed(rs, t, n)
  BY DEF Backed

\* No step in memory claims a prefix that has no row and is not pending.
LEMMA MemoryStep ==
  ASSUME IInv, [Next]_vars
  PROVE  MemoryBacked'
<1>1. /\ TypeOK /\ Running /\ QueueFollows /\ AnswerInHand
      /\ MemoryBacked /\ DiskBacked
  BY DEF IInv
<1>2. /\ scan \in ScanType /\ results \in ResultsType /\ Len(results) \in Nat
      /\ N \in Nat /\ scan.last \in Nat /\ scan.skip \in Nat
      /\ synced \in Nat /\ synced <= Len(results)
  BY <1>1, ConstantsAssumption DEF TypeOK, ScanType, ResultsType
<1> DEFINE n == Len(results)
<1> SUFFICES ASSUME pc' # "off" PROVE Backed(results', scan', Len(results'))
  BY DEF MemoryBacked
<1>3. ~PowerLoss /\ ~Kill
  BY DEF PowerLoss, Kill
<1>4. /\ Len(results') \in Nat /\ n <= Len(results')
      /\ \A i \in 1..n : results'[i] = results[i]
  BY <1>3, ResultsStep DEF ResultsType
<1>5. CASE Start
  <2>1. Backed(results, summary, n)
    BY <1>1, <1>2, BackedExtends DEF DiskBacked
  <2>2. /\ scan'.last = summary.last /\ scan'.skip = summary.skip
        /\ scan'.pending = summary.pending /\ results' = results
    BY <1>1, <1>5, StartEffect DEF Start, disk
  <2> QED
    BY <2>1, <2>2, BackedSame
<1>6. CASE ~Start
  <2>1. pc # "off"
    BY <1>1, <1>6, ControlStep
  <2>2. Backed(results, scan, n)
    BY <1>1, <2>1 DEF MemoryBacked
  <2> HIDE DEF n
  <2>3. Backed(results', scan, Len(results'))
    BY <1>2, <1>4, <2>2, BackedExtends DEF n
  <2>4. CASE Fill
    <3>1. SameFields(scan', scan, {"next"})
      BY <1>1, <2>4, FillEffect
    <3> QED
      BY <2>3, <3>1, BackedSame DEF SameFields
  <2>5. CASE Retried
    <3> DEFINE p == Smallest(scan.todo)
    <3>1. /\ SameFields(scan', scan, {"todo", "pending", "fails"})
          /\ scan'.pending = scan.pending \ {p}
      BY <1>1, <2>5, RetriedEffect DEF Retried
    <3>2. scan'.last = scan.last /\ scan'.skip = scan.skip
      BY <3>1 DEF SameFields
    <3>3. Covers(results, p, n)
      <4>1. /\ results # <<>> /\ results[n].prefix = p /\ results[n].upto >= p
        BY <1>1, <2>5 DEF AnswerInHand, Retried, n
      <4>2. n \in 1..n
        BY <1>2, <4>1 DEF ResultsType, n
      <4>3. p \in Nat
        <5>1. scan.todo # {} /\ scan.todo \in SUBSET Nat
          BY <1>1, <1>2, <2>5 DEF AnswerInHand, Retried, ScanType
        <5> QED
          BY <5>1, SmallestIsMember
      <4>4. results[n].upto \in 0..N
        <5>1. Len(results) \in 1..Len(results)
          BY <4>2 DEF n
        <5>2. results[Len(results)] \in [prefix : 0..N, upto : 0..N]
          BY <1>2, <5>1, Element DEF ResultsType
        <5> QED
          BY <5>2 DEF n
      <4>5. results[n].prefix <= p /\ p <= results[n].upto
        BY <4>1, <4>3, <4>4
      <4> QED
        BY <4>2, <4>5 DEF Covers
    <3>4. results' = results
      BY <2>5 DEF Retried, disk
    <3> HIDE DEF p
    <3> QED
      BY <2>2, <3>1, <3>2, <3>3, <3>4 DEF Backed, n
  <2>6. CASE Take
    <3>1. scan.last + 1 \in 1..N /\ queue # <<>>
      BY <1>1, <2>6, TakeEffect
    <3>2. CASE scan' = scan
      BY <2>3, <3>2
    <3>3. ASSUME NEW s \in ScanType, Advance(s), results' = results,
                 \/ s = scan /\ scan.last + 1 <= scan.skip
                 \/ /\ SameFields(s, scan, {"pending", "fails"})
                    /\ s.pending = scan.pending \cup {scan.last + 1}
          PROVE  Backed(results', scan', Len(results'))
      <4>1. s.last = scan.last /\ s.skip = scan.skip
        BY <3>3 DEF SameFields
      <4>2. SameFields(scan', s, {"last"}) /\ scan'.last = scan.last + 1
        BY <1>1, <3>1, <3>3, <4>1, AdvanceEffect
      <4>3. scan'.skip = scan.skip /\ scan'.pending = s.pending
        BY <4>1, <4>2 DEF SameFields
      <4>4. ASSUME NEW q \in 1..scan'.last
            PROVE  q \in scan'.pending \/ Covers(results', q, Len(results'))
        <5>1. CASE q = scan.last + 1
          <6>1. CASE scan.last + 1 <= scan.skip
            <7>1. q \in (scan.last + 1)..scan.skip
              BY <1>2, <5>1, <6>1
            <7> QED
              BY <2>3, <7>1 DEF Backed
          <6>2. CASE s.pending = scan.pending \cup {scan.last + 1}
            BY <4>3, <5>1, <6>2
          <6> QED
            BY <3>3, <6>1, <6>2
        <5>2. CASE q # scan.last + 1
          <6>1. q \in 1..scan.last
            BY <1>2, <4>2, <5>2
          <6>2. scan.pending \subseteq scan'.pending
            BY <3>3, <4>3
          <6> QED
            BY <2>3, <6>1, <6>2 DEF Backed
        <5> QED
          BY <5>1, <5>2
      <4>5. ASSUME NEW q \in (scan'.last + 1)..scan'.skip
            PROVE  Covers(results', q, Len(results'))
        <5>1. q \in (scan.last + 1)..scan.skip
          BY <1>2, <4>2, <4>3
        <5> QED
          BY <2>3, <5>1 DEF Backed
      <4> QED
        BY <4>4, <4>5 DEF Backed
    <3> QED
      BY <1>1, <2>6, <3>2, <3>3, TakeEffect
  <2>7. CASE Commit
    <3> DEFINE row == results[Len(results)]
    <3>1. /\ queue # <<>> /\ Len(results) >= 1
          /\ row \in [prefix : 0..N, upto : 0..N] /\ row.prefix = scan.last + 1
          /\ results' = results
      BY <1>1, <2>7, CommitEffect
    <3>2. PICK s \in ScanType :
            /\ Advance(s) /\ SameFields(s, scan, {"pending", "fails", "skip"})
            /\ s.pending = scan.pending \ {scan.last + 1}
            /\ s.skip = Larger(scan.skip, row.upto)
      BY <1>1, <2>7, CommitEffect
    <3>3. row.upto \in Nat /\ row.upto >= row.prefix
      <4>1. row.upto >= queue[1].prefix /\ row.prefix = queue[1].prefix
        BY <1>1, <2>7 DEF AnswerInHand, Commit
      <4> QED
        BY <3>1, <4>1
    <3>4. s.last = scan.last
      BY <3>2 DEF SameFields
    <3>5. SameFields(scan', s, {"last"}) /\ scan'.last = scan.last + 1
      BY <1>1, <3>1, <3>2, <3>4, AdvanceEffect
    <3>6. scan'.skip = s.skip /\ scan'.pending = scan.pending \ {scan.last + 1}
      BY <3>2, <3>5 DEF SameFields
    <3>7. Len(results') \in 1..Len(results') /\ results'[Len(results')] = row
      BY <1>2, <3>1
    <3> HIDE DEF row
    <3>8. ASSUME NEW q \in Int, scan.last + 1 <= q, q <= row.upto
          PROVE  Covers(results', q, Len(results'))
      BY <3>1, <3>7, <3>8 DEF Covers
    <3>9. ASSUME NEW q \in 1..scan'.last
          PROVE  q \in scan'.pending \/ Covers(results', q, Len(results'))
      <4>1. CASE q = scan.last + 1
        BY <1>2, <3>1, <3>3, <3>8, <4>1
      <4>2. CASE q # scan.last + 1
        <5>1. q \in 1..scan.last
          BY <1>2, <3>5, <4>2
        <5>2. q \in scan.pending \/ Covers(results', q, Len(results'))
          BY <2>3, <5>1 DEF Backed
        <5> QED
          BY <3>6, <4>2, <5>2
      <4> QED
        BY <4>1, <4>2
    <3>10. ASSUME NEW q \in (scan'.last + 1)..scan'.skip
           PROVE  Covers(results', q, Len(results'))
      <4>1. /\ q \in Int /\ scan.last + 1 <= q
            /\ q <= scan.skip \/ q <= row.upto
        BY <1>2, <3>2, <3>3, <3>5, <3>6 DEF Larger
      <4>2. CASE q <= scan.skip
        <5>1. q \in (scan.last + 1)..scan.skip
          BY <1>2, <4>1, <4>2
        <5> QED
          BY <2>3, <5>1 DEF Backed
      <4>3. CASE q <= row.upto
        BY <3>8, <4>1, <4>3
      <4> QED
        BY <4>1, <4>2, <4>3
    <3> QED
      BY <3>9, <3>10 DEF Backed
  <2>8. CASE Still /\ ~Retried
    <3>1. scan'.last = scan.last /\ scan'.skip = scan.skip /\ scan'.pending = scan.pending
      BY <1>1, <2>8, StillEffect
    <3> QED
      BY <2>3, <3>1, BackedSame
  <2> QED
    BY <1>6, <2>4, <2>5, <2>6, <2>7, <2>8 DEF Next, Step, Still
<1> QED
  BY <1>5, <1>6

\* summary.txt is emptied, takes what the process has in memory once that is
\* backed by what has been synced, and after a power loss is one of the two.
LEMMA SummaryStep ==
  ASSUME IInv, [Next]_vars
  PROVE  /\ durable' \in {summary, durable}
         /\ \/ summary' \in {summary, durable}
            \/ summary' = NoSummary
            \/ /\ pc = "write" /\ UNCHANGED <<scan, results, synced>>
               /\ summary' = [last |-> scan.last, skip |-> scan.skip,
                              pending |-> scan.pending, status |-> scan.status]
<1>1. CASE CheckpointWrite
  BY <1>1 DEF CheckpointWrite
<1>2. CASE PowerLoss
  BY <1>2 DEF PowerLoss
<1>3. CASE \/ Start \/ WriteHeader \/ CheckpointSync \/ RetryPending \/ Retried
           \/ RetriesDone \/ Fill \/ Take \/ Commit \/ Decide \/ Finish \/ Interrupt
           \/ Kill \/ UNCHANGED vars
  <2>1. summary' = summary /\ durable' = durable
    BY <1>3 DEF Start, WriteHeader, CheckpointSync, RetryPending, Retried, RetriesDone,
                Fill, Take, Commit, Decide, Finish, Interrupt, Kill, vars, disk
  <2> QED
    BY <2>1
<1> QED
  BY <1>1, <1>2, <1>3 DEF Next, Step

\* No write of summary.txt claims more than what is synced.
LEMMA DiskStep ==
  ASSUME IInv, [Next]_vars
  PROVE  {summary', durable'} \subseteq Checkpoints /\ DiskBacked'
<1>1. TypeOK /\ SyncedFirst /\ MemoryBacked /\ DiskBacked
  BY DEF IInv
<1>2. N \in Nat /\ summary \in Checkpoints /\ durable \in Checkpoints
  BY <1>1, ConstantsAssumption DEF TypeOK
<1>3. ASSUME NEW s \in {summary, durable} PROVE Backed(results', s, synced')
  <2>1. /\ synced \in Nat /\ synced' \in Nat /\ synced <= synced'
        /\ \A i \in 1..synced : results'[i] = results[i]
    BY ResultsStep DEF ResultsType
  <2>2. Backed(results, s, synced)
    BY <1>1, <1>3 DEF DiskBacked
  <2> QED
    BY <2>1, <2>2, BackedExtends
<1>4. summary' \in Checkpoints /\ Backed(results', summary', synced')
  <2>1. CASE summary' \in {summary, durable}
    BY <1>2, <1>3, <2>1
  <2>2. CASE summary' = NoSummary
    <3>1. summary' \in Checkpoints
      BY <1>2, <2>2 DEF NoSummary, Checkpoints
    <3>2. summary'.last = 0 /\ summary'.skip = 0
      BY <2>2 DEF NoSummary
    <3>3. \A p : ~(p \in 1..0) /\ ~(p \in (0 + 1)..0)
      OBVIOUS
    <3> QED
      BY <3>1, <3>2, <3>3 DEF Backed
  <2>3. CASE /\ pc = "write" /\ UNCHANGED <<scan, results, synced>>
             /\ summary' = [last |-> scan.last, skip |-> scan.skip,
                            pending |-> scan.pending, status |-> scan.status]
    <3>1. /\ scan.last \in 0..N /\ scan.skip \in 0..N
          /\ scan.pending \in SUBSET (1..N) /\ scan.status \in Statuses
      BY <1>1 DEF TypeOK
    <3>2. summary' \in Checkpoints
      BY <2>3, <3>1 DEF Checkpoints
    <3>3. Backed(results, scan, synced)
      BY <1>1, <2>3 DEF MemoryBacked, SyncedFirst
    <3>4. /\ summary'.last = scan.last /\ summary'.skip = scan.skip
          /\ summary'.pending = scan.pending
      BY <2>3
    <3> QED
      BY <2>3, <3>2, <3>3, <3>4, BackedSame
  <2> QED
    BY <2>1, <2>2, <2>3, SummaryStep
<1>5. durable' \in Checkpoints /\ Backed(results', durable', synced')
  BY <1>2, <1>3, SummaryStep
<1> QED
  BY <1>4, <1>5 DEF DiskBacked

\* Only an exhausted input with nothing pending is completed.
LEMMA DoneStep ==
  ASSUME IInv, [Next]_vars
  PROVE  DoneMeansAll'
<1>1. TypeOK /\ Running /\ QueueFollows /\ AnswerInHand /\ DoneMeansAll
  BY DEF IInv
<1>2. \A s \in {scan, summary, durable} :
        s.status = "completed" => s.last = N /\ s.pending = {}
  BY <1>1 DEF DoneMeansAll
<1>3. N \in Nat /\ scan.last \in Nat /\ scan \in ScanType
  BY <1>1, ConstantsAssumption DEF TypeOK, ScanType
<1>4. ASSUME scan'.status = "completed" PROVE scan'.last = N /\ scan'.pending = {}
  <2>1. CASE Start
    BY <1>1, <1>4, <2>1, StartEffect
  <2>2. CASE Fill
    <3>1. SameFields(scan', scan, {"next"})
      BY <1>1, <2>2, FillEffect
    <3> QED
      BY <1>2, <1>4, <3>1 DEF SameFields
  <2>3. ASSUME NEW s \in ScanType, Advance(s), queue # <<>>, scan.last + 1 \in 1..N,
               s.last = scan.last, s.status = scan.status
        PROVE  FALSE
    <3>1. SameFields(scan', s, {"last"})
      BY <1>1, <2>3, AdvanceEffect
    <3>2. scan.status = "completed"
      BY <1>4, <2>3, <3>1 DEF SameFields
    <3>3. scan.last = N
      BY <1>2, <3>2
    <3> QED
      BY <1>3, <2>3, <3>3
  <2>4. CASE Take
    <3>1. queue # <<>> /\ scan.last + 1 \in 1..N
      BY <1>1, <2>4, TakeEffect
    <3>2. CASE scan' = scan
      BY <1>2, <1>4, <3>2
    <3>3. CASE \E s \in ScanType :
                 /\ Advance(s)
                 /\ s = scan \/ SameFields(s, scan, {"pending", "fails"})
      BY <2>3, <3>1, <3>3 DEF SameFields
    <3> QED
      BY <1>1, <2>4, <3>2, <3>3, TakeEffect
  <2>5. CASE Commit
    <3>1. queue # <<>> /\ queue[1].prefix = scan.last + 1
      BY <1>1, <2>5, CommitEffect
    <3>2. scan.last + 1 \in 1..N
      <4>1. queue \in QueueType /\ Len(queue) \in Nat
        BY <1>1 DEF TypeOK, QueueType
      <4>2. Len(queue) >= 1 /\ scan.last + Len(queue) <= N
        BY <1>1, <3>1, <4>1 DEF QueueFollows, QueueType
      <4> QED
        BY <1>3, <4>1, <4>2
    <3>3. PICK s \in ScanType :
            Advance(s) /\ SameFields(s, scan, {"pending", "fails", "skip"})
      BY <1>1, <2>5, CommitEffect
    <3> QED
      BY <2>3, <3>1, <3>2, <3>3 DEF SameFields
  <2>6. CASE Finish
    <3>1. pc = "take" /\ queue = <<>>
      BY <2>6 DEF Finish
    <3>2. scan.last = N
      BY <1>1, <3>1 DEF Running
    <3>3. scan'.last = scan.last /\ scan'.pending = scan.pending
      BY <1>1, <2>6, StillEffect DEF Still, Finish, Retried
    <3>4. scan.pending = {}
      BY <1>3, <1>4, <2>6 DEF Finish, ScanType
    <3> QED
      BY <3>2, <3>3, <3>4
  <2>7. CASE Retried
    <3>1. ~Finish /\ Still
      BY <2>7 DEF Retried, Finish, Still
    <3>2. scan'.last = scan.last /\ scan.status = "completed"
      BY <1>1, <1>4, <3>1, StillEffect
    <3>3. scan'.pending = scan.pending \ {Smallest(scan.todo)}
      BY <1>1, <2>7, RetriedEffect DEF Retried
    <3> QED
      BY <1>2, <3>2, <3>3
  <2>8. CASE Still /\ ~Retried /\ ~Finish
    <3>1. /\ scan'.last = scan.last /\ scan'.pending = scan.pending
          /\ scan.status = "completed"
      BY <1>1, <1>4, <2>8, StillEffect
    <3> QED
      BY <1>2, <3>1
  <2> QED
    BY <2>1, <2>2, <2>4, <2>5, <2>6, <2>7, <2>8 DEF Next, Step, Still
<1>5. ASSUME summary'.status = "completed" PROVE summary'.last = N /\ summary'.pending = {}
  <2>1. CASE summary' \in {summary, durable}
    BY <1>2, <1>5, <2>1
  <2>2. CASE summary' = NoSummary
    BY <1>5, <2>2 DEF NoSummary
  <2>3. CASE summary' = [last |-> scan.last, skip |-> scan.skip,
                         pending |-> scan.pending, status |-> scan.status]
    BY <1>2, <1>5, <2>3
  <2> QED
    BY <2>1, <2>2, <2>3, SummaryStep
<1>6. durable'.status = "completed" => durable'.last = N /\ durable'.pending = {}
  BY <1>2, SummaryStep
<1> QED
  BY <1>4, <1>5, <1>6 DEF DoneMeansAll

---------------------------------------------------------------------------
\* The theorems.

\* The invariant is inductive.
LEMMA InitInvariant ==
  ASSUME Init
  PROVE  IInv
<1>1. N \in Nat \ {0} /\ Concurrency \in Nat \ {0} /\ MaxFailures \in Nat \ {0}
  BY ConstantsAssumption
<1>2. scan = [last |-> 0, skip |-> 0, pending |-> {}, status |-> "running",
              todo |-> {}, next |-> 1, fails |-> 0]
  BY DEF Init, Fresh
<1>3. scan \in ScanType
  BY <1>1, <1>2 DEF ScanType, Statuses
<1>4. summary \in Checkpoints /\ durable = summary
  BY <1>1 DEF Init, NoSummary, Checkpoints
<1>5. /\ queue = <<>> /\ Len(queue) = 0 /\ results = <<>> /\ Len(results) = 0
      /\ synced = 0 /\ pc = "off" /\ then = "off" /\ faults = 0
  BY DEF Init
<1>6. queue \in QueueType /\ results \in ResultsType
  BY <1>5 DEF QueueType, ResultsType
<1>7. TypeOK
  BY <1>1, <1>3, <1>4, <1>5, <1>6 DEF TypeOK, Labels, ScanType, QueueType, ResultsType
<1>8. QueueFollows
  BY <1>1, <1>2, <1>5 DEF QueueFollows, From, Larger
<1>9. Running /\ AnswerInHand /\ SyncedFirst /\ MemoryBacked
  BY <1>5 DEF Running, AnswerInHand, SyncedFirst, MemoryBacked
<1>10. DiskBacked
  <2>1. \A p : ~(p \in 1..0) /\ ~(p \in (0 + 1)..0)
    OBVIOUS
  <2> QED
    BY <2>1 DEF Init, DiskBacked, Backed, NoSummary
<1>11. DoneMeansAll
  BY <1>2 DEF Init, DoneMeansAll, NoSummary
<1> QED
  BY <1>7, <1>8, <1>9, <1>10, <1>11 DEF IInv

\* Every step keeps it.
LEMMA StepInvariant ==
  ASSUME IInv, [Next]_vars
  PROVE  IInv'
<1>1. TypeOK /\ QueueFollows
  BY DEF IInv
<1>2. pc' \in Labels /\ then' \in {"off", "retry", "decide"} /\ faults' \in Nat
  BY <1>1, ControlStep
<1>3. scan' \in ScanType /\ queue' \in QueueType /\ Len(queue') <= Concurrency
  BY MemoryTypeStep
<1>4. results' \in ResultsType /\ synced' \in 0..Len(results')
  BY ResultsStep
<1>5. {summary', durable'} \subseteq Checkpoints /\ DiskBacked'
  BY DiskStep
<1>6. TypeOK'
  BY <1>2, <1>3, <1>4, <1>5 DEF TypeOK, ScanType, QueueType, ResultsType
<1>7. Running' /\ QueueFollows' /\ MemoryBacked' /\ DoneMeansAll'
  BY RunningStep, QueueStep, MemoryStep, DoneStep
<1>8. AnswerInHand' /\ SyncedFirst'
  BY AnswerStep
<1> QED
  BY <1>5, <1>6, <1>7, <1>8 DEF IInv

\* The invariant of the scan, from which the rest follows.
THEOREM Invariant == Spec => []IInv
<1>1. Init => IInv
  BY InitInvariant
<1>2. IInv /\ [Next]_vars => IInv'
  BY StepInvariant
<1> QED
  BY <1>1, <1>2, PTL DEF Spec

\* Every variable keeps its type, the queue its bound, and results.csv is never
\* shorter than what has been synced of it.
THEOREM TypeCorrect == Spec => []TypeOK
<1>1. IInv => TypeOK
  BY DEF IInv
<1> QED
  BY <1>1, Invariant, PTL

\* No checkpoint that a later run may find claims more than the rows on disk
\* can back, wherever the process or the machine has stopped.
THEOREM CheckpointsAreBacked == Spec => []CheckpointBacked
<1>1. IInv => CheckpointBacked
  BY DEF IInv, DiskBacked, Backed, Covers, CheckpointBacked, Accounted
<1> QED
  BY <1>1, Invariant, PTL

\* A checkpoint that says completed accounts for every prefix of the input.
THEOREM CompletedAccountsForAll == Spec => []CompletedIsComplete
<1>1. IInv => CompletedIsComplete
  BY DEF IInv, DiskBacked, Backed, Covers, DoneMeansAll, CompletedIsComplete, Accounted
<1> QED
  BY <1>1, Invariant, PTL

---------------------------------------------------------------------------
\* What is queried more than once.

\* The prefixes of the queue that were sent before a scope covered them.
Redundant == {i \in DOMAIN queue : queue[i].sent /\ queue[i].prefix <= scan.skip}

\* There are as many of them as positions at most.
LEMMA FewPositions ==
  ASSUME NEW S, NEW n \in Nat, S \subseteq 1..n
  PROVE  Cardinality(S) \in Nat /\ Cardinality(S) <= n
<1>1. IsFiniteSet(1..n) /\ Cardinality(1..n) = n
  BY FS_Interval
<1> QED
  BY <1>1, FS_Subset, FS_CardinalityType

\* A fill either appends nothing or leaves its last entry outside every known
\* scope; only what is in the queue already can be covered later.
LEMMA RedundantStep ==
  ASSUME IInv, IInv', [Next]_vars, RedundantBound
  PROVE  RedundantBound'
<1>1. TypeOK /\ Running /\ QueueFollows /\ AnswerInHand
  BY DEF IInv
<1>2. /\ Concurrency \in Nat \ {0} /\ Len(queue) \in Nat /\ queue \in QueueType
      /\ queue' \in QueueType /\ Len(queue') \in Nat /\ Len(queue') <= Concurrency
      /\ DOMAIN queue = 1..Len(queue) /\ DOMAIN queue' = 1..Len(queue')
  BY ConstantsAssumption DEF IInv, TypeOK, QueueType
<1>3. Len(queue) <= Concurrency
  BY <1>1 DEF TypeOK
<1>4. CASE queue' = queue /\ scan'.skip = scan.skip
  BY <1>4 DEF RedundantBound
<1>5. ASSUME Len(queue') < Concurrency PROVE RedundantBound'
  <2>1. Redundant' \subseteq 1..Len(queue')
    BY <1>2 DEF Redundant
  <2>2. Cardinality(Redundant') \in Nat /\ Cardinality(Redundant') <= Len(queue')
    BY <1>2, <2>1, FewPositions
  <2> QED
    BY <1>2, <1>5, <2>2 DEF RedundantBound, Redundant
<1>6. CASE Start
  <2>1. Len(queue') = 0
    BY <1>6 DEF Start
  <2> QED
    BY <1>2, <1>5, <2>1
<1>7. CASE Fill
  <2>1. /\ SameFields(scan', scan, {"next"})
        /\ Len(queue') = Len(queue) + (Upto - From + 1)
        /\ \A i \in 1..Len(queue) : queue'[i] = queue[i]
        /\ \A i \in (Len(queue) + 1)..Len(queue') :
             queue'[i].sent => queue'[i].prefix > scan.skip
    BY <1>1, <1>7, FillEffect
  <2>2. scan'.skip = scan.skip
    BY <2>1 DEF SameFields
  <2>3. Upto - From + 1 \in Nat
    BY <1>1, <1>2, NextPosition
  <2>4. CASE Upto - From + 1 = 0
    <3>1. Len(queue') = Len(queue)
      BY <1>2, <2>1, <2>4
    <3>2. \A i \in 1..Len(queue) : queue'[i] = queue[i]
      BY <2>1
    <3>3. Redundant' = Redundant
      BY <1>2, <2>2, <3>1, <3>2 DEF Redundant
    <3> QED
      BY <3>3 DEF RedundantBound, Redundant
  <2>5. CASE Upto - From + 1 # 0
    <3>1. Len(queue') >= Len(queue) + 1
      BY <1>2, <2>1, <2>3, <2>5
    <3>2. Len(queue') \in (Len(queue) + 1)..Len(queue')
      BY <1>2, <3>1
    <3>3. queue'[Len(queue')].sent => queue'[Len(queue')].prefix > scan.skip
      BY <2>1, <3>2
    <3>4. queue'[Len(queue')].prefix \in Nat /\ scan.skip \in Nat
      <4>1. queue'[Len(queue')] \in [prefix : 1..N, sent : BOOLEAN]
        <5>1. Len(queue') \in 1..Len(queue')
          BY <1>2, <3>1
        <5> QED
          BY <1>2, <5>1, Element DEF QueueType
      <4>2. scan \in ScanType
        BY <1>1 DEF TypeOK, ScanType
      <4> QED
        BY <4>1, <4>2, ConstantsAssumption DEF ScanType
    <3>5. Len(queue') \notin Redundant'
      BY <2>2, <3>3, <3>4 DEF Redundant
    <3>6. Redundant' \subseteq 1..(Len(queue') - 1)
      <4> SUFFICES ASSUME NEW i \in Redundant' PROVE i \in 1..(Len(queue') - 1)
        OBVIOUS
      <4>1. i \in 1..Len(queue')
        BY <1>2 DEF Redundant
      <4>2. i # Len(queue') /\ Len(queue') \in Nat
        BY <1>2, <3>5
      <4> QED
        BY <4>1, <4>2
    <3>7. Len(queue') - 1 \in Nat
      BY <1>2, <3>1
    <3>8. /\ Cardinality(Redundant') \in Nat
          /\ Cardinality(Redundant') <= Len(queue') - 1
      BY <3>6, <3>7, FewPositions
    <3>9. Cardinality(Redundant') < Concurrency
      BY <1>2, <3>8
    <3> QED
      BY <3>9 DEF RedundantBound, Redundant
  <2> QED
    BY <2>4, <2>5
<1>8. ASSUME NEW s \in ScanType, Advance(s), queue # <<>>, s.last = scan.last
      PROVE  RedundantBound'
  <2>1. Len(queue') = Len(queue) - 1
    BY <1>1, <1>8, AdvanceEffect
  <2> QED
    BY <1>2, <1>3, <1>5, <2>1
<1>9. CASE Take
  <2>1. queue # <<>>
    BY <1>9 DEF Take
  <2>2. CASE UNCHANGED <<scan, queue>>
    BY <1>4, <2>2
  <2>3. CASE \E s \in ScanType :
               /\ Advance(s)
               /\ s = scan \/ SameFields(s, scan, {"pending", "fails"})
    BY <1>8, <2>1, <2>3 DEF SameFields
  <2> QED
    BY <1>1, <1>9, <2>2, <2>3, TakeEffect
<1>10. CASE Commit
  <2>1. PICK s \in ScanType : Advance(s) /\ SameFields(s, scan, {"pending", "fails", "skip"})
    BY <1>1, <1>10, CommitEffect
  <2>2. queue # <<>>
    BY <1>1, <1>10, CommitEffect
  <2> QED
    BY <1>8, <2>1, <2>2 DEF SameFields
<1>11. CASE Still
  BY <1>1, <1>4, <1>11, StillEffect
<1> QED
  BY <1>6, <1>7, <1>9, <1>10, <1>11 DEF Next, Step, Still

\* At most concurrency - 1 of the prefixes that are in flight lie inside a scope
\* that became known after they were sent.
THEOREM RedundantBounded == Spec => []RedundantBound
<1>1. Init => RedundantBound
  <2> SUFFICES ASSUME Init PROVE RedundantBound
    OBVIOUS
  <2>1. Redundant \subseteq 1..0
    BY DEF Init, Redundant
  <2>2. Cardinality(Redundant) \in Nat /\ Cardinality(Redundant) <= 0
    BY <2>1, FewPositions
  <2> QED
    BY <2>2, ConstantsAssumption DEF RedundantBound, Redundant
<1>2. IInv /\ IInv' /\ [Next]_vars /\ RedundantBound => RedundantBound'
  BY RedundantStep
<1> QED
  BY <1>1, <1>2, Invariant, PTL DEF Spec

---------------------------------------------------------------------------
\* What one run hands to the next.

Checkpointing == {"sync", "truncate", "write", "fsync"}

\* State a has processed all that b has, and of what b has processed it takes
\* nothing back.
Ahead(a, b) ==
  /\ a.last >= b.last /\ a.skip >= b.skip
  /\ a.pending \subseteq b.pending \cup (b.last + 1)..N

\* summary.txt is never behind the version on disk, nor the run behind either.
InOrder ==
  /\ summary # NoSummary => Ahead(summary, durable)
  /\ pc # "off" => Ahead(scan, summary) /\ Ahead(scan, durable)

\* Past its header a run has a results.csv, and a checkpoint goes with one.
Started ==
  /\ \A s \in {summary, durable} : s # NoSummary => synced >= 1
  /\ pc \notin {"off", "header"} => Len(results) >= 1

\* Prefixes are retried once the checkpoint that lists them is on disk.
RetriesListed ==
  /\ pc = "header" \/ (pc \in Checkpointing /\ then = "retry")
       => scan.todo \subseteq scan.pending
  /\ pc = "fsync" /\ then = "retry" => scan.todo \subseteq summary.pending
  /\ pc \in {"retry", "retried"} => scan.todo \subseteq durable.pending

HandOver == InOrder /\ Started /\ RetriesListed


LEMMA PositionTypes ==
  ASSUME TypeOK
  PROVE  \A s \in {scan, summary, durable} :
           s.last \in 0..N /\ s.skip \in 0..N /\ s.pending \subseteq 1..N
<1>1. scan \in ScanType /\ {summary, durable} \subseteq Checkpoints
  BY DEF TypeOK, ScanType
<1>2. scan.last \in 0..N /\ scan.skip \in 0..N /\ scan.pending \subseteq 1..N
  BY <1>1 DEF ScanType
<1>3. ASSUME NEW s \in {summary, durable}
      PROVE  s.last \in 0..N /\ s.skip \in 0..N /\ s.pending \subseteq 1..N
  BY <1>1 DEF Checkpoints
<1> QED
  BY <1>2, <1>3

\* What is ahead of one state is ahead of all that this is ahead of.
LEMMA AheadTransitive ==
  ASSUME NEW a, NEW b, NEW c,
         a.last \in Int, b.last \in Int, c.last \in Int,
         a.skip \in Int, b.skip \in Int, c.skip \in Int,
         Ahead(a, b), Ahead(b, c)
  PROVE  Ahead(a, c)
<1>1. a.last >= c.last /\ a.skip >= c.skip
  BY DEF Ahead
<1>2. (b.last + 1)..N \subseteq (c.last + 1)..N
  BY ConstantsAssumption DEF Ahead
<1>3. a.pending \subseteq c.pending \cup (c.last + 1)..N
  BY <1>2 DEF Ahead
<1> QED
  BY <1>1, <1>3 DEF Ahead

\* Once it has started, a run only goes on.
LEMMA OnlyForward ==
  ASSUME IInv, [Next]_vars, ~Start
  PROVE  Ahead(scan', scan)
<1>1. TypeOK /\ Running /\ QueueFollows /\ AnswerInHand
  BY DEF IInv
<1>2. scan.last \in 0..N /\ scan.skip \in 0..N /\ N \in Nat
  BY <1>1, ConstantsAssumption, PositionTypes
<1>3. CASE scan' = scan
  BY <1>2, <1>3 DEF Ahead
<1>4. CASE Fill
  <2>1. SameFields(scan', scan, {"next"})
    BY <1>1, <1>4, FillEffect
  <2> QED
    BY <1>2, <2>1 DEF SameFields, Ahead
<1>5. CASE Take
  <2>1. queue # <<>> /\ scan.last + 1 \in 1..N
    BY <1>1, <1>5, TakeEffect
  <2>2. ASSUME NEW s \in ScanType, Advance(s),
               \/ s = scan
               \/ /\ SameFields(s, scan, {"pending", "fails"})
                  /\ s.pending = scan.pending \cup {scan.last + 1}
        PROVE  Ahead(scan', scan)
    <3>1. s.last = scan.last /\ s.skip = scan.skip
      BY <2>2 DEF SameFields
    <3>2. SameFields(scan', s, {"last"}) /\ scan'.last = scan.last + 1
      BY <1>1, <2>1, <2>2, <3>1, AdvanceEffect
    <3>3. /\ scan'.skip = scan.skip
          /\ scan'.pending \subseteq scan.pending \cup {scan.last + 1}
      BY <2>2, <3>1, <3>2 DEF SameFields
    <3>4. scan.last + 1 \in (scan.last + 1)..N
      BY <1>2, <2>1
    <3> QED
      BY <1>2, <3>2, <3>3, <3>4 DEF Ahead
  <2> QED
    BY <1>1, <1>3, <1>5, <2>2, TakeEffect
<1>6. CASE Commit
  <2>1. queue # <<>> /\ results[Len(results)] \in [prefix : 0..N, upto : 0..N]
    BY <1>1, <1>6, CommitEffect
  <2>2. PICK s \in ScanType :
          /\ Advance(s) /\ SameFields(s, scan, {"pending", "fails", "skip"})
          /\ s.pending = scan.pending \ {scan.last + 1}
          /\ s.skip = Larger(scan.skip, results[Len(results)].upto)
    BY <1>1, <1>6, CommitEffect
  <2>3. SameFields(scan', s, {"last"}) /\ scan'.last = scan.last + 1
    BY <1>1, <2>1, <2>2, AdvanceEffect DEF SameFields
  <2>4. scan'.skip = s.skip /\ scan'.pending \subseteq scan.pending
    BY <2>2, <2>3 DEF SameFields
  <2>5. s.skip >= scan.skip
    BY <1>2, <2>1, <2>2 DEF Larger
  <2> QED
    BY <1>2, <2>3, <2>4, <2>5 DEF Ahead
<1>7. CASE Still
  <2>1. /\ scan'.last = scan.last /\ scan'.skip = scan.skip
        /\ Retried \/ scan'.pending = scan.pending
    BY <1>1, <1>7, StillEffect
  <2>2. Retried => scan'.pending \subseteq scan.pending
    <3> SUFFICES ASSUME Retried PROVE scan'.pending \subseteq scan.pending
      OBVIOUS
    <3>1. PICK p : scan' = [scan EXCEPT !.todo = @ \ {p}, !.pending = @ \ {p}, !.fails = 0]
      BY DEF Retried
    <3>2. scan'.pending = scan.pending \ {p}
      BY <1>1, <3>1, RetriedEffect
    <3> QED
      BY <3>2
  <2> QED
    BY <1>2, <2>1, <2>2 DEF Ahead
<1> QED
  BY <1>4, <1>5, <1>6, <1>7 DEF Next, Step, Still

\* The order is kept: a checkpoint takes what the run has, the disk takes what
\* the checkpoint has, and the next run starts from the checkpoint.
LEMMA OrderStep ==
  ASSUME IInv, IInv', [Next]_vars, InOrder, Started
  PROVE  InOrder'
<1>1. TypeOK /\ TypeOK'
  BY DEF IInv
<1>2. \A s \in {scan, summary, durable, scan', summary', durable'} :
        s.last \in 0..N /\ s.skip \in 0..N /\ s.pending \subseteq 1..N
  <2>1. /\ scan' \in ScanType /\ summary' \in Checkpoints /\ durable' \in Checkpoints
        /\ scan \in ScanType /\ summary \in Checkpoints /\ durable \in Checkpoints
    BY <1>1 DEF TypeOK, ScanType
  <2>2. \A s \in ScanType \cup Checkpoints :
          s.last \in 0..N /\ s.skip \in 0..N /\ s.pending \subseteq 1..N
    BY DEF ScanType, Checkpoints
  <2> QED
    BY <2>1, <2>2
<1>3. \A s \in {scan, summary, durable, scan', summary', durable'} : Ahead(s, s)
  BY <1>2 DEF Ahead
<1>4. \A s \in {scan, summary, durable, scan', summary', durable'} : Ahead(s, NoSummary)
  <2>1. NoSummary.last = 0 /\ NoSummary.skip = 0
    BY DEF NoSummary
  <2> QED
    BY <1>2, <2>1 DEF Ahead
<1>5. CASE Start
  <2>1. /\ pc = "off" /\ UNCHANGED <<summary, durable>>
        /\ results = <<>> \/ summary # NoSummary
    BY <1>5 DEF Start, Readable, disk
  <2>2. /\ scan'.last = summary.last /\ scan'.skip = summary.skip
        /\ scan'.pending = summary.pending
    BY <1>1, <1>5, StartEffect
  <2>3. Ahead(scan', summary)
    BY <1>3, <2>2 DEF Ahead
  <2>4. durable = NoSummary \/ summary # NoSummary
    <3>1. results = <<>> => synced = 0
      BY <1>1 DEF TypeOK
    <3> QED
      BY <2>1, <3>1 DEF Started
  <2>5. Ahead(scan', durable)
    <3>1. summary # NoSummary => Ahead(summary, durable)
      BY DEF InOrder
    <3> QED
      BY <1>4, <2>2, <2>4, <3>1 DEF Ahead
  <2> QED
    BY <2>1, <2>3, <2>5 DEF InOrder
<1>6. CASE CheckpointWrite
  <2>1. pc \in {"truncate", "write", "fsync"} /\ scan' = scan
    BY <1>6 DEF CheckpointWrite
  <2>2. Ahead(scan, summary) /\ Ahead(scan, durable)
    BY <2>1 DEF InOrder
  <2>3. CASE summary' = NoSummary /\ durable' = durable
    BY <1>4, <2>1, <2>2, <2>3 DEF InOrder
  <2>4. CASE durable' = durable /\ summary' = [last |-> scan.last, skip |-> scan.skip,
                                               pending |-> scan.pending,
                                               status |-> scan.status]
    <3>1. /\ summary'.last = scan.last /\ summary'.skip = scan.skip
          /\ summary'.pending = scan.pending
      BY <2>4
    <3>2. Ahead(scan, summary') /\ Ahead(summary', durable)
      BY <1>3, <2>2, <3>1 DEF Ahead
    <3> QED
      BY <2>1, <2>2, <2>4, <3>2 DEF InOrder
  <2>5. CASE durable' = summary /\ summary' = summary
    BY <1>3, <2>1, <2>2, <2>5 DEF InOrder
  <2> QED
    BY <1>6, <2>3, <2>4, <2>5 DEF CheckpointWrite
<1>7. CASE PowerLoss
  <2>1. pc' = "off" /\ durable' = summary'
    BY <1>7 DEF PowerLoss
  <2> QED
    BY <1>3, <2>1 DEF InOrder
<1>8. CASE ~Start /\ UNCHANGED <<summary, durable>>
  <2>1. Ahead(scan', scan)
    BY <1>8, OnlyForward
  <2>2. pc' # "off" => pc # "off"
    BY <1>1, <1>8, ControlStep DEF IInv
  <2>3. ASSUME NEW s \in {summary, durable}, pc' # "off" PROVE Ahead(scan', s)
    <3>1. Ahead(scan, s)
      BY <2>2, <2>3 DEF InOrder
    <3>2. /\ s.last \in Int /\ scan.last \in Int /\ scan'.last \in Int
          /\ s.skip \in Int /\ scan.skip \in Int /\ scan'.skip \in Int
      BY <1>2
    <3> QED
      BY <2>1, <3>1, <3>2, AheadTransitive
  <2> QED
    BY <1>8, <2>3 DEF InOrder
<1>9. CASE ~Start /\ ~CheckpointWrite /\ ~PowerLoss
  <2>1. UNCHANGED <<summary, durable>>
    BY <1>9 DEF Next, Step, WriteHeader, CheckpointSync, RetryPending, Retried,
                RetriesDone, Fill, Take, Commit, Decide, Finish, Interrupt, Kill, vars, disk
  <2> QED
    BY <1>8, <1>9, <2>1
<1> QED
  BY <1>5, <1>6, <1>7, <1>9

\* A checkpoint is written over a results.csv that has its header.
LEMMA StartedStep ==
  ASSUME IInv, IInv', [Next]_vars, Started
  PROVE  Started'
<1>1. TypeOK /\ SyncedFirst /\ QueueFollows
  BY DEF IInv
<1>2. synced \in Nat /\ synced' \in Nat /\ synced <= synced' /\ Len(results) \in Nat
  BY <1>1, ResultsStep DEF TypeOK, ResultsType
<1>3. ASSUME NEW s \in {summary', durable'}, s # NoSummary PROVE synced' >= 1
  <2>1. CASE s \in {summary, durable}
    BY <1>2, <1>3, <2>1 DEF Started
  <2>2. CASE pc = "write" /\ synced' = synced
    <3>1. Len(results) >= 1 /\ synced = Len(results)
      BY <1>1, <2>2 DEF Started, SyncedFirst
    <3> QED
      BY <1>2, <2>2, <3>1
  <2> QED
    BY <1>3, <2>1, <2>2, SummaryStep
<1>4. ASSUME pc' \notin {"off", "header"} PROVE Len(results') >= 1
  <2>1. ~PowerLoss
    BY <1>4 DEF PowerLoss
  <2>2. Len(results') \in Nat /\ Len(results) <= Len(results')
    BY <2>1, ResultsStep DEF ResultsType
  <2>3. CASE pc \notin {"off", "header"}
    BY <1>2, <2>2, <2>3 DEF Started
  <2>4. CASE WriteHeader
    <3>1. CASE results = <<>>
      BY <2>4, <3>1 DEF WriteHeader
    <3>2. CASE results # <<>>
      <4>1. Len(results) >= 1
        BY <1>1, <1>2, <3>2 DEF TypeOK
      <4> QED
        BY <1>2, <2>2, <4>1
    <3> QED
      BY <3>1, <3>2
  <2>5. CASE pc \in {"off", "header"} /\ ~WriteHeader
    <3>1. ~Start
      BY <1>4 DEF Start
    <3>2. pc = "header"
      BY <1>1, <1>4, <2>5, <3>1, ControlStep
    <3>3. Interrupt \/ Kill \/ UNCHANGED vars
      BY <2>1, <2>5, <3>1, <3>2
      DEF Next, Step, CheckpointSync, CheckpointWrite, RetryPending, Retried, RetriesDone,
          Fill, Take, Commit, Decide, Finish
    <3>4. pc' = "off" \/ pc' = pc
      BY <3>2, <3>3 DEF Interrupt, InTry, Kill, vars
    <3> QED
      BY <1>4, <3>2, <3>4
  <2> QED
    BY <2>3, <2>4, <2>5
<1> QED
  BY <1>3, <1>4 DEF Started

\* What is to be retried is on the checkpoint that the run starts with.
LEMMA RetriesStep ==
  ASSUME IInv, IInv', [Next]_vars, RetriesListed
  PROVE  RetriesListed'
<1> USE DEF RetriesListed, Checkpointing
<1>1. TypeOK /\ Running /\ QueueFollows /\ AnswerInHand
  BY DEF IInv
<1>2. pc \in Labels /\ then \in {"off", "retry", "decide"}
  BY <1>1 DEF TypeOK
<1> HIDE DEF TypeOK
<1>3. CASE Start
  <2>1. scan'.todo = scan'.pending /\ pc' = "header"
    BY <1>1, <1>3, StartEffect DEF Start
  <2> QED
    BY <2>1
<1>4. CASE WriteHeader \/ CheckpointSync
  BY <1>4 DEF WriteHeader, CheckpointSync, CheckpointThen
<1>5. CASE CheckpointWrite
  <2>1. UNCHANGED <<scan, then>>
    BY <1>5 DEF CheckpointWrite
  <2>2. CASE pc = "truncate"
    BY <1>5, <2>1, <2>2 DEF CheckpointWrite
  <2>3. CASE pc = "write"
    BY <1>5, <2>1, <2>3 DEF CheckpointWrite
  <2>4. CASE pc = "fsync"
    BY <1>2, <1>5, <2>1, <2>4 DEF CheckpointWrite
  <2> QED
    BY <1>5, <2>2, <2>3, <2>4 DEF CheckpointWrite
<1>6. CASE RetryPending
  <2>1. CASE scan' = scan
    BY <1>6, <2>1 DEF RetryPending
  <2>2. CASE scan' # scan
    <3>1. PICK p : /\ scan' = Failing([scan EXCEPT !.todo = @ \ {p}])
                   /\ pc = "retry" /\ pc' = pc /\ UNCHANGED durable
      BY <1>6, <2>2 DEF RetryPending
    <3>2. scan'.todo \subseteq scan.todo
      <4>1. scan \in ScanType
        BY <1>1 DEF TypeOK, ScanType
      <4> QED
        BY <3>1, <4>1 DEF Failing, ScanType
    <3> QED
      BY <3>1, <3>2
  <2> QED
    BY <2>1, <2>2
<1>7. CASE Retried
  <2>1. PICK p : /\ scan' = [scan EXCEPT !.todo = @ \ {p}, !.pending = @ \ {p}, !.fails = 0]
                 /\ pc = "retried" /\ pc' = "retry" /\ UNCHANGED durable
    BY <1>7 DEF Retried, disk
  <2>2. scan'.todo \subseteq scan.todo
    <3>1. scan \in ScanType
      BY <1>1 DEF TypeOK, ScanType
    <3> QED
      BY <2>1, <3>1 DEF ScanType
  <2> QED
    BY <2>1, <2>2
<1>8. CASE RetriesDone \/ Decide \/ Finish
  BY <1>8 DEF RetriesDone, Decide, Finish, CheckpointThen
<1>9. CASE Fill
  BY <1>9 DEF Fill
<1>10. CASE Take \/ Commit
  <2>1. pc \in {"take", "commit"}
    BY <1>10 DEF Take, Commit
  <2>2. pc' \in {"commit", "decide"} \/ (pc' = "sync" /\ then' = "decide")
    BY <1>10 DEF Take, Commit, Advance, CheckpointThen
  <2> QED
    BY <2>2
<1>11. CASE Interrupt
  BY <1>11 DEF Interrupt, CheckpointThen
<1>12. CASE Kill \/ PowerLoss
  BY <1>12 DEF Kill, PowerLoss
<1>13. CASE UNCHANGED vars
  BY <1>13 DEF vars
<1> QED
  BY <1>3, <1>4, <1>5, <1>6, <1>7, <1>8, <1>9, <1>10, <1>11, <1>12, <1>13 DEF Next, Step

\* What one run hands to the next is in order in every state.
LEMMA HandOverAlways == Spec => []HandOver
<1>1. Init => HandOver
  <2> SUFFICES ASSUME Init PROVE HandOver
    OBVIOUS
  <2> QED
    BY DEF Init, HandOver, InOrder, Started, RetriesListed, Checkpointing
<1>2. IInv /\ IInv' /\ [Next]_vars /\ HandOver => HandOver'
  BY OrderStep, StartedStep, RetriesStep DEF HandOver
<1> QED
  BY <1>1, <1>2, Invariant, PTL DEF Spec

\* An answer is added for the prefix at hand, which is beyond what the checkpoint
\* on disk has processed, or for one that it lists as pending.
LEMMA AnswersAreNew ==
  ASSUME IInv, HandOver, [Next]_vars,
         Len(results') > Len(results), Len(results') > 1
  PROVE  LET p == results'[Len(results')].prefix
         IN p > Larger(durable.last, durable.skip) \/ p \in durable.pending
<1>1. TypeOK /\ Running /\ QueueFollows /\ AnswerInHand
  BY DEF IInv
<1>2. results \in ResultsType /\ Len(results) \in Nat /\ N \in Nat
  BY <1>1, ConstantsAssumption DEF TypeOK, ResultsType
<1>3. \A s \in {scan, durable} : s.last \in 0..N /\ s.skip \in 0..N
  BY <1>1, PositionTypes
<1>4. ASSUME NEW p, NEW upto, Answered(p, upto)
      PROVE  results'[Len(results')].prefix = p
  BY <1>2, <1>4 DEF Answered, ResultsType
<1>5. CASE RetryPending
  <2>1. pc = "retry" /\ scan.todo # {} /\ scan.todo \subseteq 1..N
    BY <1>1, <1>5 DEF RetryPending, TypeOK
  <2>2. Smallest(scan.todo) \in scan.todo
    BY <1>2, <2>1, SmallestIsMember
  <2>3. results' # results
    BY <1>2
  <2>4. PICK upto : Answered(Smallest(scan.todo), upto)
    BY <1>5, <2>3 DEF RetryPending
  <2>5. scan.todo \subseteq durable.pending
    BY <2>1 DEF HandOver, RetriesListed
  <2> QED
    BY <1>4, <2>2, <2>4, <2>5
<1>6. CASE Take
  <2>1. results' # results
    BY <1>2
  <2>2. PICK p, upto : p = Head(queue).prefix /\ p > scan.skip /\ Answered(p, upto)
    BY <1>6, <2>1 DEF Take
  <2>3. pc = "take" /\ queue # <<>> /\ queue[1].prefix = scan.last + 1
    BY <1>1, <1>6, TakeEffect DEF Take
  <2>4. Head(queue) = queue[1]
    BY <1>1, <2>3 DEF TypeOK
  <2>5. scan.last >= durable.last /\ scan.skip >= durable.skip
    BY <2>3 DEF HandOver, InOrder, Ahead
  <2>6. p > Larger(durable.last, durable.skip)
    BY <1>3, <2>2, <2>3, <2>4, <2>5 DEF Larger
  <2> QED
    BY <1>4, <2>2, <2>6
<1>7. CASE WriteHeader
  <2>1. Len(results') = 1 \/ results' = results
    BY <1>7 DEF WriteHeader
  <2> QED
    BY <1>2, <2>1
<1>8. CASE PowerLoss
  <2>1. PICK n \in synced..Len(results) : results' = SubSeq(results, 1, n)
    BY <1>8 DEF PowerLoss
  <2>2. n \in Nat /\ n <= Len(results)
    BY <1>1, <1>2, <2>1 DEF TypeOK
  <2>3. Len(results') = n
    BY <1>2, <2>1, <2>2, Shorter DEF ResultsType
  <2> QED
    BY <1>2, <2>2, <2>3
<1>9. CASE UNCHANGED results
  BY <1>2, <1>9
<1> QED
  BY <1>5, <1>6, <1>7, <1>8, <1>9
  DEF Next, Step, Start, CheckpointSync, CheckpointWrite, Retried, RetriesDone, Fill, Commit,
      Decide, Finish, Interrupt, Kill, vars, disk

\* A repeated query costs at most one checkpoint interval: no answer is added for
\* a prefix that the checkpoint on disk has accounted for, and no later checkpoint
\* takes back what it has accounted for, whatever ends the runs in between.
THEOREM RepeatsBounded == Spec => RepeatsAreBounded
<1>1. ASSUME IInv, HandOver, [Next]_vars, durable' # NoSummary
      PROVE  /\ durable'.last >= durable.last /\ durable'.skip >= durable.skip
             /\ durable'.pending \subseteq durable.pending \cup (durable.last + 1)..N
  <2>1. durable' \in {summary, durable}
    BY <1>1, SummaryStep
  <2>2. durable.last \in 0..N /\ durable.skip \in 0..N
    BY <1>1, PositionTypes DEF IInv
  <2>3. Ahead(durable', durable)
    BY <1>1, <2>1, <2>2 DEF HandOver, InOrder, Ahead
  <2> QED
    BY <2>3 DEF Ahead
<1>2. ASSUME IInv, HandOver, [Next]_vars
      PROVE  [/\ Len(results') > Len(results) /\ Len(results') > 1
                   => LET p == results'[Len(results')].prefix
                      IN p > Larger(durable.last, durable.skip) \/ p \in durable.pending
              /\ durable' # NoSummary
                   => /\ durable'.last >= durable.last /\ durable'.skip >= durable.skip
                      /\ durable'.pending \subseteq
                           durable.pending \cup (durable.last + 1)..N]_vars
  BY <1>1, <1>2, AnswersAreNew
<1> QED
  BY <1>2, Invariant, HandOverAlways, PTL DEF Spec, RepeatsAreBounded

=============================================================================
