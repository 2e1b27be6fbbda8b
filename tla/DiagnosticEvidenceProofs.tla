----------------------- MODULE DiagnosticEvidenceProofs -----------------------
(***************************************************************************)
(* Theorems about DiagnosticEvidence, for any number of connections and    *)
(* deliveries and for every course of the attempt.                         *)
(***************************************************************************)
EXTENDS DiagnosticEvidence, FiniteSetTheorems, TLAPS

\* Once a delivery has found TCP unblocked, only arming the gate anew blocks it
\* again.
Lapsed == rows # <<>> /\ ~rows[1].blocked /\ ~rearmed => left = 0

\* An attempt whose conditions have not changed has ended behind a valid gate,
\* which does not move any more.
GateRead == phase \in {"closing", "sealed"} /\ ~end.changed => left >= Minimum

\* What supported the claim still does, as long as the log holds one delivery.
StillSupports ==
  verdict \in Supports =>
    /\ phase = "sealed" /\ rows # <<>>
    /\ Len(rows) = 1 => Lifecycle(Classify) \in Supports

USE EvidenceAssumption

---------------------------------------------------------------------------
\* Types.

Row == [proto : {"h3", "h2"}, from : {"relay", "unknown", "own"},
        fresh : BOOLEAN, late : BOOLEAN, blocked : BOOLEAN]

\* The Boolean variables, and the others, action by action.
Flags ==
  /\ overdue \in BOOLEAN /\ table \in BOOLEAN /\ rearmed \in BOOLEAN
  /\ direct \in BOOLEAN /\ dropped \in BOOLEAN /\ pcaps \in BOOLEAN /\ damaged \in BOOLEAN
Numbers ==
  /\ left \in 0..Life /\ pre \in 0..Life /\ post \in 0..Life
  /\ archive \in 0..Len(rows) /\ prefix \in 0..Len(rows) /\ saved \in 0..Len(rows)
  /\ odd \in 0..MaxOddities
Values ==
  /\ condition \in Conditions /\ phase \in {"captured", "open", "closing", "sealed"}
  /\ end \in [outcome : Outcomes, changed : BOOLEAN] /\ verdict \in Verdicts
Log == rows \in Seq(Row) /\ Len(rows) <= MaxRows
Capture == flows \in [Flows -> Seq(0..2)] /\ \A f \in Flows : Len(flows[f]) <= 3

LEMMA TypeParts == TypeOK <=> Flags /\ Numbers /\ Values /\ Log /\ Capture
  BY Zenon DEF TypeOK, Flags, Numbers, Values, Log, Capture, Row

LEMMA TypeInit == ASSUME Init PROVE TypeOK
<1>1. Flags BY DEF Init, Flags
<1>2. Numbers BY DEF Init, Numbers
<1>3. Values BY DEF Init, Values, Outcomes, Verdicts
<1>4. Log BY DEF Init, Log
<1>5. Capture BY DEF Init, Capture
<1> QED BY <1>1, <1>2, <1>3, <1>4, <1>5, TypeParts

\* The next packet of a connection, at a time from 0 to 2.
LEMMA TypeOuterPacket ==
  ASSUME TypeOK, NEW f \in Flows, OuterPacket(f)
  PROVE  Capture'
<1>1. Now \in 0..2 BY DEF Now
<1>2. flows[f] \in Seq(0..2) /\ Len(flows[f]) < 3 BY TypeParts DEF Capture, OuterPacket
<1>3. Append(flows[f], Now) \in Seq(0..2) /\ Len(Append(flows[f], Now)) <= 3 BY <1>1, <1>2
<1> QED BY <1>3, TypeParts DEF Capture, OuterPacket

LEMMA TypeDeliver ==
  ASSUME TypeOK, NEW proto \in {"h3", "h2"}, NEW from \in {"relay", "unknown", "own"},
         NEW fresh \in BOOLEAN, Deliver(proto, from, fresh)
  PROVE  Log' /\ Len(rows') = Len(rows) + 1 /\ Len(rows) \in Nat
<1> DEFINE row == [proto |-> proto, from |-> from, fresh |-> fresh,
                   late |-> overdue, blocked |-> left > 0]
<1>1. row \in Row BY TypeParts DEF Flags, Row
<1> HIDE DEF row
<1>2. rows' = Append(rows, row) /\ Len(rows) < MaxRows BY DEF Deliver, row
<1> QED BY <1>1, <1>2, TypeParts DEF Log

\* The verdict of a pass.
LEMMA TypeVerdict == Lifecycle(Classify) \in Verdicts
  BY DEF Lifecycle, Classify, Blocked, Permitted, Verdicts, Supports

LEMMA TypeNext == ASSUME TypeOK, [Next]_vars PROVE TypeOK'
<1> SUFFICES Flags' /\ Numbers' /\ Values' /\ Log' /\ Capture'
  BY TypeParts, Zenon DEF TypeOK, Flags, Numbers, Values, Log, Capture, Row
<1>0. Flags /\ Numbers /\ Values /\ Log /\ Capture BY TypeParts
<1> USE <1>0 DEF gate, wire, attempt, copies, Odd
<1>1. ASSUME NEW f \in Flows, OuterPacket(f)
      PROVE  Flags' /\ Numbers' /\ Values' /\ Log' /\ Capture'
  <2>1. Flags' BY <1>1 DEF OuterPacket, Flags
  <2>2. Numbers' BY <1>1 DEF OuterPacket, Numbers
  <2>3. Values' /\ Log' BY <1>1 DEF OuterPacket, Values, Log
  <2> QED BY <1>1, <2>1, <2>2, <2>3, TypeOuterPacket
<1>2. ASSUME DroppedPacket \/ DirectPacket
      PROVE  Flags' /\ Numbers' /\ Values' /\ Log' /\ Capture'
  <2>1. Flags' BY <1>2 DEF DroppedPacket, DirectPacket, Flags
  <2>2. Numbers' BY <1>2 DEF DroppedPacket, DirectPacket, Numbers
  <2>3. Values' /\ Log' BY <1>2 DEF DroppedPacket, DirectPacket, Values, Log
  <2>4. Capture' BY <1>2 DEF DroppedPacket, DirectPacket, Capture
  <2> QED BY <2>1, <2>2, <2>3, <2>4
<1>3. ASSUME NEW proto \in {"h3", "h2"}, NEW from \in {"relay", "unknown", "own"},
             NEW fresh \in BOOLEAN, Deliver(proto, from, fresh)
      PROVE  Flags' /\ Numbers' /\ Values' /\ Log' /\ Capture'
  <2>1. Flags' BY <1>3 DEF Deliver, Flags
  <2>2. Log' /\ Len(rows') = Len(rows) + 1 /\ Len(rows) \in Nat BY <1>3, TypeDeliver
  <2>3. Numbers' BY <1>3, <2>2 DEF Deliver, Numbers
  <2>4. Values' /\ Capture' BY <1>3 DEF Deliver, Values, Capture
  <2> QED BY <2>1, <2>2, <2>3, <2>4
<1>4. ASSUME Gate PROVE Flags' /\ Numbers' /\ Values' /\ Log' /\ Capture'
  <2> USE DEF Lease!Next, Lease!Create, Lease!Block, Lease!Pass, Lease!Lift, Lease!Remove
  <2>1. Flags' BY <1>4 DEF Gate, Flags
  <2>2. left' \in 0..Life BY <1>4 DEF Gate, Numbers
  <2>3. Numbers' BY <1>4, <2>2 DEF Gate, Numbers
  <2>4. Values' /\ Log' /\ Capture' BY <1>4 DEF Gate, Values, Log, Capture
  <2> QED BY <2>1, <2>3, <2>4
<1>5. ASSUME Launch \/ Deadline PROVE Flags' /\ Numbers' /\ Values' /\ Log' /\ Capture'
  <2>1. Flags' BY <1>5 DEF Launch, Deadline, Flags
  <2>2. Numbers' BY <1>5 DEF Launch, Deadline, Numbers
  <2>3. Values' /\ Log' /\ Capture' BY <1>5 DEF Launch, Deadline, Values, Log, Capture
  <2> QED BY <2>1, <2>2, <2>3
<1>6. ASSUME NEW typed \in {"success", "timeout", "other"}, NEW i \in {0} \cup DOMAIN rows,
             Finish(typed, i)
      PROVE  Flags' /\ Numbers' /\ Values' /\ Log' /\ Capture'
  <2>1. Flags' BY <1>6 DEF Finish, Flags
  <2>2. Len(rows) \in Nat /\ DOMAIN rows = 1..Len(rows) BY DEF Log
  <2>3. Numbers' BY <1>6, <2>2 DEF Finish, Numbers
  <2>4. Outcome(typed, i) \in Outcomes BY DEF Outcome, Outcomes
  <2>5. (~(table /\ left >= Minimum)) \in BOOLEAN OBVIOUS
  <2>6. Values' BY <1>6, <2>4, <2>5 DEF Finish, Values
  <2>7. Log' /\ Capture' BY <1>6 DEF Finish, Log, Capture
  <2> QED BY <2>1, <2>3, <2>6, <2>7
<1>7. ASSUME NEW early \in BOOLEAN, NEW automatic \in BOOLEAN, Seal(early, automatic)
      PROVE  Flags' /\ Numbers' /\ Values' /\ Log' /\ Capture'
  <2>1. Flags' BY <1>7 DEF Seal, Flags
  <2>2. Numbers' BY <1>7 DEF Seal, Numbers
  <2>3. end.outcome \in Outcomes /\ "other" \in Outcomes BY DEF Values, Outcomes
  <2>4. (end.changed \/ automatic) \in BOOLEAN OBVIOUS
  <2>5. Values' BY <1>7, <2>3, <2>4 DEF Seal, Values
  <2>6. Log' /\ Capture' BY <1>7 DEF Seal, Log, Capture
  <2> QED BY <2>1, <2>2, <2>5, <2>6
<1>8. ASSUME Refuse PROVE Flags' /\ Numbers' /\ Values' /\ Log' /\ Capture'
  <2>1. Flags' BY <1>8 DEF Refuse, Flags
  <2>2. Numbers' BY <1>8 DEF Refuse, Numbers
  <2>3. Values' BY <1>8 DEF Refuse, Values, Outcomes
  <2>4. Log' /\ Capture' BY <1>8 DEF Refuse, Log, Capture
  <2> QED BY <2>1, <2>2, <2>3, <2>4
<1>9. ASSUME Snapshot \/ Pull PROVE Flags' /\ Numbers' /\ Values' /\ Log' /\ Capture'
  <2>1. Flags' BY <1>9 DEF Snapshot, Pull, Flags
  <2>2. Len(rows) \in Nat BY DEF Log
  <2>3. Numbers' BY <1>9, <2>2 DEF Snapshot, Pull, Numbers
  <2>4. Values' /\ Log' /\ Capture' BY <1>9 DEF Snapshot, Pull, Values, Log, Capture
  <2> QED BY <2>1, <2>3, <2>4
<1>10. ASSUME Pair PROVE Flags' /\ Numbers' /\ Values' /\ Log' /\ Capture'
  <2>1. Flags' BY <1>10 DEF Pair, Flags
  <2>2. Numbers' BY <1>10 DEF Pair, Numbers
  <2>3. "excluded" \in Verdicts BY DEF Verdicts
  <2>4. Values' BY <1>10, <2>3, TypeVerdict DEF Pair, Values
  <2>5. Log' /\ Capture' BY <1>10 DEF Pair, Log, Capture
  <2> QED BY <2>1, <2>2, <2>4, <2>5
<1>11. ASSUME UNCHANGED vars PROVE Flags' /\ Numbers' /\ Values' /\ Log' /\ Capture'
  <2>1. Flags' BY <1>11 DEF vars, Flags
  <2>2. Numbers' BY <1>11 DEF vars, Numbers
  <2>3. Values' /\ Log' /\ Capture' BY <1>11 DEF vars, Values, Log, Capture
  <2> QED BY <2>1, <2>2, <2>3
<1> QED
  BY <1>1, <1>2, <1>3, <1>4, <1>5, <1>6, <1>7, <1>8, <1>9, <1>10, <1>11 DEF Next, Wire

\* Every variable keeps its type; the copies hold only rows that the log has.
THEOREM TypeCorrect == Spec => []TypeOK
  BY TypeInit, TypeNext, PTL DEF Spec

---------------------------------------------------------------------------
\* The gate, and what the attempt's readings of it show.

\* A pass that lets the attempt support the claim has found all of this.
LEMMA Findings ==
  ASSUME TypeOK, Lifecycle(Classify) \in Supports
  PROVE  /\ end.outcome = "success" /\ ~end.changed
         /\ Selected /\ pcaps /\ ~PairingErrors /\ saved = 1 /\ Logged = 1 /\ rows # <<>>
         /\ rows[1].proto = "h3" /\ rows[1].from = "relay" /\ rows[1].fresh /\ ~rows[1].late
<1>1. Classify \in Supports /\ end.outcome = "success" /\ ~end.changed /\ ~Late
  BY DEF Lifecycle, Supports
<1>2. /\ ~PairingErrors /\ Selected /\ rows[1].from \notin {"own", "unknown"}
      /\ rows[1].proto = "h3" /\ rows[1].fresh
  BY <1>1 DEF Classify, Supports, Catalogued, Fresh
<1>3. pcaps /\ saved = 1 /\ Logged = 1 BY <1>2 DEF PairingErrors, Selected
<1>4. Len(rows) \in Nat /\ Len(rows) # 0 BY <1>3, TypeParts DEF Numbers, Log
<1>5. rows[1] \in Row BY <1>4, TypeParts DEF Log
<1>6. rows[1].from = "relay" BY <1>2, <1>5 DEF Row
<1>7. ~rows[1].late BY <1>1, <1>2 DEF Late
<1> QED BY <1>1, <1>2, <1>3, <1>4, <1>6, <1>7

LEMMA LapsedNext == ASSUME TypeOK, Lapsed, [Next]_vars PROVE Lapsed'
<1>0. Numbers /\ Log BY TypeParts
<1> USE <1>0 DEF Lapsed, gate, wire, attempt, copies
<1>1. CASE UNCHANGED <<gate, rows>> BY <1>1
<1>2. ASSUME NEW proto \in {"h3", "h2"}, NEW from \in {"relay", "unknown", "own"},
             NEW fresh \in BOOLEAN, Deliver(proto, from, fresh)
      PROVE  Lapsed'
  <2> DEFINE row == [proto |-> proto, from |-> from, fresh |-> fresh,
                     late |-> overdue, blocked |-> left > 0]
  <2>1. rows' = Append(rows, row) /\ UNCHANGED gate /\ row.blocked = (left > 0)
    BY <1>2 DEF Deliver
  <2> HIDE DEF row
  <2>2. CASE rows = <<>>
    <3>1. rows'[1] = row BY <2>1, <2>2
    <3>2. ~(left > 0) => left = 0 BY DEF Numbers
    <3> QED BY <2>1, <3>1, <3>2
  <2>3. CASE rows # <<>>
    <3>1. rows'[1] = rows[1] BY <2>1, <2>3 DEF Log
    <3> QED BY <2>1, <2>3, <3>1
  <2> QED BY <2>2, <2>3
<1>3. CASE Gate
  <2>1. UNCHANGED rows /\ (rearmed' <=> rearmed \/ left' > left) BY <1>3 DEF Gate
  <2>2. left \in Nat /\ left' \in Nat
    BY <1>3 DEF Gate, Numbers, Lease!Next, Lease!Create, Lease!Block, Lease!Pass, Lease!Lift,
       Lease!Remove
  <2>3. left = 0 => left' = 0 \/ left' > left BY <2>2
  <2> QED BY <2>1, <2>3
<1> QED
  BY <1>1, <1>2, <1>3
     DEF Next, Wire, vars, OuterPacket, DroppedPacket, DirectPacket, Launch, Deadline, Finish,
         Seal, Refuse, Snapshot, Pull, Pair

LEMMA GateReadNext == ASSUME TypeOK, GateRead, [Next]_vars PROVE GateRead'
<1>0. Values BY TypeParts
<1> USE <1>0 DEF GateRead, gate, wire, attempt, copies
<1>1. CASE UNCHANGED <<gate, phase, end>> BY <1>1
<1>2. CASE Gate \/ Launch \/ Refuse BY <1>2 DEF Gate, Launch, Refuse
<1>3. ASSUME NEW typed \in {"success", "timeout", "other"}, NEW i \in {0} \cup DOMAIN rows,
             Finish(typed, i)
      PROVE  GateRead'
  BY <1>3 DEF Finish
<1>4. ASSUME NEW early \in BOOLEAN, NEW automatic \in BOOLEAN, Seal(early, automatic)
      PROVE  GateRead'
  BY <1>4 DEF Seal
<1> QED
  BY <1>1, <1>2, <1>3, <1>4
     DEF Next, Wire, vars, OuterPacket, DroppedPacket, DirectPacket, Deliver, Deadline,
         Snapshot, Pull, Pair

\* A finding is earned: one delivery on record, by HTTP/3, through the relay,
\* fresh and in time, while TCP was blocked, or the gate was armed anew.
THEOREM SupportEarned == Spec => SupportIsEarned
<1>1. Init => Lapsed /\ GateRead BY DEF Init, Lapsed, GateRead
<1>2. ASSUME TypeOK, Lapsed, GateRead, Pair, verdict' \in Supports PROVE Earned
  <2>1. Lifecycle(Classify) \in Supports /\ phase = "sealed" BY <1>2 DEF Pair, Supports
  <2>2. left >= Minimum BY <1>2, <2>1, Findings DEF GateRead
  <2>3. left \in 0..Life BY <1>2, TypeParts DEF Numbers
  <2>4. left # 0 BY <2>2, <2>3
  <2> QED BY <1>2, <2>1, <2>4, Findings DEF Earned, Lapsed
<1>3. TypeOK /\ Lapsed /\ GateRead => (Pair /\ verdict' \in Supports => Earned) BY <1>2
<1> QED
  BY <1>1, <1>3, TypeInit, TypeNext, LapsedNext, GateReadNext, PTL DEF Spec, SupportIsEarned

\* An attempt that ended as a bypass is reported as a safety stop, whatever else
\* is wrong with its evidence, as long as the logs can be read.
THEOREM BypassReported == Spec => BypassStops
<1>1. Pair /\ end.outcome = "direct_bypass" => verdict' = "safety_stop" \/ damaged
  BY DEF Pair, Lifecycle
<1> QED BY <1>1, PTL DEF BypassStops

---------------------------------------------------------------------------
\* A finding stays.

\* While no delivery is added the logs and the captures can only become more.
LEMMA SelectedStays ==
  ASSUME TypeOK, Selected, pcaps, Len(rows) = 1, Snapshot \/ Pull
  PROVE  Selected' /\ ~PairingErrors'
<1>1. archive \in 0..1 /\ prefix \in 0..1 BY TypeParts DEF Numbers
<1>2. archive = 1 \/ prefix = 1 BY <1>1 DEF Selected, Logged
<1>3. /\ archive' \in {archive, 1} /\ prefix' \in {prefix, 1} /\ saved' = saved /\ pcaps'
  BY DEF Snapshot, Pull, attempt
<1>4. Logged' = 1 BY <1>1, <1>2, <1>3 DEF Logged
<1> QED BY <1>3, <1>4 DEF Selected, PairingErrors

\* The verdict of a pass depends on the copies by what is selected only.
LEMMA SameVerdict ==
  ASSUME UNCHANGED <<wire, condition, pre, post, end>>,
         Selected, ~PairingErrors, Selected', ~PairingErrors'
  PROVE  Lifecycle(Classify)' = Lifecycle(Classify)
<1> USE DEF wire
<1>1. Contacts' = Contacts /\ \A f \in Flows : Steps(f)' = Steps(f)
  BY DEF Contacts, Steps, InWindow
<1>2. (OnlyUdp' <=> OnlyUdp) /\ (UdpFailover' <=> UdpFailover) /\ (TcpFallback' <=> TcpFallback)
  <2>1. Contacts \subseteq Flows BY DEF Contacts
  <2>2. {f \in Contacts' : f[1] = "tcp" /\ Steps(f)' = 3} = {f \in Contacts : f[1] = "tcp" /\ Steps(f) = 3}
    BY <1>1, <2>1
  <2>3. (OnlyUdp' <=> OnlyUdp) /\ (UdpFailover' <=> UdpFailover)
    BY <1>1, <2>1 DEF OnlyUdp, UdpFailover
  <2> QED BY <2>2, <2>3 DEF TcpFallback
<1>3. Classify' = Classify
  BY <1>2 DEF Classify, GateValid, Catalogued, Fresh, Blocked, Permitted, Engaged
<1> QED BY <1>3 DEF Lifecycle, Late

LEMMA StillSupportsNext ==
  ASSUME TypeOK, StillSupports, [Next]_vars
  PROVE  StillSupports'
<1> SUFFICES ASSUME verdict' \in Supports
             PROVE  /\ phase' = "sealed" /\ rows' # <<>>
                    /\ Len(rows') = 1 => Lifecycle(Classify)' \in Supports
  BY DEF StillSupports
<1>0. Values /\ Log BY TypeParts
<1> USE <1>0 DEF gate, wire, attempt, copies
<1>1. CASE Pair
  <2>1. Lifecycle(Classify) \in Supports /\ phase = "sealed" BY <1>1 DEF Pair, Supports
  <2>2. Selected /\ ~PairingErrors /\ rows # <<>> BY <2>1, Findings
  <2>3. Selected' /\ ~PairingErrors' BY <1>1, <2>2 DEF Pair, Selected, Logged, PairingErrors
  <2>4. Lifecycle(Classify)' \in Supports BY <1>1, <2>1, <2>2, <2>3, SameVerdict DEF Pair
  <2> QED BY <1>1, <2>1, <2>2, <2>4 DEF Pair
<1>2. CASE Snapshot \/ Pull
  <2>1. verdict \in Supports /\ phase' = "sealed" /\ UNCHANGED <<wire, attempt>>
    BY <1>2 DEF Snapshot, Pull
  <2>2. rows # <<>> /\ (Len(rows) = 1 => Lifecycle(Classify) \in Supports)
    BY <2>1 DEF StillSupports
  <2>3. ASSUME Len(rows) = 1 PROVE Lifecycle(Classify)' \in Supports
    <3>1. Selected /\ pcaps /\ ~PairingErrors BY <2>2, <2>3, Findings
    <3>2. Selected' /\ ~PairingErrors' BY <1>2, <2>3, <3>1, SelectedStays
    <3> QED BY <2>1, <2>2, <2>3, <3>1, <3>2, SameVerdict
  <2> QED BY <2>1, <2>2, <2>3
<1>3. ASSUME NEW proto \in {"h3", "h2"}, NEW from \in {"relay", "unknown", "own"},
             NEW fresh \in BOOLEAN, Deliver(proto, from, fresh)
      PROVE  phase' = "sealed" /\ rows' # <<>> /\ Len(rows') # 1
  <2>1. verdict \in Supports /\ phase' = phase BY <1>3 DEF Deliver
  <2>2. phase = "sealed" /\ rows # <<>> BY <2>1 DEF StillSupports
  <2>3. Len(rows') = Len(rows) + 1 /\ Len(rows) \in Nat BY <1>3, TypeDeliver
  <2>4. Len(rows) # 0 BY <2>2
  <2> QED BY <2>1, <2>2, <2>3, <2>4
<1>4. CASE \/ \E f \in Flows : OuterPacket(f)
           \/ DroppedPacket \/ DirectPacket \/ Gate \/ Launch \/ Deadline
           \/ \E typed \in {"success", "timeout", "other"}, i \in {0} \cup DOMAIN rows :
                Finish(typed, i)
           \/ \E early, automatic \in BOOLEAN : Seal(early, automatic)
           \/ Refuse
  <2>1. verdict \in Supports /\ phase # "sealed"
    BY <1>4 DEF OuterPacket, Capturing, DroppedPacket, DirectPacket, Gate, Launch, Deadline,
                Finish, Seal, Refuse
  <2> QED BY <2>1 DEF StillSupports
<1>5. CASE UNCHANGED vars
  <2>1. verdict \in Supports BY <1>5 DEF vars
  <2>2. Lifecycle(Classify)' = Lifecycle(Classify)
    BY <1>5 DEF vars, Lifecycle, Classify, Late, GateValid, PairingErrors, Selected, Logged,
       Catalogued, Fresh, Blocked, Permitted, Engaged, OnlyUdp, UdpFailover, TcpFallback,
       Contacts, Steps, InWindow
  <2> QED BY <1>5, <2>1, <2>2 DEF vars, StillSupports
<1> QED BY <1>1, <1>2, <1>3, <1>4, <1>5 DEF Next, Wire

\* A finding is kept: another pass over the same log never takes it back, only
\* another delivery or a damaged copy does.
THEOREM SupportKept == Spec => SupportIsKept
<1>1. Init => StillSupports BY DEF Init, StillSupports, Supports
<1>2. ASSUME TypeOK, StillSupports, Pair, verdict \in Supports, verdict' \notin Supports
      PROVE  damaged \/ Len(rows) > 1
  <2>1. Len(rows) \in Nat /\ Len(rows) # 0 BY <1>2, TypeParts DEF Log, StillSupports
  <2>2. Len(rows) = 1 \/ Len(rows) > 1 BY <2>1
  <2>3. ~damaged => Lifecycle(Classify) \notin Supports BY <1>2 DEF Pair
  <2> QED BY <1>2, <2>2, <2>3 DEF StillSupports
<1>3. TypeOK /\ StillSupports =>
        (Pair /\ verdict \in Supports /\ verdict' \notin Supports => damaged \/ Len(rows) > 1)
  BY <1>2
<1> QED
  BY <1>1, <1>3, TypeInit, TypeNext, StillSupportsNext, PTL DEF Spec, SupportIsKept

---------------------------------------------------------------------------
\* The strong endpoint.

LEMMA UpTo ==
  ASSUME NEW k \in Nat
  PROVE  IsFiniteSet(1..k) /\ Cardinality(1..k) = k
<1>1. IsFiniteSet(1..k) /\ Cardinality(1..k) = IF 1 > k THEN 0 ELSE k - 1 + 1
  BY FS_Interval, 1 \in Int, k \in Int, Zenon
<1>2. (IF 1 > k THEN 0 ELSE k - 1 + 1) = k BY SMT
<1> QED BY <1>1, <1>2

\* How many of a connection's packets lie in the window: of at most three, three
\* if and only if there are three and each of them does.
LEMMA WholeHandshake ==
  ASSUME NEW s \in Seq(0..2), Len(s) <= 3
  PROVE  LET in == {i \in DOMAIN s : s[i] = 1}
         IN  /\ Cardinality(in) \in Nat
             /\ Cardinality(in) = 3 <=> s = <<1, 1, 1>>
<1> DEFINE in == {i \in DOMAIN s : s[i] = 1}
<1>1. DOMAIN s = 1..Len(s) /\ Len(s) \in Nat OBVIOUS
<1>2. IsFiniteSet(1..Len(s)) /\ Cardinality(1..Len(s)) = Len(s)
  BY <1>1, UpTo
<1>3. IsFiniteSet(in) /\ Cardinality(in) \in Nat /\ Cardinality(in) <= Len(s)
      /\ (Cardinality(in) = Len(s) => in = 1..Len(s))
  BY <1>1, <1>2, FS_Subset, FS_CardinalityType
<1>4. ASSUME Cardinality(in) = 3 PROVE s = <<1, 1, 1>>
  <2>1. Len(s) = 3 /\ in = 1..3 BY <1>1, <1>3, <1>4
  <2>2. s[1] = 1 /\ s[2] = 1 /\ s[3] = 1 BY <2>1
  <2> QED BY <2>1, <2>2
<1>5. ASSUME s = <<1, 1, 1>> PROVE Cardinality(in) = 3
  <2>1. Len(s) = 3 /\ in = 1..3 BY <1>5
  <2> QED BY <1>2, <2>1
<1> QED BY <1>3, <1>4, <1>5

\* Two of two likewise.
LEMMA TwoInWindow ==
  Cardinality({i \in DOMAIN <<1, 1>> : <<1, 1>>[i] = 1}) = 2
<1>1. {i \in DOMAIN <<1, 1>> : <<1, 1>>[i] = 1} = 1..2 OBVIOUS
<1>2. Cardinality(1..2) = 2 BY UpTo
<1> QED BY <1>1, <1>2

\* With a delivery selected, the window holds the time until it and no other.
LEMMA SelectedSteps ==
  ASSUME TypeOK, Selected, NEW f \in Flows
  PROVE  /\ Steps(f) = 3 <=> flows[f] = <<1, 1, 1>>
         /\ flows[f] = <<1, 1>> => Steps(f) = 2
<1>1. flows[f] \in Seq(0..2) /\ Len(flows[f]) <= 3 BY TypeParts DEF Capture
<1>2. \A t \in 0..2 : InWindow(t) <=> t = 1 BY DEF InWindow
<1>3. \A i \in DOMAIN flows[f] : flows[f][i] \in 0..2 BY <1>1
<1> DEFINE in == {i \in DOMAIN flows[f] : InWindow(flows[f][i])}
<1>4. in = {i \in DOMAIN flows[f] : flows[f][i] = 1} BY <1>2, <1>3
<1>5. CASE flows[f] = <<>>
  <2>1. Steps(f) = 0 BY <1>5 DEF Steps
  <2> QED BY <1>5, <2>1
<1>6. CASE flows[f] # <<>> /\ flows[f][1] # 1
  <2>1. 1 \in DOMAIN flows[f] BY <1>1, <1>6
  <2>2. Steps(f) = 0 BY <1>2, <1>3, <1>6, <2>1 DEF Steps
  <2> QED BY <1>6, <2>2
<1>7. CASE flows[f] # <<>> /\ flows[f][1] = 1
  <2>1. Steps(f) = Cardinality(in) BY <1>2, <1>7 DEF Steps
  <2> QED BY <1>1, <1>4, <2>1, WholeHandshake, TwoInWindow
<1> QED BY <1>5, <1>6, <1>7

\* The strong endpoint is never reached by ambiguity: the rule has dropped
\* datagrams, and until the delivery exactly one TCP connection to a named ingress
\* was set up and no QUIC to another one was answered.
THEOREM StrongByFallback == Spec => StrongNeedsFallback
<1>1. ASSUME TypeOK, Pair, verdict' = "strong"
      PROVE  /\ condition = "udp_blocked" /\ dropped
             /\ Cardinality({f \in Flows : f[1] = "tcp" /\ flows[f] = <<1, 1, 1>>}) = 1
             /\ \A f \in Flows : f[1] = "udp" /\ f[2] = "named" => flows[f] # <<1, 1>>
  <2>1. Lifecycle(Classify) = "strong" BY <1>1 DEF Pair
  <2>2. Classify = "strong" BY <2>1 DEF Lifecycle
  <2>3. Selected BY <1>1, <2>1, Findings DEF Supports
  <2>4. condition = "udp_blocked" /\ Blocked = "strong" BY <2>2 DEF Classify, Permitted
  <2>5. ~UdpFailover /\ dropped /\ TcpFallback BY <2>4 DEF Blocked, Engaged
  <2>6. \A f \in Flows : /\ Steps(f) = 3 <=> flows[f] = <<1, 1, 1>>
                         /\ flows[f] = <<1, 1>> => Steps(f) = 2
    BY <1>1, <2>3, SelectedSteps
  <2>7. {f \in Contacts : f[1] = "tcp" /\ Steps(f) = 3} =
          {f \in Flows : f[1] = "tcp" /\ flows[f] = <<1, 1, 1>>}
    BY <2>6 DEF Contacts
  <2>8. ASSUME NEW f \in Flows, f[1] = "udp", f[2] = "named", flows[f] = <<1, 1>> PROVE FALSE
    BY <2>5, <2>6, <2>8 DEF UdpFailover, Contacts
  <2> QED BY <2>4, <2>5, <2>7, <2>8 DEF TcpFallback
<1>2. TypeOK =>
        (Pair /\ verdict' = "strong" =>
           /\ condition = "udp_blocked" /\ dropped
           /\ Cardinality({f \in Flows : f[1] = "tcp" /\ flows[f] = <<1, 1, 1>>}) = 1
           /\ \A f \in Flows : f[1] = "udp" /\ f[2] = "named" => flows[f] # <<1, 1>>)
  BY <1>1
<1> QED BY <1>2, TypeInit, TypeNext, PTL DEF Spec, StrongNeedsFallback

=============================================================================
