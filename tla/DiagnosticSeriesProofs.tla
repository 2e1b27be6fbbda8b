------------------------ MODULE DiagnosticSeriesProofs ------------------------
(***************************************************************************)
(* Theorems about DiagnosticSeries, for any number of slots, tries, days   *)
(* and candidate snapshots.                                                *)
(***************************************************************************)
EXTENDS DiagnosticSeries, TLAPS

\* The types, without the bound on the archive's length.
Shape ==
  /\ day \in 1..Days /\ readiness \in BOOLEAN /\ snapped \in [Snapshots -> 0..Days]
  /\ campaign \in BOOLEAN /\ kept \in BOOLEAN
  /\ table \in BOOLEAN /\ left \in 0..Life
  /\ pc \in {"idle", "checked", "settled", "preparing"}
  /\ request \in [slot : Slots, try : 1..MaxTries, snap : Snapshots, day : 0..Days]
  /\ archive \in Seq(Attempt)

\* What prepare has checked is still true when it acts on it: nothing that
\* counts has changed since but the clock.
Checked ==
  pc \in {"checked", "settled"} =>
    /\ SlotAllowed(request)
    /\ \A i \in DOMAIN archive :
         Finalized(archive[i]) /\ ~SafetyStop(archive[i]) /\ archive[i].snap = request.snap
    /\ snapped[request.snap] # 0
    /\ pc = "settled" => request.day = snapped[request.snap]

\* Only the latest attempt may be open or have stopped the series.
Settled ==
  /\ \A i \in DOMAIN archive : i # n => Finalized(archive[i]) /\ ~SafetyStop(archive[i])
  /\ pc = "preparing" => n > 0 /\ archive[n].end = "open"

\* The attempts follow each other slot by slot and try by try, and only a
\* technical failure is followed by another try of its slot.
Ordered ==
  \A i, j \in DOMAIN archive :
    i < j =>
      \/ archive[i].slot < archive[j].slot
      \/ /\ archive[i].slot = archive[j].slot /\ archive[i].try < archive[j].try
         /\ archive[i].end = "technical"

\* The tries of a slot are numbered without a gap.
Contiguous ==
  \A j \in DOMAIN archive : \A t \in 1..archive[j].try :
    \E i \in DOMAIN archive : archive[i].slot = archive[j].slot /\ archive[i].try = t

\* The attempts made so far are at most those that the plan lists up to the
\* latest one.
Position == n > 0 => n <= (archive[n].slot - 1) * MaxTries + archive[n].try

\* Safari is opened once all of the state files exist.
Pinned ==
  \A i \in DOMAIN archive :
    archive[i].end \in {"launched", "success", "direct_bypass"} => archive[i].pinned

Inv ==
  /\ Shape /\ Checked /\ Settled /\ Ordered /\ Contiguous /\ Position /\ Pinned
  /\ SameConditions

USE SeriesAssumption

---------------------------------------------------------------------------
LEMMA NoRequestType ==
  NoRequest \in [slot : Slots, try : 1..MaxTries, snap : Snapshots, day : 0..Days]
<1>1. (CHOOSE s \in Snapshots : TRUE) \in Snapshots OBVIOUS
<1> QED BY <1>1 DEF NoRequest, Slots

LEMMA InvInit == Init => Inv
<1> SUFFICES ASSUME Init PROVE Inv OBVIOUS
<1>1. Shape
  <2>1. readiness \in BOOLEAN /\ campaign \in BOOLEAN /\ kept \in BOOLEAN /\ table \in BOOLEAN
    BY DEF Init, Lease!Init
  <2> QED BY <2>1, NoRequestType DEF Init, Shape, Lease!Init
<1> QED
  BY <1>1 DEF Init, Inv, Checked, Settled, Ordered, Contiguous, Position, Pinned,
     SameConditions, n

\* The attempts in the archive.
LEMMA Elements ==
  ASSUME archive \in Seq(Attempt)
  PROVE  /\ n \in Nat /\ DOMAIN archive = 1..n
         /\ \A i \in DOMAIN archive :
              /\ archive[i] \in Attempt
              /\ archive[i].slot \in Slots /\ archive[i].try \in 1..MaxTries
              /\ archive[i].snap \in Snapshots
              /\ archive[i].day \in 1..Days /\ archive[i].day # 0
<1>1. n \in Nat /\ DOMAIN archive = 1..n BY DEF n
<1>2. \A i \in DOMAIN archive : archive[i] \in Attempt OBVIOUS
<1>3. \A a \in Attempt :
        /\ a.slot \in Slots /\ a.try \in 1..MaxTries /\ a.snap \in Snapshots
        /\ a.day \in 1..Days /\ a.day # 0
  BY DEF Attempt
<1> QED BY <1>1, <1>2, <1>3

\* A step that leaves the archive alone and takes no snapshot back.
LEMMA InvSameArchive ==
  ASSUME Inv, Shape', UNCHANGED archive, Checked', pc' # "preparing" \/ pc = "preparing",
         \A s \in Snapshots : snapped[s] # 0 => snapped'[s] = snapped[s]
  PROVE  Inv'
<1> USE DEF Inv, n
<1>0. archive \in Seq(Attempt) BY DEF Shape
<1>1. Settled' BY DEF Settled
<1>2. Ordered' /\ Contiguous' BY DEF Ordered, Contiguous
<1>3. Position' /\ Pinned' BY DEF Position, Pinned
<1>4. \A i \in DOMAIN archive : archive[i].snap \in Snapshots /\ archive[i].day # 0
  BY <1>0, Elements
<1>5. SameConditions' BY <1>4 DEF SameConditions
<1> QED BY <1>1, <1>2, <1>3, <1>5

\* What the checks read is as it was, if neither the archive nor the request is
\* changed.
LEMMA CheckedStays ==
  ASSUME Inv, UNCHANGED <<archive, request>>, pc' = pc \/ pc' \notin {"checked", "settled"},
         \A s \in Snapshots : snapped[s] # 0 => snapped'[s] = snapped[s]
  PROVE  Checked'
<1> USE DEF Inv, Checked
<1>1. CASE pc' \notin {"checked", "settled"} BY <1>1
<1>2. CASE pc' = pc
  <2>1. SlotAllowed(request)' <=> SlotAllowed(request)
    BY DEF SlotAllowed, SlotComplete, InSlot
  <2>2. request.snap \in Snapshots BY DEF Shape
  <2> QED BY <1>2, <2>1, <2>2
<1> QED BY <1>1, <1>2

---------------------------------------------------------------------------
\* Steps that leave the archive alone.

LEMMA InvAsk ==
  ASSUME Inv, NEW r \in Requests, Ask(r)
  PROVE  Inv'
<1> USE DEF Ask, world, gate
<1>1. request' \in [slot : Slots, try : 1..MaxTries, snap : Snapshots, day : 0..Days]
  BY DEF Requests
<1>2. Shape' BY <1>1 DEF Inv, Shape
<1>3. day # 0 BY DEF Inv, Shape
<1>4. SlotAllowed(request)' BY DEF SlotAllowed, SlotComplete, InSlot
<1>5. Checked' BY <1>3, <1>4 DEF Inv, Checked, Ready, Unfinished, SnapshotFits
<1> QED BY <1>2, <1>5, InvSameArchive

LEMMA InvRefuse ==
  ASSUME Inv, Refuse, kept' \in BOOLEAN, UNCHANGED <<world, gate, archive>>
  PROVE  Inv'
<1> USE DEF Refuse, world, gate
<1>1. Shape' BY NoRequestType DEF Inv, Shape
<1>2. Checked' BY DEF Checked
<1> QED BY <1>1, <1>2, InvSameArchive

LEMMA InvSettle == ASSUME Inv, Settle PROVE Inv'
<1>1. CASE snapped[request.snap] # day
  <2>1. kept \in BOOLEAN BY DEF Inv, Shape
  <2> QED BY <1>1, <2>1, InvRefuse DEF Settle
<1>2. CASE snapped[request.snap] = day
  <2> USE <1>2 DEF Settle, world, gate
  <2>1. /\ request' = [request EXCEPT !.day = day]
        /\ request \in [slot : Slots, try : 1..MaxTries, snap : Snapshots, day : 0..Days]
        /\ day \in 1..Days
    BY DEF Inv, Shape
  <2>2. /\ request' \in [slot : Slots, try : 1..MaxTries, snap : Snapshots, day : 0..Days]
        /\ request'.slot = request.slot /\ request'.try = request.try
        /\ request'.snap = request.snap /\ request'.day = day
    BY <2>1
  <2>3. Shape' BY <2>2 DEF Inv, Shape
  <2>4. SlotAllowed(request)' BY <2>2 DEF Inv, Checked, SlotAllowed, SlotComplete, InSlot
  <2>5. Checked' BY <2>2, <2>4 DEF Inv, Checked
  <2> QED BY <2>3, <2>5, InvSameArchive
<1> QED BY <1>1, <1>2

LEMMA InvAround == ASSUME Inv, Around PROVE Inv'
<1> USE DEF Around, world, gate
<1>1. /\ UNCHANGED <<gate, pc, request, kept, archive>>
      /\ day' \in 1..Days /\ readiness' \in BOOLEAN /\ campaign' \in BOOLEAN
      /\ snapped' \in [Snapshots -> 0..Days]
      /\ \A s \in Snapshots : snapped[s] # 0 => snapped'[s] = snapped[s]
  <2>1. ASSUME NEW s \in Snapshots, Freeze(s)
        PROVE  /\ snapped' \in [Snapshots -> 0..Days]
               /\ \A t \in Snapshots : snapped[t] # 0 => snapped'[t] = snapped[t]
    BY <2>1 DEF Freeze, Inv, Shape
  <2>2. ASSUME NEW s \in Snapshots, Freeze(s)
        PROVE  day' \in 1..Days /\ readiness' \in BOOLEAN /\ campaign' \in BOOLEAN
    BY <2>2 DEF Freeze, Inv, Shape
  <2>3. ASSUME Attest \/ CampaignEnds \/ Midnight
        PROVE  snapped' = snapped /\ day' \in 1..Days
    BY <2>3 DEF Attest, CampaignEnds, Midnight, Inv, Shape
  <2>4. ASSUME Attest \/ CampaignEnds \/ Midnight
        PROVE  readiness' \in BOOLEAN /\ campaign' \in BOOLEAN
    BY <2>4 DEF Attest, CampaignEnds, Midnight, Inv, Shape
  <2>5. snapped \in [Snapshots -> 0..Days] BY DEF Inv, Shape
  <2> QED BY <2>1, <2>2, <2>3, <2>4, <2>5
<1>2. Shape' BY <1>1 DEF Inv, Shape
<1>3. Checked' BY <1>1, CheckedStays
<1> QED BY <1>1, <1>2, <1>3, InvSameArchive

LEMMA InvGate == ASSUME Inv, Gate(Lease!Next) PROVE Inv'
<1> USE DEF Gate, world
<1>1. table' \in BOOLEAN
  BY DEF Inv, Shape, Lease!Next, Lease!Create, Lease!Block, Lease!Pass, Lease!Lift, Lease!Remove
<1>2. left' \in 0..Life
  BY DEF Inv, Shape, Lease!Next, Lease!Create, Lease!Block, Lease!Pass, Lease!Lift, Lease!Remove
<1>3. Shape' BY <1>1, <1>2 DEF Inv, Shape
<1>4. Checked' BY CheckedStays
<1> QED BY <1>3, <1>4, InvSameArchive

---------------------------------------------------------------------------
\* A step that amends the attempt that is open, and leaves prepare idle.

Amends(a) ==
  /\ a \in Attempt
  /\ a.slot = archive[n].slot /\ a.try = archive[n].try
  /\ a.snap = archive[n].snap /\ a.day = archive[n].day
  /\ a.end \in {"launched", "success", "direct_bypass"} => a.pinned
  /\ archive' = [archive EXCEPT ![n] = a]

LEMMA AmendedArchive ==
  ASSUME archive \in Seq(Attempt), n > 0, NEW a, Amends(a)
  PROVE  /\ archive' \in Seq(Attempt) /\ n' = n
         /\ DOMAIN archive' = DOMAIN archive /\ archive'[n] = a
         /\ \A i \in DOMAIN archive : i # n => archive'[i] = archive[i]
  BY DEF Amends, n

LEMMA InvAmend ==
  ASSUME Inv, n > 0, NEW a, Amends(a), pc' = "idle", Shape', UNCHANGED world
  PROVE  Inv'
<1> USE DEF Inv, world
<1>1. archive \in Seq(Attempt) BY DEF Shape
<1>2. /\ n' = n /\ n \in Nat /\ DOMAIN archive = 1..n
      /\ DOMAIN archive' = DOMAIN archive /\ archive'[n] = a
      /\ \A i \in DOMAIN archive : i # n => archive'[i] = archive[i]
      /\ \A i \in DOMAIN archive :
           /\ archive'[i].slot = archive[i].slot /\ archive'[i].try = archive[i].try
           /\ archive'[i].snap = archive[i].snap /\ archive'[i].day = archive[i].day
  BY <1>1, AmendedArchive, Elements DEF Amends
<1>3. Checked' BY DEF Checked
<1>4. Settled' BY <1>2 DEF Settled
<1>5. Ordered' BY <1>2 DEF Ordered
<1>6. Contiguous'
  <2> SUFFICES ASSUME NEW j \in DOMAIN archive, NEW t \in 1..archive[j].try
               PROVE  \E i \in DOMAIN archive : archive'[i].slot = archive'[j].slot /\ archive'[i].try = t
    BY <1>2 DEF Contiguous
  <2>1. PICK i \in DOMAIN archive : archive[i].slot = archive[j].slot /\ archive[i].try = t
    BY DEF Contiguous
  <2> QED BY <1>2, <2>1
<1>7. Position' BY <1>2 DEF Position
<1>8. Pinned' BY <1>2 DEF Pinned, Amends
<1>9. SameConditions' BY <1>2 DEF SameConditions
<1> QED BY <1>3, <1>4, <1>5, <1>6, <1>7, <1>8, <1>9

Amended(alarm, end, changed, pinned) ==
  [archive EXCEPT ![n].alarm = alarm, ![n].end = end,
                  ![n].changed = changed, ![n].pinned = pinned]

\* The amendments.  A record that differs from the open attempt in how it ends
\* and in what it has shown is an amendment.
LEMMA AmendedRecord ==
  ASSUME archive \in Seq(Attempt), n > 0,
         NEW alarm \in Alarms, NEW end \in Endings \cup {"open", "launched"},
         NEW changed \in BOOLEAN, NEW pinned \in BOOLEAN,
         end \in {"launched", "success", "direct_bypass"} => pinned,
         archive' = Amended(alarm, end, changed, pinned)
  PROVE  \E a : Amends(a) /\ a.end = end /\ a.alarm = alarm /\ a.changed = changed
<1> DEFINE a == [archive[n] EXCEPT !.alarm = alarm, !.end = end,
                                   !.changed = changed, !.pinned = pinned]
<1>1. n \in DOMAIN archive /\ archive[n] \in Attempt BY Elements
<1>2. /\ a \in Attempt /\ a.slot = archive[n].slot /\ a.try = archive[n].try
      /\ a.snap = archive[n].snap /\ a.day = archive[n].day
      /\ a.end = end /\ a.pinned = pinned /\ a.alarm = alarm /\ a.changed = changed
  BY <1>1 DEF Attempt
<1>3. archive' = [archive EXCEPT ![n] = a] BY <1>1 DEF Amended
<1> QED BY <1>2, <1>3 DEF Amends

\* While prepare is at work the attempt it has created is open; and while one
\* is unfinished, it is the latest.
LEMMA LatestOpen ==
  ASSUME Inv, pc = "preparing" \/ Unfinished
  PROVE  n > 0 /\ ~Finalized(archive[n])
  BY Elements DEF Inv, Settled, Finalized, Unfinished, Shape

LEMMA PrepareEndsAmends ==
  ASSUME Inv, PrepareEnds
  PROVE  \E a : Amends(a)
<1>1. n > 0 /\ archive \in Seq(Attempt) BY LatestOpen DEF PrepareEnds, Inv, Shape
<1>2. /\ n \in DOMAIN archive /\ archive[n] \in Attempt
      /\ archive[n].alarm \in Alarms /\ archive[n].changed \in BOOLEAN
  BY <1>1, Elements DEF Attempt
<1>3. CASE archive' = [archive EXCEPT ![n].end = "launched", ![n].pinned = TRUE]
  <2>1. archive' = Amended(archive[n].alarm, "launched", archive[n].changed, TRUE)
    BY <1>2, <1>3 DEF Attempt, Amended
  <2> QED BY <1>1, <1>2, <2>1, AmendedRecord
<1>4. ASSUME NEW stage \in {"initialization", "clock", "capture", "firewall", "dns", "safari"},
             NEW pins \in StagePins(stage),
             archive' = [archive EXCEPT ![n].end = StageEnd(stage),
                                ![n].changed = StageStops(stage), ![n].pinned = pins]
      PROVE  \E a : Amends(a)
  <2>1. /\ pins \in BOOLEAN /\ StageStops(stage) \in BOOLEAN
        /\ StageEnd(stage) \in {"technical", "invalid"}
    <3>1. pins \in BOOLEAN
      <4>1. StagePins(stage) \subseteq BOOLEAN BY DEF StagePins
      <4> QED BY <4>1
    <3>2. StageStops(stage) \in BOOLEAN BY DEF StageStops
    <3>3. StageEnd(stage) \in {"technical", "invalid"} BY DEF StageEnd
    <3> QED BY <3>1, <3>2, <3>3
  <2>2. archive' = Amended(archive[n].alarm, StageEnd(stage), StageStops(stage), pins)
    BY <1>2, <1>4 DEF Attempt, Amended
  <2>3. StageEnd(stage) \in Endings /\ StageEnd(stage) \notin {"launched", "success", "direct_bypass"}
    BY <2>1 DEF Endings
  <2> QED BY <1>1, <1>2, <2>1, <2>2, <2>3, AmendedRecord
<1> QED BY <1>3, <1>4 DEF PrepareEnds

LEMMA InterruptedAmends ==
  ASSUME Inv, Interrupted, pc = "preparing"
  PROVE  \E a : Amends(a)
<1>1. n > 0 /\ archive \in Seq(Attempt) /\ archive[n].end = "open"
  BY LatestOpen DEF Inv, Shape, Settled
<1>2. /\ n \in DOMAIN archive /\ archive[n] \in Attempt
      /\ archive[n].alarm \in Alarms /\ archive[n].changed \in BOOLEAN
  BY <1>1, Elements DEF Attempt
<1>3. PICK pins \in BOOLEAN : archive' = [archive EXCEPT ![n].pinned = pins]
  BY DEF Interrupted
<1>4. archive' = Amended(archive[n].alarm, "open", archive[n].changed, pins)
  BY <1>1, <1>2, <1>3 DEF Attempt, Amended
<1> QED BY <1>1, <1>2, <1>3, <1>4, AmendedRecord

\* A response that is kept alters the alarm alone, and the end of finish_attempt
\* the alarm, the ending and whether conditions have changed.
LEMMA KeepAmends ==
  ASSUME Inv, n > 0, NEW file \in Files \cup Alarms, archive' = Keep(file)
  PROVE  \E a : Amends(a)
<1> DEFINE alarm == IF file \in Alarms \ {"none"} THEN file ELSE archive[n].alarm
<1>1. archive \in Seq(Attempt) BY DEF Inv, Shape
<1>2. /\ n \in DOMAIN archive /\ archive[n] \in Attempt
      /\ archive[n].alarm \in Alarms /\ archive[n].changed \in BOOLEAN
      /\ archive[n].pinned \in BOOLEAN /\ archive[n].end \in Endings \cup {"open", "launched"}
  BY <1>1, Elements DEF Attempt
<1>3. alarm \in Alarms BY <1>2
<1>4. archive' = Amended(alarm, archive[n].end, archive[n].changed, archive[n].pinned)
  BY <1>2 DEF Attempt, Amended, Keep
<1>5. archive[n].end \in {"launched", "success", "direct_bypass"} => archive[n].pinned
  BY <1>2 DEF Inv, Pinned
<1> HIDE DEF alarm
<1> QED BY <1>1, <1>2, <1>3, <1>4, <1>5, AmendedRecord

LEMMA CloseAmends ==
  ASSUME Inv, n > 0, NEW file \in Files, NEW outcome \in Scientific \cup {"technical"},
         NEW stop \in BOOLEAN, Close(outcome, file, stop),
         outcome \in {"success", "direct_bypass"} => archive[n].end = "launched"
  PROVE  \E a : Amends(a) /\ Finalized(a)
<1> DEFINE alarm == IF file \in Alarms \ {"none"} THEN file ELSE archive[n].alarm
<1>1. archive \in Seq(Attempt) BY DEF Inv, Shape
<1>2. /\ n \in DOMAIN archive /\ archive[n] \in Attempt
      /\ archive[n].alarm \in Alarms /\ archive[n].pinned \in BOOLEAN
  BY <1>1, Elements DEF Attempt
<1>3. alarm \in Alarms BY <1>2
<1>4. PICK early \in BOOLEAN, automatic \in BOOLEAN :
        archive' = [Keep(file) EXCEPT
          ![n].end = IF early /\ outcome # "direct_bypass" /\ ~stop THEN "technical" ELSE outcome,
          ![n].changed = stop \/ automatic]
  BY DEF Close
<1> DEFINE end == IF early /\ outcome # "direct_bypass" /\ ~stop THEN "technical" ELSE outcome
           changed == stop \/ automatic
<1>5. end \in Endings /\ end \notin {"open", "launched"} /\ end \in {outcome, "technical"}
  BY DEF Scientific, Endings
<1>6. changed \in BOOLEAN OBVIOUS
<1>7. Keep(file) = [archive EXCEPT ![n].alarm = alarm] BY <1>2 DEF Keep
<1>8. archive' = [[archive EXCEPT ![n].alarm = alarm] EXCEPT ![n].end = end, ![n].changed = changed]
  BY <1>4, <1>7
<1> HIDE DEF alarm, end, changed
<1>9. archive' = Amended(alarm, end, changed, archive[n].pinned)
  BY <1>1, <1>2, <1>8 DEF Attempt, Amended
<1>10. archive[n].end = "launched" => archive[n].pinned BY <1>2 DEF Inv, Pinned
<1>11. end \in {"launched", "success", "direct_bypass"} => archive[n].pinned BY <1>5, <1>10
<1> QED
  BY <1>1, <1>2, <1>3, <1>5, <1>6, <1>9, <1>11, AmendedRecord DEF Finalized

LEMMA RecoverAmends ==
  ASSUME Inv, Recover
  PROVE  \E a : Amends(a) /\ Finalized(a)
<1>1. n > 0 /\ archive \in Seq(Attempt) BY LatestOpen DEF Recover, Launched, Open, Inv, Shape
<1>2. /\ n \in DOMAIN archive /\ archive[n] \in Attempt /\ archive[n].alarm \in Alarms
      /\ archive[n].changed \in BOOLEAN /\ archive[n].pinned \in BOOLEAN
  BY <1>1, Elements DEF Attempt
<1>3. PICK end \in {"invalid", "other"} : archive' = [archive EXCEPT ![n].end = end]
  BY DEF Recover
<1>4. archive' = Amended(archive[n].alarm, end, archive[n].changed, archive[n].pinned)
  BY <1>1, <1>2, <1>3 DEF Attempt, Amended
<1>5. end \in Endings /\ end \notin {"launched", "success", "direct_bypass"} BY DEF Endings, Scientific
<1>6. end \notin {"open", "launched"} BY <1>3
<1> QED BY <1>1, <1>2, <1>4, <1>5, <1>6, AmendedRecord DEF Finalized

\* Whichever command ends the attempt, or fails to: prepare stays idle and
\* nothing else than the attempt and its response is altered.
LEMMA EndAmends ==
  ASSUME Inv, End
  PROVE  /\ \E a : Amends(a)
         /\ n > 0 /\ ~Finalized(archive[n]) /\ pc = "idle" /\ kept' \in BOOLEAN
         /\ UNCHANGED <<world, gate, pc, request>>
<1> USE DEF End
<1>1. kept \in BOOLEAN BY DEF Inv, Shape
<1>2. ASSUME NEW typed \in Scientific, NEW file \in Files, NEW changed \in BOOLEAN,
             Finish(typed, file, changed)
      PROVE  /\ \E a : Amends(a)
             /\ Unfinished /\ pc = "idle" /\ kept' \in BOOLEAN
             /\ UNCHANGED <<world, gate, pc, request>>
  <2> USE <1>2 DEF Finish, Launched, Open
  <2>1. kept' \in BOOLEAN BY <1>1
  <2>2. n > 0 BY LatestOpen
  <2>3. CASE archive' = Keep(file) BY <2>2, <2>3, KeepAmends
  <2>4. CASE Close(Outcome(typed, file), file, changed \/ ~GateValid)
    <3>1. Outcome(typed, file) \in Scientific BY DEF Outcome, Scientific
    <3>2. (changed \/ ~GateValid) \in BOOLEAN OBVIOUS
    <3> QED BY <2>2, <2>4, <3>1, <3>2, CloseAmends
  <2> QED BY <2>1, <2>3, <2>4
<1>3. ASSUME FinishTorn
      PROVE  /\ \E a : Amends(a)
             /\ Unfinished /\ pc = "idle" /\ kept' \in BOOLEAN
             /\ UNCHANGED <<world, gate, pc, request>>
  <2> USE <1>3 DEF FinishTorn, Launched, Open
  <2>1. n > 0 BY LatestOpen
  <2>2. "torn" \in Files \cup Alarms BY DEF Alarms
  <2> QED BY <2>1, <2>2, KeepAmends
<1>4. ASSUME Recover
      PROVE  /\ \E a : Amends(a)
             /\ Unfinished /\ pc = "idle" /\ kept' \in BOOLEAN
             /\ UNCHANGED <<world, gate, pc, request>>
  BY <1>1, <1>4, RecoverAmends DEF Recover, Launched, Open
<1>5. ASSUME NEW saved \in BOOLEAN, NEW stop \in BOOLEAN, Abort(saved, stop)
      PROVE  /\ \E a : Amends(a)
             /\ Unfinished /\ pc = "idle" /\ kept' \in BOOLEAN
             /\ UNCHANGED <<world, gate, pc, request>>
  <2> USE <1>1, <1>5 DEF Abort, Open
  <2>1. n > 0 BY LatestOpen
  <2>2. "none" \in Files /\ "other" \in Scientific BY DEF Files, Scientific
  <2>3. (stop \/ ~GateValid) \in BOOLEAN OBVIOUS
  <2>4. CASE Close("other", "none", stop \/ ~GateValid)
    BY <2>1, <2>2, <2>3, <2>4, CloseAmends
  <2>5. CASE Close("technical", "none", FALSE)
    BY <2>1, <2>2, <2>5, CloseAmends
  <2> QED BY <2>4, <2>5
<1> QED BY <1>2, <1>3, <1>4, <1>5, LatestOpen

---------------------------------------------------------------------------
\* The next attempt is the one that the plan lists next: the next try of the
\* latest attempt's slot, or the first of the slot after it.

FirstTry == n = 0 /\ request.slot = 1 /\ request.try = 1
NextTry ==
  /\ n > 0 /\ request.slot = archive[n].slot /\ request.try = archive[n].try + 1
  /\ archive[n].end = "technical"
NextSlot ==
  /\ n > 0 /\ request.slot = archive[n].slot + 1 /\ request.try = 1
  /\ \/ archive[n].end \in Scientific \cup {"invalid"}
     \/ archive[n].end = "technical" /\ archive[n].try = MaxTries

LEMMA PlanOrder ==
  ASSUME Inv, pc \in {"checked", "settled"}
  PROVE  FirstTry \/ NextTry \/ NextSlot
<1>1. /\ n \in Nat /\ DOMAIN archive = 1..n
      /\ \A i \in DOMAIN archive :
           archive[i].slot \in 1..SlotCount /\ archive[i].try \in 1..MaxTries
      /\ request.slot \in 1..SlotCount /\ request.try \in 1..MaxTries
  BY Elements DEF Inv, Shape, Slots
<1>2. SlotAllowed(request) BY DEF Inv, Checked
<1>3. \A i \in DOMAIN archive : archive[i].slot <= request.slot
  <2> SUFFICES ASSUME NEW i \in DOMAIN archive, archive[i].slot > request.slot PROVE FALSE
    BY <1>1
  <2>1. archive[i].slot \in (request.slot + 1)..SlotCount BY <1>1
  <2>2. i \in InSlot(archive[i].slot) BY DEF InSlot
  <2> QED BY <1>2, <2>1, <2>2 DEF SlotAllowed
<1>4. \A i \in DOMAIN archive :
        i # n => \/ archive[i].slot < archive[n].slot
                 \/ /\ archive[i].slot = archive[n].slot /\ archive[i].try < archive[n].try
                    /\ archive[i].end = "technical"
  BY <1>1 DEF Inv, Ordered
<1>5. CASE n = 0
  <2>1. \A s \in Slots : InSlot(s) = {} BY <1>1, <1>5 DEF InSlot
  <2>2. request.try = 1 BY <1>1, <1>2, <2>1 DEF SlotAllowed, Slots
  <2>3. ASSUME request.slot # 1 PROVE FALSE
    <3>1. 1 \in 1..(request.slot - 1) /\ 1 \in Slots BY <1>1, <2>3 DEF Slots
    <3>2. SlotComplete(1) BY <1>2, <3>1 DEF SlotAllowed
    <3> QED BY <2>1, <3>1, <3>2 DEF SlotComplete
  <2> QED BY <1>5, <2>2, <2>3 DEF FirstTry
<1>6. CASE n > 0 /\ archive[n].slot = request.slot
  <2>1. n \in InSlot(request.slot) /\ archive[n].try \in 1..MaxTries BY <1>1, <1>6 DEF InSlot
  <2>2. request.try > 1 BY <1>1, <1>2, <2>1 DEF SlotAllowed
  <2>3. PICK i \in InSlot(request.slot) :
          archive[i].try = request.try - 1 /\ archive[i].end = "technical"
    BY <1>2, <2>2 DEF SlotAllowed
  <2>4. i \in DOMAIN archive /\ archive[i].slot = archive[n].slot BY <1>6 DEF InSlot
  <2>5. i = n \/ archive[i].try < archive[n].try BY <1>1, <1>4, <2>4
  <2>6. ASSUME i # n PROVE FALSE
    <3>1. request.try \in 1..archive[n].try BY <1>1, <2>1, <2>2, <2>3, <2>5, <2>6
    <3>2. PICK j \in DOMAIN archive :
            archive[j].slot = archive[n].slot /\ archive[j].try = request.try
      BY <2>1, <3>1 DEF Inv, Contiguous, InSlot
    <3>3. j \in InSlot(request.slot) BY <1>6, <3>2 DEF InSlot
    <3> QED BY <1>2, <3>2, <3>3 DEF SlotAllowed
  <2> QED BY <1>1, <1>6, <2>3, <2>6 DEF NextTry
<1>7. CASE n > 0 /\ archive[n].slot # request.slot
  <2>1. n \in DOMAIN archive /\ archive[n].slot < request.slot BY <1>1, <1>3, <1>7
  <2>2. \A i \in DOMAIN archive : archive[i].slot <= archive[n].slot BY <1>1, <1>4, <2>1
  <2>3. InSlot(request.slot) = {} BY <1>1, <2>1, <2>2 DEF InSlot
  <2>4. request.try = 1 BY <1>1, <1>2, <2>3 DEF SlotAllowed
  <2>5. request.slot - 1 \in 1..(request.slot - 1) BY <1>1, <2>1
  <2>6. PICK i \in InSlot(request.slot - 1) :
          \/ archive[i].end \in Scientific \cup {"invalid"}
          \/ archive[i].end = "technical" /\ archive[i].try = MaxTries
    BY <1>2, <2>5 DEF SlotAllowed, SlotComplete
  <2>7. i \in DOMAIN archive /\ archive[i].slot = request.slot - 1 BY DEF InSlot
  <2>8. archive[n].slot = request.slot - 1 BY <1>1, <2>1, <2>2, <2>7
  <2>9. i = n
    <3> SUFFICES ASSUME i # n PROVE FALSE OBVIOUS
    <3>1. archive[i].try < archive[n].try /\ archive[i].end = "technical"
      BY <1>1, <1>4, <2>7, <2>8, <2>1
    <3>2. archive[i].try = MaxTries BY <2>6, <3>1 DEF Scientific
    <3> QED BY <1>1, <2>1, <3>1, <3>2
  <2> QED BY <1>1, <1>7, <2>4, <2>6, <2>8, <2>9 DEF NextSlot
<1> QED BY <1>1, <1>5, <1>6, <1>7

---------------------------------------------------------------------------
\* The attempt that prepare creates.

Created ==
  [slot |-> request.slot, try |-> request.try, snap |-> request.snap, day |-> request.day,
   alarm |-> "none", end |-> "open", changed |-> FALSE, pinned |-> FALSE]

\* The tries of one slot more.
LEMMA SlotPositions ==
  ASSUME NEW s \in Nat, NEW m \in Nat, NEW t \in 1..m
  PROVE  (s - 1) * m + t <= s * m
<1>1. (s - 1) * m = s * m - m OBVIOUS
<1> QED BY <1>1

LEMMA CreatedArchive ==
  ASSUME Inv, pc = "settled", archive' = Append(archive, Created)
  PROVE  /\ Created \in Attempt /\ archive' \in Seq(Attempt)
         /\ n' = n + 1 /\ n \in Nat /\ DOMAIN archive = 1..n /\ DOMAIN archive' = 1..(n + 1)
         /\ archive'[n + 1] = Created
         /\ \A i \in DOMAIN archive : archive'[i] = archive[i]
<1>1. request.day \in 1..Days BY DEF Inv, Checked, Shape
<1>2. Created \in Attempt BY <1>1 DEF Inv, Shape, Created, Attempt, Alarms
<1> QED BY <1>2 DEF Inv, Shape, n

LEMMA InvCreate == ASSUME Inv, Create PROVE Inv'
<1>1. CASE ~GateValid
  <2>1. kept \in BOOLEAN BY DEF Inv, Shape
  <2> QED BY <1>1, <2>1, InvRefuse DEF Create
<1>2. CASE GateValid
  <2>1. /\ pc = "settled" /\ pc' = "preparing" /\ kept' = FALSE
        /\ UNCHANGED <<request, world, gate>> /\ archive' = Append(archive, Created)
    BY <1>2 DEF Create, Created
  <2>2. /\ Created \in Attempt /\ archive' \in Seq(Attempt)
        /\ n' = n + 1 /\ n \in Nat /\ DOMAIN archive = 1..n /\ DOMAIN archive' = 1..(n + 1)
        /\ archive'[n + 1] = Created
        /\ \A i \in DOMAIN archive : archive'[i] = archive[i]
    BY <2>1, CreatedArchive
  <2>3. /\ Created.slot = request.slot /\ Created.try = request.try
        /\ Created.snap = request.snap /\ Created.day = request.day
        /\ Created.end = "open"
    BY DEF Created
  <2>4. /\ \A i \in DOMAIN archive :
             archive[i].slot \in 1..SlotCount /\ archive[i].try \in 1..MaxTries
        /\ request.slot \in 1..SlotCount /\ request.try \in 1..MaxTries
    BY Elements DEF Inv, Shape, Slots
  <2>5. \A i \in DOMAIN archive :
          i # n => \/ archive[i].slot < archive[n].slot
                   \/ /\ archive[i].slot = archive[n].slot /\ archive[i].try < archive[n].try
                      /\ archive[i].end = "technical"
    BY <2>2 DEF Inv, Ordered
  <2>6. FirstTry \/ NextTry \/ NextSlot BY <2>1, PlanOrder
  <2>7. \A i \in DOMAIN archive :
          \/ archive[i].slot < request.slot
          \/ /\ archive[i].slot = request.slot /\ archive[i].try < request.try
             /\ archive[i].end = "technical"
    BY <2>2, <2>4, <2>5, <2>6 DEF FirstTry, NextTry, NextSlot
  <2>8. Shape'
    <3>1. kept' \in BOOLEAN BY <2>1
    <3> QED BY <2>1, <2>2, <3>1 DEF Inv, Shape, world, gate
  <2>9. Checked' BY <2>1 DEF Checked
  <2>10. Settled' BY <2>1, <2>2, <2>3 DEF Inv, Settled, Checked
  <2>11. Ordered' BY <2>2, <2>3, <2>7 DEF Inv, Ordered
  <2>12. Contiguous'
    <3> SUFFICES ASSUME NEW j \in 1..(n + 1), NEW t \in 1..archive'[j].try
                 PROVE  \E i \in 1..(n + 1) :
                          archive'[i].slot = archive'[j].slot /\ archive'[i].try = t
      BY <2>2 DEF Contiguous
    <3>1. CASE j \in DOMAIN archive
      <4>1. PICK i \in DOMAIN archive : archive[i].slot = archive[j].slot /\ archive[i].try = t
        BY <2>2, <3>1 DEF Inv, Contiguous
      <4> QED BY <2>2, <3>1, <4>1
    <3>2. CASE j = n + 1 /\ t = request.try BY <2>2, <2>3, <3>2
    <3>3. CASE j = n + 1 /\ t # request.try
      <4>1. NextTry BY <2>2, <2>3, <2>4, <2>6, <3>3 DEF FirstTry, NextSlot
      <4>2. n \in DOMAIN archive /\ t \in 1..archive[n].try
        BY <2>2, <2>3, <2>4, <3>3, <4>1 DEF NextTry
      <4>3. PICK i \in DOMAIN archive : archive[i].slot = archive[n].slot /\ archive[i].try = t
        BY <4>2 DEF Inv, Contiguous
      <4> QED BY <2>2, <2>3, <3>3, <4>1, <4>3 DEF NextTry
    <3> QED BY <2>2, <3>1, <3>2, <3>3
  <2>13. Position'
    <3> SUFFICES n + 1 <= (request.slot - 1) * MaxTries + request.try BY <2>2, <2>3 DEF Position
    <3>1. CASE FirstTry BY <3>1 DEF FirstTry
    <3>2. CASE NextTry BY <2>2, <2>4, <3>2 DEF NextTry, Inv, Position
    <3>3. CASE NextSlot
      <4>1. n \in DOMAIN archive /\ archive[n].slot \in Nat /\ archive[n].try \in 1..MaxTries
        BY <2>2, <2>4, <3>3 DEF NextSlot
      <4>2. n <= (archive[n].slot - 1) * MaxTries + archive[n].try
        BY <3>3 DEF NextSlot, Inv, Position
      <4>3. n <= archive[n].slot * MaxTries BY <2>2, <4>1, <4>2, SlotPositions
      <4> QED BY <2>2, <4>1, <4>3, <3>3 DEF NextSlot
    <3> QED BY <2>6, <3>1, <3>2, <3>3
  <2>14. Pinned' BY <2>2, <2>3 DEF Inv, Pinned
  <2>15. SameConditions'
    <3>1. \A i \in DOMAIN archive' :
            archive'[i].snap = request.snap /\ archive'[i].day = snapped[request.snap]
      BY <2>1, <2>2, <2>3 DEF Inv, Checked, SameConditions
    <3> QED BY <2>1, <3>1 DEF SameConditions, world
  <2> QED BY <2>8, <2>9, <2>10, <2>11, <2>12, <2>13, <2>14, <2>15 DEF Inv
<1> QED BY <1>1, <1>2

LEMMA InvPrepareEnds == ASSUME Inv, PrepareEnds PROVE Inv'
<1>1. PICK a : Amends(a) BY PrepareEndsAmends
<1>2. n > 0 /\ archive \in Seq(Attempt) BY LatestOpen DEF PrepareEnds, Inv, Shape
<1>3. archive' \in Seq(Attempt) BY <1>1, <1>2, AmendedArchive
<1>4. Shape' BY <1>3, NoRequestType DEF PrepareEnds, Refuse, world, gate, Inv, Shape
<1> QED BY <1>1, <1>2, <1>4, InvAmend DEF PrepareEnds, Refuse

LEMMA InvInterrupted == ASSUME Inv, Interrupted PROVE Inv'
<1>1. CASE pc # "preparing"
  <2>1. kept \in BOOLEAN BY DEF Inv, Shape
  <2> QED BY <1>1, <2>1, InvRefuse DEF Interrupted
<1>2. CASE pc = "preparing"
  <2>1. PICK a : Amends(a) BY <1>2, InterruptedAmends
  <2>2. n > 0 /\ archive \in Seq(Attempt) BY <1>2, LatestOpen DEF Inv, Shape
  <2>3. archive' \in Seq(Attempt) BY <2>1, <2>2, AmendedArchive
  <2>4. Shape' BY <2>3, NoRequestType DEF Interrupted, Refuse, world, gate, Inv, Shape
  <2> QED BY <2>1, <2>2, <2>4, InvAmend DEF Interrupted, Refuse
<1> QED BY <1>1, <1>2

LEMMA InvEnd == ASSUME Inv, End PROVE Inv'
<1>1. PICK a : Amends(a) BY EndAmends
<1>2. /\ n > 0 /\ pc = "idle" /\ kept' \in BOOLEAN
      /\ UNCHANGED <<world, gate, pc, request>> /\ archive \in Seq(Attempt)
  BY EndAmends DEF Inv, Shape
<1>3. archive' \in Seq(Attempt) BY <1>1, <1>2, AmendedArchive
<1>4. Shape' BY <1>2, <1>3 DEF world, gate, Inv, Shape
<1> QED BY <1>1, <1>2, <1>4, InvAmend

LEMMA InvNext == ASSUME Inv, [Next]_vars PROVE Inv'
<1>1. ASSUME NEW r \in Requests, Ask(r) PROVE Inv' BY <1>1, InvAsk
<1>2. CASE UNCHANGED vars
  <2>1. Shape' BY <1>2 DEF vars, world, gate, Inv, Shape
  <2>2. Checked' BY <1>2, CheckedStays DEF vars, world
  <2> QED BY <1>2, <2>1, <2>2, InvSameArchive DEF vars, world
<1> QED
  BY <1>1, <1>2, InvSettle, InvCreate, InvPrepareEnds, InvInterrupted, InvEnd, InvAround, InvGate
     DEF Next, Prepare

LEMMA Invariance == Spec => []Inv
  BY InvInit, InvNext, PTL DEF Spec

---------------------------------------------------------------------------
\* Every variable keeps its type, and no slot has more attempts than tries.
THEOREM TypeCorrect == Spec => []TypeOK
<1>1. ASSUME Inv PROVE Len(archive) <= SlotCount * MaxTries
  <2> USE <1>1
  <2>1. n \in Nat /\ DOMAIN archive = 1..n BY Elements DEF Inv, Shape
  <2>2. CASE n = 0 BY <2>2 DEF n
  <2>3. CASE n > 0
    <3>1. archive[n].slot \in 1..SlotCount /\ archive[n].try \in 1..MaxTries
      BY <2>1, <2>3, Elements DEF Inv, Shape, Slots
    <3>2. n <= archive[n].slot * MaxTries
      BY <2>1, <2>3, <3>1, SlotPositions DEF Inv, Position
    <3>3. archive[n].slot * MaxTries <= SlotCount * MaxTries BY <3>1
    <3> QED BY <2>1, <3>1, <3>2, <3>3 DEF n
  <2> QED BY <2>1, <2>2, <2>3
<1>2. Inv => TypeOK BY <1>1 DEF Inv, Shape, TypeOK
<1> QED BY <1>2, Invariance, PTL

\* All attempts of a series were made with one candidate snapshot and on the day
\* on which it was frozen, however the days and the snapshots are interleaved.
THEOREM OneSnapshotOneDay == Spec => []SameConditions
<1>1. Inv => SameConditions BY DEF Inv
<1> QED BY <1>1, Invariance, PTL

\* An observation is the attempt of its slot that pairing counts, and the only
\* one: none was tried after it.
THEOREM ObservationsCount == Spec => []CountsObservations
<1>1. ASSUME Inv PROVE CountsObservations
  <2> USE <1>1
  <2> SUFFICES ASSUME NEW i \in DOMAIN archive,
                      archive[i].end \in {"success", "direct_bypass"}, archive[i].alarm # "torn"
               PROVE  Counted(archive[i].slot) = {i}
    BY DEF CountsObservations
  <2>1. n \in Nat /\ DOMAIN archive = 1..n BY Elements DEF Inv, Shape
  <2>2. Readable(archive[i]) BY DEF Readable, Inv, Pinned
  <2>3. \A j \in InSlot(archive[i].slot) : j <= i
    <3> SUFFICES ASSUME NEW j \in InSlot(archive[i].slot), i < j PROVE FALSE
      BY <2>1 DEF InSlot
    <3>1. j \in DOMAIN archive /\ archive[j].slot = archive[i].slot BY DEF InSlot
    <3>2. archive[i].slot \in Slots BY Elements DEF Inv, Shape
    <3> QED BY <3>1, <3>2 DEF Inv, Ordered, Slots
  <2>4. i \in InSlot(archive[i].slot) BY DEF InSlot
  <2>5. InSlot(archive[i].slot) \subseteq Nat BY <2>1 DEF InSlot
  <2> QED BY <2>2, <2>3, <2>4, <2>5 DEF Counted
<1>2. Inv => CountsObservations BY <1>1
<1> QED BY <1>2, Invariance, PTL

---------------------------------------------------------------------------
\* The series implements its plan.

\* Amending the open attempt ends it for the plan, or is no step of it.
LEMMA PlanAmend ==
  ASSUME Inv, n > 0, ~Finalized(archive[n]), NEW a, Amends(a)
  PROVE  [Plan!Next]_(Plan!progress)
<1>1. n' = n /\ n \in Nat /\ archive'[n] = a
  BY AmendedArchive, Elements DEF Inv, Shape
<1>2. Ended(archive[n]) = "open" BY DEF Ended, Finalized
<1>3. Ended(a) \in {"open", "technical", "stopped", "success"} BY DEF Ended
<1> HIDE DEF Ended
<1> QED
  BY <1>1, <1>2, <1>3 DEF Amends, Plan!Next, Plan!End, Plan!progress

LEMMA PlanCreate ==
  ASSUME Inv, Create
  PROVE  [Plan!Next]_(Plan!progress)
<1>1. CASE UNCHANGED archive BY <1>1 DEF Plan!progress, n
<1>2. CASE archive' # archive
  <2>1. pc = "settled" /\ archive' = Append(archive, Created)
    BY <1>2 DEF Create, Refuse, Created
  <2>2. n' = n + 1 /\ n \in Nat /\ DOMAIN archive = 1..n /\ archive'[n + 1] = Created
    BY <2>1, CreatedArchive
  <2>3. FirstTry \/ NextTry \/ NextSlot BY <2>1, PlanOrder
  <2>4. /\ request.slot \in 1..SlotCount /\ request.try \in 1..MaxTries
        /\ \A i \in DOMAIN archive :
             archive[i].slot \in 1..SlotCount /\ archive[i].try \in 1..MaxTries
    BY Elements DEF Inv, Shape, Slots
  <2>5. Created.slot = request.slot /\ Created.try = request.try /\ Ended(Created) = "open"
    BY DEF Created, Ended, Finalized
  <2>6. ASSUME n > 0
        PROVE  /\ archive[n].end = "technical" => Ended(archive[n]) = "technical"
               /\ archive[n].end # "technical" => Ended(archive[n]) = "success"
    <3>1. n \in DOMAIN archive BY <2>2, <2>6
    <3>2. Finalized(archive[n]) /\ ~SafetyStop(archive[n])
      BY <2>1, <3>1 DEF Inv, Checked
    <3> QED BY <3>2 DEF Ended, SafetyStop
  <2>7. CASE FirstTry
    BY <2>2, <2>5, <2>7 DEF FirstTry, Plan!Next, Plan!Try
  <2>8. CASE NextTry
    <3>1. Ended(archive[n]) = "technical" BY <2>6, <2>8 DEF NextTry
    <3> QED BY <2>2, <2>4, <2>5, <2>8, <3>1 DEF NextTry, Plan!Next, Plan!Try
  <2>9. CASE NextSlot
    <3>1. \/ Ended(archive[n]) = "success"
          \/ Ended(archive[n]) = "technical" /\ archive[n].try = MaxTries
      BY <2>6, <2>9 DEF NextSlot, Scientific
    <3> QED BY <2>2, <2>4, <2>5, <2>9, <3>1 DEF NextSlot, Plan!Next, Plan!MoveOn
  <2> QED BY <2>3, <2>7, <2>8, <2>9
<1> QED BY <1>1, <1>2

LEMMA PlanNext ==
  ASSUME Inv, [Next]_vars
  PROVE  [Plan!Next]_(Plan!progress)
<1>1. CASE UNCHANGED archive BY <1>1 DEF Plan!progress, n
<1>2. CASE Create BY <1>2, PlanCreate
<1>3. CASE PrepareEnds
  <2>1. PICK a : Amends(a) BY <1>3, PrepareEndsAmends
  <2> QED BY <1>3, <2>1, LatestOpen, PlanAmend DEF PrepareEnds
<1>4. CASE Interrupted /\ pc = "preparing"
  <2>1. PICK a : Amends(a) BY <1>4, InterruptedAmends
  <2> QED BY <1>4, <2>1, LatestOpen, PlanAmend
<1>5. CASE End
  <2>1. PICK a : Amends(a) BY <1>5, EndAmends
  <2> QED BY <1>5, <2>1, EndAmends, PlanAmend
<1> QED
  BY <1>1, <1>2, <1>3, <1>4, <1>5
     DEF Next, vars, Prepare, Ask, Settle, Interrupted, Around, Gate

\* The series follows its frozen plan: whatever ends an attempt and whatever is
\* lost on the way, each attempt is the next try of its slot or the first of the
\* next slot, and nothing follows a safety stop.
THEOREM SeriesFollowsPlan == Spec => FollowsPlan
<1>1. Init => Plan!Init BY DEF Init, Plan!Init, n
<1> QED BY <1>1, InvInit, InvNext, PlanNext, PTL DEF Spec, FollowsPlan, Plan!Spec

=============================================================================
