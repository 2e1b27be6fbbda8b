-------------------------- MODULE DiagnosticEvidence --------------------------
(***************************************************************************)
(* What pairing.py makes of one attempt of the H3-required series: the     *)
(* outer connections that the Mac's capture holds, the deliveries that the *)
(* origin logs, the two readings of the origin gate, how finish-run ends   *)
(* the attempt, the copies of the origin's log that reach the Mac in any   *)
(* order, and the verdict of each pairing pass over them.                  *)
(*                                                                         *)
(* Time is counted by what the rules compare: before the proxy's state is  *)
(* reset, until the first delivery, and after it.                          *)
(***************************************************************************)
EXTENDS Integers, FiniteSets, Sequences

CONSTANTS
  Life,        \* the origin gate's timeout in units of the model's clock
  Minimum,     \* minimum_remaining_seconds in the same unit
  MaxFlows,    \* bound: outer connections in the capture
  MaxRows,     \* bound: deliveries with the attempt's run ID
  MaxOddities  \* bound: how often a behaviour leaves the expected course

ASSUME EvidenceAssumption ==
  /\ Life \in Nat \ {0} /\ Minimum \in 1..Life
  /\ MaxFlows \in Nat /\ MaxRows \in Nat \ {0} /\ MaxOddities \in Nat

VARIABLES
  condition,  \* of the attempt's slot
  phase,      \* "captured" before the reset, "open", "closing" in finish-run, "sealed"
  overdue,    \* the response deadline has passed
  table,      \* the origin gate's table exists
  left,       \* what is left of its target's timeout
  rearmed,    \* the gate has been armed anew since the attempt began
  pre, post,  \* remaining_seconds in the attempt's two gate readings, 0 without one
  flows,      \* when each step of an outer connection was captured
  direct,     \* the capture holds a packet to the origin itself
  dropped,    \* the counter of the PF rule has risen
  rows,       \* the origin's log of the run ID
  saved,      \* whose response response.json is, 0 when there is none
  end,        \* the run_finished event
  archive,    \* how many rows the server's archive holds that has been pulled
  pcaps,      \* one with the captures has been pulled
  prefix,     \* how many rows the snapshot of the active log holds
  damaged,    \* a copy of the log does not verify or parse
  verdict,    \* of the latest pairing pass
  odd         \* how many oddities have happened

gate == <<table, left, rearmed>>
wire == <<flows, direct, dropped, rows>>
attempt == <<condition, phase, overdue, pre, post, saved, end>>
copies == <<archive, prefix, pcaps, damaged>>
vars == <<gate, wire, attempt, copies, verdict, odd>>

Conditions == {"udp_permitted", "udp_blocked"}
\* To the intended ingress or to another candidate with a known name; nothing
\* counts what goes to a candidate without one.
Flows == {"tcp", "udp"} \X {"intended", "named"}
Outcomes == {"none", "success", "direct_bypass", "timeout", "other"}
Supports == {"supports", "strong"}
Verdicts == Supports \cup {"none", "safety_stop", "excluded", "non_supporting", "unevaluable"}

Lease == INSTANCE GateLease

Init ==
  /\ condition \in Conditions /\ phase = "captured" /\ overdue = FALSE
  /\ table = TRUE /\ left \in Minimum..Life /\ rearmed = FALSE /\ pre = left /\ post = 0
  /\ flows = [f \in Flows |-> <<>>] /\ direct = FALSE /\ dropped = FALSE /\ rows = <<>>
  /\ saved = 0 /\ end = [outcome |-> "none", changed |-> FALSE]
  /\ archive = 0 /\ prefix = 0 /\ pcaps = FALSE /\ damaged = FALSE
  /\ verdict = "none" /\ odd = 0

Odd(b) == odd' = (IF b THEN odd + 1 ELSE odd) /\ odd' <= MaxOddities

---------------------------------------------------------------------------
\* The wire.

\* The three times that the rules tell apart.
Now == CASE phase = "captured" -> 0 [] phase # "captured" /\ rows = <<>> -> 1 [] OTHER -> 2
Capturing == phase \in {"captured", "open"}

\* The next packet of an outer connection: SYN or Initial, an answer, the ACK
\* that completes the handshake.  The rule lets no datagram out.
OuterPacket(f) ==
  /\ Capturing
  /\ Len(flows[f]) < (IF f[1] = "tcp" THEN 3 ELSE 2)
  /\ f[1] = "udp" /\ f[2] = "intended" => condition = "udp_permitted"
  /\ flows' = [flows EXCEPT ![f] = Append(@, Now)]
  /\ Cardinality({g \in Flows : flows'[g] # <<>>}) <= MaxFlows
  /\ Odd(Now # 1)
  /\ UNCHANGED <<gate, direct, dropped, rows, attempt, copies, verdict>>

\* PF drops a datagram to the intended ingress and counts it.
DroppedPacket ==
  /\ phase = "open" /\ condition = "udp_blocked" /\ ~dropped
  /\ dropped' = TRUE
  /\ UNCHANGED <<gate, flows, direct, rows, attempt, copies, verdict, odd>>

\* A packet to the origin itself; when makes no difference.
DirectPacket ==
  /\ phase = "open" /\ ~direct
  /\ direct' = TRUE
  /\ Odd(TRUE)
  /\ UNCHANGED <<gate, flows, dropped, rows, attempt, copies, verdict>>

\* The page reaches the origin, by TCP only where the gate lets it in; and once
\* more, the same way, when Safari loads it again at any time.
Deliver(proto, from, fresh) ==
  /\ phase \in {"open", "sealed"} /\ Len(rows) < MaxRows
  /\ proto = "h2" => left = 0
  /\ rows # <<>> => proto = rows[1].proto /\ from = rows[1].from /\ fresh = rows[1].fresh
  /\ rows' = Append(rows, [proto |-> proto, from |-> from, fresh |-> fresh,
                           late |-> overdue, blocked |-> left > 0])
  /\ direct' = (direct \/ (from = "own" /\ Capturing))
  /\ Odd(from # "relay" \/ ~fresh \/ rows # <<>>)
  /\ UNCHANGED <<gate, flows, dropped, attempt, copies, verdict>>

\* The gate runs through its lease between the two readings.
Gate ==
  /\ phase = "open" /\ Lease!Next
  /\ rearmed' = (rearmed \/ left' > left)
  /\ Odd(left' < left \/ table' # table)
  /\ UNCHANGED <<wire, attempt, copies, verdict>>

---------------------------------------------------------------------------
\* The attempt.

\* networkserviceproxy_state_cleared_utc, then Safari.
Launch ==
  /\ phase = "captured" /\ phase' = "open"
  /\ UNCHANGED <<gate, wire, condition, overdue, pre, post, saved, end, copies, verdict, odd>>

Deadline ==
  /\ phase = "open" /\ rows = <<>> /\ ~overdue /\ overdue' = TRUE
  /\ Odd(TRUE)
  /\ UNCHANGED <<gate, wire, condition, phase, pre, post, saved, end, copies, verdict>>

\* The outcome of a response: of the client's own address, late, or as typed.
Outcome(typed, i) ==
  CASE i # 0 /\ rows[i].from = "own" -> "direct_bypass"
    [] i # 0 /\ rows[i].from # "own" /\ rows[i].late -> "timeout"
    [] OTHER -> typed

\* finish-run keeps the response of delivery i, once, and reads the gate; a
\* success needs a response with the command itself.
Finish(typed, i) ==
  /\ phase = "open" /\ phase' = "closing"
  /\ i # 0 => saved = 0
  /\ typed = "success" => i # 0
  /\ saved' = IF i = 0 THEN saved ELSE i
  /\ post' = IF table /\ left >= Minimum THEN left ELSE post
  /\ end' = [outcome |-> Outcome(typed, i), changed |-> ~(table /\ left >= Minimum)]
  /\ Odd(typed # "success" /\ saved = 0)
  /\ UNCHANGED <<gate, wire, condition, overdue, pre, copies, verdict>>

\* The rest of finish-run: a capture that has exited early makes a failure of
\* anything but a stop, conditions that have changed are recorded.
Seal(early, automatic) ==
  /\ phase = "closing" /\ phase' = "sealed"
  /\ end' = [outcome |-> IF early /\ end.outcome # "direct_bypass" /\ ~end.changed THEN "other" ELSE end.outcome,
             changed |-> end.changed \/ automatic]
  /\ Odd(early \/ automatic)
  /\ UNCHANGED <<gate, wire, condition, overdue, pre, post, saved, copies, verdict>>

\* finish-run is refused after it has written: what it wrote stays.
Refuse ==
  /\ phase = "closing" /\ phase' = "open"
  /\ end' = [outcome |-> "none", changed |-> FALSE]
  /\ Odd(TRUE)
  /\ UNCHANGED <<gate, wire, condition, overdue, pre, post, saved, copies, verdict>>

---------------------------------------------------------------------------
\* The copies.

\* The snapshot of the active log: whole rows, and at least one of every
\* finalized attempt with a response.
Snapshot ==
  /\ phase = "sealed" /\ saved # 0 /\ rows # <<>>
  /\ prefix' = Len(rows) /\ prefix' # prefix
  /\ UNCHANGED <<gate, wire, attempt, archive, pcaps, damaged, verdict, odd>>

\* The server's archive is pulled: the captures, and the log once it has been
\* rotated; what is pulled may not verify.
Pull ==
  /\ phase = "sealed"
  /\ pcaps' = TRUE
  /\ archive' \in {archive, Len(rows)} /\ damaged' \in BOOLEAN
  /\ Odd(damaged' /\ ~damaged)
  /\ UNCHANGED <<gate, wire, attempt, prefix, verdict>>

---------------------------------------------------------------------------
\* pairing.

\* Mutant: a row that two copies hold is counted twice.
LoggedTwice == archive + prefix

\* load_caddy_records: a row that two copies hold counts once.
Logged == IF archive >= prefix THEN archive ELSE prefix

\* Mutant: the row of the response is taken, whatever else is tagged.
SelectedAmong == saved = 1 /\ Logged >= 1

\* exact_caddy_pair: the only tagged row, and it is that of the response.
Selected == saved = 1 /\ Logged = 1
PairingErrors ==
  \/ ~Selected /\ (saved # 0 \/ Logged # 0)
  \/ Selected /\ ~pcaps

\* Mutant: contacts count until the capture ends.
InWindowUntilEnd(t) == t >= 1

\* The attribution window ends with the selected delivery.
InWindow(t) == t >= 1 /\ (Selected => t < 2)

\* client_contacts: connections to a named candidate that began in the window,
\* and how far they got in it.
Steps(f) ==
  IF flows[f] = <<>> \/ ~InWindow(flows[f][1]) THEN 0
  ELSE Cardinality({i \in DOMAIN flows[f] : InWindow(flows[f][i])})
Contacts == {f \in Flows : Steps(f) > 0}
OnlyUdp == Contacts # {} /\ \A f \in Contacts : f[1] = "udp"
UdpFailover == \E f \in Contacts : f[1] = "udp" /\ f[2] # "intended" /\ Steps(f) > 1
TcpFallback == Cardinality({f \in Contacts : f[1] = "tcp" /\ Steps(f) = 3}) = 1

\* validate_origin_gate_evidence: the second reading shows no more than the first.
GateValid == post > 0 /\ post <= pre

\* server_flow_evidence: the delivery's connection was set up in the attempt.
Fresh == rows[1].fresh

\* catalogue_match against the feed of the day.
Catalogued == rows[1].from # "unknown"

\* pf_counter_result: the rule's counter has risen.
Engaged == dropped

\* deadline_missed.
Late == Selected /\ rows[1].late

\* classify_h3_required_trial.
Blocked ==
  CASE UdpFailover -> "supports"
    [] ~UdpFailover /\ ~Engaged -> "unevaluable"
    [] ~UdpFailover /\ Engaged /\ TcpFallback -> "strong"
    [] OTHER -> "non_supporting"
Permitted == IF OnlyUdp /\ ~UdpFailover THEN "supports" ELSE "non_supporting"
Classify ==
  IF ~GateValid \/ PairingErrors THEN "excluded"
  ELSE IF ~Selected THEN "non_supporting"
  ELSE IF rows[1].from = "own" THEN "safety_stop"
  ELSE IF direct \/ ~Catalogued \/ rows[1].proto # "h3" \/ ~Fresh THEN "excluded"
  ELSE IF condition = "udp_blocked" THEN Blocked ELSE Permitted

\* Mutant: what is excluded stays excluded.
LifecycleLast(v) ==
  IF v \in {"excluded", "safety_stop"} THEN v
  ELSE IF end.outcome = "direct_bypass" THEN "safety_stop"
  ELSE IF end.changed THEN "excluded"
  ELSE IF end.outcome = "timeout" \/ Late THEN "non_supporting"
  ELSE IF end.outcome # "success" THEN "excluded"
  ELSE v

\* gate_acceptance_by_lifecycle.
Lifecycle(v) ==
  IF end.outcome = "direct_bypass" THEN "safety_stop"
  ELSE IF v \in {"excluded", "safety_stop"} THEN v
  ELSE IF end.changed THEN "excluded"
  ELSE IF end.outcome = "timeout" \/ Late THEN "non_supporting"
  ELSE IF end.outcome # "success" THEN "excluded"
  ELSE v

\* One pass over every attempt and every copy; errors in the log override
\* each verdict.
Pair ==
  /\ phase = "sealed"
  /\ verdict' = IF damaged THEN "excluded" ELSE Lifecycle(Classify)
  /\ UNCHANGED <<gate, wire, attempt, copies, odd>>

Wire ==
  \/ \E f \in Flows : OuterPacket(f)
  \/ DroppedPacket \/ DirectPacket
  \/ \E proto \in {"h3", "h2"}, from \in {"relay", "unknown", "own"}, fresh \in BOOLEAN :
       Deliver(proto, from, fresh)

Next ==
  \/ Wire \/ Gate \/ Launch \/ Deadline
  \/ \E typed \in {"success", "timeout", "other"}, i \in {0} \cup DOMAIN rows : Finish(typed, i)
  \/ \E early, automatic \in BOOLEAN : Seal(early, automatic)
  \/ Refuse \/ Snapshot \/ Pull \/ Pair

Spec == Init /\ [][Next]_vars

---------------------------------------------------------------------------
\* Properties.

\* Every variable has its type; the copies hold rows that the log has.
TypeOK ==
  /\ condition \in Conditions /\ phase \in {"captured", "open", "closing", "sealed"}
  /\ overdue \in BOOLEAN /\ table \in BOOLEAN /\ left \in 0..Life /\ rearmed \in BOOLEAN
  /\ pre \in 0..Life /\ post \in 0..Life
  /\ flows \in [Flows -> Seq(0..2)] /\ \A f \in Flows : Len(flows[f]) <= 3
  /\ direct \in BOOLEAN /\ dropped \in BOOLEAN
  /\ rows \in Seq([proto : {"h3", "h2"}, from : {"relay", "unknown", "own"},
                    fresh : BOOLEAN, late : BOOLEAN, blocked : BOOLEAN])
  /\ Len(rows) <= MaxRows
  /\ saved \in 0..Len(rows) /\ end \in [outcome : Outcomes, changed : BOOLEAN]
  /\ archive \in 0..Len(rows) /\ prefix \in 0..Len(rows)
  /\ pcaps \in BOOLEAN /\ damaged \in BOOLEAN /\ verdict \in Verdicts /\ odd \in 0..MaxOddities

\* A finding is earned: a pass that lets an attempt support the claim has, in
\* whatever order deliveries, deadline, gate and copies came, one delivery on
\* record, by HTTP/3, through the relay, fresh and in time, while TCP was
\* blocked; a gate that was lifted by then has been armed anew afterwards.
Earned ==
  /\ Logged = 1
  /\ rows[1].proto = "h3" /\ rows[1].from = "relay" /\ rows[1].fresh /\ ~rows[1].late
  /\ rows[1].blocked \/ rearmed
SupportIsEarned == [][Pair /\ verdict' \in Supports => Earned]_vars

\* "Ambiguity always defeats a finding": the strong endpoint needs datagrams
\* that the rule has dropped and, between the reset and the delivery, exactly one
\* TCP connection to a named ingress and no answered QUIC to another one.
StrongNeedsFallback ==
  [][Pair /\ verdict' = "strong" =>
       /\ condition = "udp_blocked" /\ dropped
       /\ Cardinality({f \in Flows : f[1] = "tcp" /\ flows[f] = <<1, 1, 1>>}) = 1
       /\ \A f \in Flows : f[1] = "udp" /\ f[2] = "named" => flows[f] # <<1, 1>>]_vars

\* A finding is kept: pulling and snapshotting the same log once more never
\* takes it back, only another delivery or a damaged copy does.
SupportIsKept ==
  [][Pair /\ verdict \in Supports /\ verdict' \notin Supports => damaged \/ Len(rows) > 1]_vars

\* An attempt that ended as a bypass is reported as a safety stop, whatever
\* else is wrong with its evidence, as long as the logs can be read.
BypassStops == [][Pair /\ end.outcome = "direct_bypass" => verdict' = "safety_stop" \/ damaged]_vars

=============================================================================
