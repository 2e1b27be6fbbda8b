-------------------------- MODULE MCAttemptLifecycle --------------------------
(***************************************************************************)
(* AttemptLifecycle with its refinement of AttemptContract, for TLC.       *)
(***************************************************************************)
EXTENDS AttemptLifecycle

\* The outcome a log states; for a log without one, nothing is said of it.
OutcomeOf(log) == log[CHOOSE i \in DOMAIN log : log[i] \in Outcomes]

\* The mapping: an attempt is open from its metadata.json on and sealed from
\* its manifest on; an override is owed from the moment dns-pin-state.json or
\* firewall-state.json exists until restored_utc is written in it.
Contract == INSTANCE AttemptContract WITH
  Outcome <- Outcomes,
  NoOutcome <- "none",
  phase <- IF Sealed THEN "sealed"
           ELSE IF "metadata.json" \in files THEN "open" ELSE "absent",
  altered <- {x \in {"hosts", "rule", "capture"} :
                CASE x = "hosts" -> hosts.pin
                  [] x = "rule" -> pfRule
                  [] x = "capture" -> tcpdump},
  owed <- {x \in {"hosts", "rule"} :
             ~Restored(IF x = "hosts" THEN dnsState ELSE pfState)},
  outcome <- IF Sealed THEN OutcomeOf(events) ELSE "none"

\* The attempt keeps its contract, whatever fails and whenever the machine
\* restarts: see AttemptContract for the three promises.
KeepsContract == Contract!Spec

=============================================================================
