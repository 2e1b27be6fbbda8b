------------------------- MODULE MCDiagnosticLifecycle -------------------------
(***************************************************************************)
(* DiagnosticLifecycle with its refinement of AttemptContract, for TLC.    *)
(***************************************************************************)
EXTENDS DiagnosticLifecycle

Owed(state) == state # {} /\ "restored" \notin state

\* The mapping is the one of the experiment's attempt, with two differences:
\* cleanup may seal an attempt that already has its outcome, so the outcome is
\* the last of events.jsonl, and a rehearsal has none.
Contract == INSTANCE AttemptContract WITH
  Outcome <- Outcome \cup {NoCommand},
  NoOutcome <- {},
  phase <- IF Sealed THEN "sealed"
           ELSE IF "metadata.json" \in files THEN "open" ELSE "absent",
  altered <- {x \in {"hosts", "rule", "capture"} :
                CASE x = "hosts" -> hosts = "override"
                  [] x = "rule" -> pfRule
                  [] x = "capture" -> capture # "none"},
  owed <- {x \in {"hosts", "rule"} : Owed(IF x = "hosts" THEN dnsState ELSE pfState)},
  outcome <- IF ~Sealed THEN {}
             ELSE IF outcomes = <<>> THEN NoCommand ELSE outcomes[Len(outcomes)]

\* An attempt of the diagnostic, and a rehearsal, keep the same contract as an
\* attempt of the experiment, however often cleanup has to infer what happened.
KeepsContract == Contract!Spec

=============================================================================
