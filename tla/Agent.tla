------------------------------- MODULE Agent --------------------------------
(***************************************************************************)
(* internal/agent: what Agent.Process makes of the provider's reply, and   *)
(* pkg/llm, the providers that give it.                                    *)
(* Prompt, reasoning and timings are data no property distinguishes; the   *)
(* reply is abstracted to the case of Complete or Process it falls into.   *)
(***************************************************************************)

\* The tools of tools.go (validActions).
Actions == {"send_notification", "escalate_ticket", "flag_for_review",
            "update_inventory", "send_welcome_sequence"}

(***************************************************************************)
(* How a call of the provider can fail (pkg/llm): no answer before the     *)
(* client's timeout or the end of ctx, a status other than 200, a body     *)
(* that does not parse, or a reply without a choice.                       *)
(***************************************************************************)
CompleteErrors == {"no_answer", "bad_status", "bad_body", "no_choice"}

\* The text it may give: one that names a tool, or does not.
Texts == Actions \cup {"non_json", "unknown_action"}

Replies == Texts \cup CompleteErrors

\* Complete returns the text of the first choice, or "" and an error.
Complete(reply) == IF reply \in CompleteErrors THEN "" ELSE reply

\* Action.Valid
Valid(a) == a \in Actions

\* executeAction: every tool is a stub that succeeds; the default case fails.
ExecuteAction(a) == a \in Actions

(***************************************************************************)
(* The pair (d.Status, error) that Process returns:                        *)
(*   "completed"  (completed, nil)                                         *)
(*   "failed"     (failed, nil): the tool itself reported failure          *)
(*   "error"      (failed, err): failedDecision with an error              *)
(***************************************************************************)
Outcomes == {"completed", "failed", "error"}

Outcome(reply) ==
    IF ~Valid(Complete(reply)) THEN "error"
    ELSE IF ExecuteAction(Complete(reply)) THEN "completed" ELSE "failed"

\* d.Status of the decision that comes with an outcome.
StatusOf(o) == IF o = "completed" THEN "completed" ELSE "failed"

=============================================================================
