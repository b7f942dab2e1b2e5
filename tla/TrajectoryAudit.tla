--------------------------- MODULE TrajectoryAudit ---------------------------
(***************************************************************************)
(* The audit of the rollout records that training leaves behind            *)
(* (audit/trajectory_audit.py).  A record is a function on the fields it   *)
(* has; of its token lists only lengths and whether all values are as they *)
(* must be are kept.                                                       *)
(***************************************************************************)
EXTENDS Integers, Sequences, FiniteSets

RequiredFields ==
  {"trajectory_id", "policy_version", "generated_tokens", "action_mask", "old_logprobs",
   "rewards"}

\* A list in a record; what is no list at all has length -1.
ListOf(n, good) == [len |-> n, good |-> good]
NoVersion == -1    \* no string

\* The findings of one record, by their signals.
AuditRecord(r) ==
  IF ~(RequiredFields \subseteq DOMAIN r) THEN {"missing_fields"}
  ELSE LET tokens == r["generated_tokens"]
           mask == r["action_mask"]
           logprobs == r["old_logprobs"]
           Finds(signal, found) == IF found THEN {signal} ELSE {}
       IN UNION {
            Finds("empty_tokens", tokens.len <= 0),
            Finds("mask_not_list", mask.len = -1),
            Finds("mask_shift", mask.len \notin {-1, tokens.len}),
            Finds("mask_values", mask.len = tokens.len /\ ~mask.good),
            Finds("logprobs_not_list", logprobs.len = -1),
            Finds("misbound_logprob", logprobs.len \notin {-1, tokens.len}),
            Finds("logprob_sanity", logprobs.len = tokens.len /\ ~logprobs.good),
            Finds("stale_policy", r["policy_version"] = NoVersion),
            Finds("reward_not_finite", ~r["rewards"].finite),
            Finds("silent_mask_drift",
                  /\ "optimizer_consumed_mask" \in DOMAIN r /\ mask.len # -1
                  /\ r["optimizer_consumed_mask"] # mask)}

\* Two policy versions in one directory.
Mixed(file) ==
  \E m, n \in DOMAIN file :
    /\ "policy_version" \in DOMAIN file[m] \cap DOMAIN file[n]
    /\ NoVersion \notin {file[m]["policy_version"], file[n]["policy_version"]}
    /\ file[m]["policy_version"] # file[n]["policy_version"]

\* audit_trajectory_dir; a line that is no JSON is a record without fields.
AuditTrajectories(file) ==
  LET findings == UNION {AuditRecord(file[n]) : n \in DOMAIN file} IN
  [records |-> Len(file), findings |-> findings, mixed |-> Mixed(file),
   consistent |-> findings = {} /\ ~Mixed(file)]
=============================================================================
