----------------------------- MODULE PolicyRules -----------------------------
(***************************************************************************)
(* evaluate_policy of policy/rules.py.  A ticket text is what the rules    *)
(* tell apart: the keywords found in its lower-cased form and the dollar   *)
(* figures, in cents, that _DOLLAR_AMOUNT_PATTERN finds.  The rules that   *)
(* matched are a set: their order only shows in the wording of `reason`.   *)
(***************************************************************************)
EXTENDS Integers

EscalationKeywords == {"legal", "lawsuit", "attorney", "security", "breach", "fraud"}
RefundKeyword == "refund"
RefundThreshold == 50000  \* _REFUND_AMOUNT_THRESHOLD_USD, in cents
LowConfidence == 70       \* _LOW_CONFIDENCE_THRESHOLD, in percent

PolicyTexts ==
    [keywords : SUBSET (EscalationKeywords \cup {RefundKeyword}), amounts : SUBSET Nat]

HasAmountOverThreshold(text) == \E amount \in text.amounts : amount > RefundThreshold

MatchedKeywordRules(text) ==
    (text.keywords \cap EscalationKeywords)
        \cup (IF RefundKeyword \in text.keywords THEN {RefundKeyword} ELSE {})
        \cup (IF RefundKeyword \in text.keywords /\ HasAmountOverThreshold(text)
              THEN {"refund_over_threshold"} ELSE {})

MatchedRules(text, confidence, unresolved) ==
    MatchedKeywordRules(text)
        \cup (IF confidence < LowConfidence THEN {"low_confidence"} ELSE {})
        \cup (IF unresolved THEN {"agent_unresolved"} ELSE {})
=============================================================================
