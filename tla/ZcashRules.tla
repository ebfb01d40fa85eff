------------------------------ MODULE ZcashRules ------------------------------
(***************************************************************************)
(* The verifiers of src/src/zcash: receiver policy of an address, ZIP-321    *)
(* payment requests, viewing keys, and the state of an observed payment.     *)
(* All are pure; what librustzcash makes of an encoded text (whether it      *)
(* decodes, for which network, with which receivers) is part of the input.   *)
(*                                                                           *)
(* A verdict is the first check that fails, by the name of its error, or     *)
(* "none".                                                                   *)
(***************************************************************************)
EXTENDS Integers, Sequences

CONSTANTS MaxAddressBytes, MaxRequestBytes, MaxKeyBytes, MaxMoney

(* A list of <<condition, error>>, in the order of the code's early returns. *)
FirstError(checks) ==
  IF \E i \in DOMAIN checks : checks[i][1]
  THEN checks[CHOOSE i \in DOMAIN checks :
                checks[i][1] /\ \A j \in 1..(i - 1) : ~checks[j][1]][2]
  ELSE "none"

-----------------------------------------------------------------------------
(* Addresses: address.rs *)

Transparent == {"TransparentP2pkh", "TransparentP2sh", "TransparentSourceRestricted"}

(* ParsedCapabilities: what an address can receive, by its kind. *)
Receivers(address) ==
  CASE address.kind = "Unified" -> address.items \ {"unknown"}
    [] address.kind = "Sapling" -> {"sapling"}
    [] address.kind \in Transparent -> {"transparent"}
    [] address.kind = "Sprout" -> {}

HasUnknown(address) == address.kind = "Unified" /\ "unknown" \in address.items

ShieldedCheckout ==
  [require_unified |-> TRUE, require_shielded |-> TRUE, support |-> {"orchard", "sapling"},
   forbid_transparent |-> FALSE, allow_unknown |-> FALSE]
ShieldedRecipient == [ShieldedCheckout EXCEPT !.require_unified = FALSE]
ProtocolCompatible ==
  [ShieldedRecipient EXCEPT !.require_shielded = FALSE, !.allow_unknown = TRUE]

Preferred(address, policy) ==
  LET shielded == Receivers(address) \cap policy.support IN
    IF "orchard" \in shielded THEN "orchard"
    ELSE IF "sapling" \in shielded THEN "sapling"
    ELSE IF ~policy.require_shielded /\ "transparent" \in Receivers(address) THEN "transparent"
    ELSE "none"

(* inspect_parsed_address and apply_policy *)
ParsedAddressError(address, network, policy) ==
  FirstError(<<
    <<address.network # network, "WrongNetwork">>,
    <<policy.require_unified /\ address.kind # "Unified", "UnifiedRequired">>,
    <<address.kind = "Sprout", "SproutUnsupported">>,
    <<policy.forbid_transparent /\ "transparent" \in Receivers(address),
      "TransparentReceiverForbidden">>,
    <<~policy.allow_unknown /\ HasUnknown(address), "UnknownReceiverUnsupported">>,
    <<policy.require_shielded /\ Preferred(address, policy) = "none",
      "ShieldedReceiverRequired">> >>)

(* inspect_address; bytes is the length of the text, address what it decodes to *)
(* where decodes holds.                                                     *)
AddressError(input, network, policy) ==
  IF input.bytes = 0 \/ input.bytes > MaxAddressBytes THEN "InputTooLong"
  ELSE IF ~input.decodes THEN "InvalidAddress"
  ELSE ParsedAddressError(input.address, network, policy)

(* AddressError::rule_result *)
AddressRule(error) ==
  CASE error \in {"InputTooLong", "InvalidAddress"} -> "zip316.address.parse"
    [] error = "WrongNetwork" -> "zip316.address.network"
    [] error \in {"UnifiedRequired", "SproutUnsupported", "ShieldedReceiverRequired",
                  "TransparentReceiverForbidden", "UnknownReceiverUnsupported"} ->
         "zip316.receiver.policy"

(* verify_address: all rules passed, or the one that failed. *)
AddressReport(input, network, policy) ==
  LET error == AddressError(input, network, policy) IN
    IF error = "none"
    THEN [valid |-> TRUE, rules |-> <<"zip316.address.parse", "zip316.address.network",
                                      "zip316.receiver.policy">>]
    ELSE [valid |-> FALSE, rules |-> <<AddressRule(error)>>]

-----------------------------------------------------------------------------
(* Payment requests: payment.rs *)

Unstated == -1   \* no amount, or no total
Overflow == -2   \* a total beyond what money there is

(* zip321's total: of payments 1 to n, unless an amount is missing; the sum is *)
(* checked as it grows.                                                     *)
Total(payments) ==
  LET total[n \in 0..Len(payments)] ==
        IF n = 0 THEN 0
        ELSE IF total[n - 1] < 0 THEN total[n - 1]
        ELSE IF payments[n].amount = Unstated THEN Unstated
        ELSE IF total[n - 1] + payments[n].amount > MaxMoney THEN Overflow
        ELSE total[n - 1] + payments[n].amount
  IN  total[Len(payments)]

Parameters(payments) ==
  LET count[n \in 0..Len(payments)] ==
        IF n = 0 THEN 0 ELSE count[n - 1] + payments[n].parameters
  IN  count[Len(payments)]

(* map_address_error *)
RecipientError(error) ==
  CASE error = "none" -> "none"
    [] error = "WrongNetwork" -> "WrongNetwork"
    [] OTHER -> "UnsafeRecipient"

(* map_zip321_error, and the required parameter that is looked for first. *)
ParseError(request) ==
  CASE request.required -> "UnknownRequiredParameter"
    [] ~request.required /\ request.grammar = "too-many-payments" -> "TooManyPayments"
    [] ~request.required /\ request.grammar = "transparent-memo" -> "MemoNotAllowed"
    [] OTHER -> "InvalidRequest"

(* The checks of one payment. *)
PaymentError(payment, policy) ==
  FirstError(<<
    <<ParsedAddressError(payment.recipient, policy.network, policy.receivers) # "none",
      RecipientError(ParsedAddressError(payment.recipient, policy.network, policy.receivers))>>,
    <<policy.require_amounts /\ payment.amount = Unstated, "AmountRequired">>,
    <<policy.require_positive /\ payment.amount = 0, "ZeroAmount">> >>)

(* Mutant: the limit is compared with every amount, not with their sum. *)
MutantOverLimit(payments, policy) ==
  \E i \in DOMAIN payments : payments[i].amount > policy.max_total

(* No total, no limit: one payment without an amount lifts it. *)
OverLimit(payments, policy) ==
  Total(payments) = Overflow \/ Total(payments) > policy.max_total

(* validate_payment_request *)
RequestError(request, policy) ==
  LET payments == request.payments
      wrong == {i \in DOMAIN payments : PaymentError(payments[i], policy) # "none"}
  IN
  IF request.bytes = 0 \/ request.bytes > MaxRequestBytes THEN "InputTooLong"
  ELSE IF request.grammar # "ok" THEN ParseError(request)
  ELSE IF payments = <<>> THEN "EmptyRequest"
  ELSE IF Len(payments) > policy.max_payments THEN "TooManyPayments"
  ELSE IF wrong # {}
  THEN PaymentError(payments[CHOOSE i \in wrong : \A j \in wrong : i <= j], policy)
  ELSE FirstError(<<
    <<~policy.allow_optional /\ Parameters(payments) > 0, "OptionalParametersForbidden">>,
    <<Parameters(payments) > policy.max_optional, "TooManyOptionalParameters">>,
    <<OverLimit(payments, policy), "AmountLimitExceeded">> >>)

(* PaymentRequestError::rule_result *)
RequestRule(error) ==
  CASE error \in {"InputTooLong", "InvalidRequest", "EmptyRequest", "TooManyPayments"} ->
         "zip321.request.parse"
    [] error = "UnknownRequiredParameter" -> "zip321.parameters.required"
    [] error \in {"WrongNetwork", "UnsafeRecipient"} -> "zip321.recipient.policy"
    [] error \in {"AmountRequired", "ZeroAmount", "AmountLimitExceeded"} ->
         "zip321.amount.policy"
    [] error = "MemoNotAllowed" -> "zip321.memo.policy"
    [] error \in {"OptionalParametersForbidden", "TooManyOptionalParameters"} ->
         "zip321.parameters.optional"

-----------------------------------------------------------------------------
(* Viewing keys: viewing.rs.  A text may start like a spending key and decode  *)
(* as nothing, a full or an incoming viewing key.                           *)
ViewingVerdict(input, network) ==
  IF input.bytes = 0 \/ input.bytes > MaxKeyBytes THEN "InputTooLong"
  ELSE IF input.spending THEN "SpendingMaterialRejected"
  ELSE IF input.decodes = "nothing" THEN "InvalidViewingKey"
  ELSE IF input.network # network THEN "WrongNetwork"
  ELSE input.decodes

-----------------------------------------------------------------------------
(* The state of a payment: lifecycle.rs *)

InvalidFixture(f) ==
  \/ f.required = 0 \/ f.expires = 0
  \/ f.confirmations > 0 /\ f.observations = 0

(* Mutant: the expiry is looked at before the confirmations. *)
MutantLifecycle(f) ==
  FirstError(<<
    <<InvalidFixture(f), "InvalidFixture">>,
    <<f.observations > 0 /\ ~f.matches, "Mismatched">>,
    <<f.observations > 1, "Duplicated">>,
    <<f.confirmed_before /\ f.observations = 0, "Reorged">>,
    <<f.height > f.expires, "Expired">>,
    <<f.observations = 1 /\ f.confirmations >= f.required, "Confirmed">>,
    <<TRUE, "Pending">> >>)

(* evaluate_lifecycle: the rules overlap, and the first that applies decides. *)
Lifecycle(f) ==
  FirstError(<<
    <<InvalidFixture(f), "InvalidFixture">>,
    <<f.observations > 0 /\ ~f.matches, "Mismatched">>,
    <<f.observations > 1, "Duplicated">>,
    <<f.confirmed_before /\ f.observations = 0, "Reorged">>,
    <<f.observations = 1 /\ f.confirmations >= f.required, "Confirmed">>,
    <<f.height > f.expires, "Expired">>,
    <<TRUE, "Pending">> >>)
===============================================================================
