------------------------------- MODULE SagaPlans -------------------------------
(***************************************************************************)
(* What the four business sagas ask of the engines: for each step the      *)
(* calls of execute, those of compensate, and what the step hands to the   *)
(* next one; and the methods of the engine adapters.                       *)
(*                                                                         *)
(* A call is a method of an engine, the last part of its idempotency key   *)
(* and, in a loop, the number of the iteration.  A field of an output is   *)
(* present when the step really has a value for it: undefined and the      *)
(* placeholders "<unknown>" and "ord-adl-placeholder-" count as absent.    *)
(*                                                                         *)
(* Operators whose comment starts with "Faulty:" are not part of the       *)
(* specification.                                                          *)
(***************************************************************************)
EXTENDS Naturals, Sequences, TLC

CONSTANTS
    Targets,    \* how many accounts the loops of the ADL saga go over
    Checks      \* how many preconditions a state transition has

ASSUME LoopsAssumption == Targets \in Nat /\ Checks \in Nat

-----------------------------------------------------------------------------
(***************************************************************************)
(* The adapters.  A write carries the idempotency key of its request to    *)
(* the engine, a query has none.                                           *)
(***************************************************************************)
MatchWrites == {"placeOrder", "cancelOrder"}
MatchQueries == {"queryOrder", "listActiveOrders", "queryTrades"}

PositionWrites == {"openPosition", "adjustPosition", "closePosition"}
PositionQueries == {"queryPosition", "listOpenPositions"}

MarginWrites == {"lockMargin", "releaseMargin"}
MarginQueries == {"calculateMargin", "queryMarginBalance"}

FundWrites == {"transferFund"}
FundQueries == {"queryFundBalance", "queryFundLedger", "queryTransferStatus"}

MarkPriceQueries == {"queryMarkPrice", "queryMarkPriceBatch", "queryFundingRate"}

Writes == MatchWrites \union PositionWrites \union MarginWrites \union FundWrites

\* The fields the adapter insists on in the answer to each method; an answer without
\* one of them is an error (TQ-CON-010), although the engine has done the work.
MatchAnswers ==
    [placeOrder |-> {"orderId", "status", "placedAt"},
     cancelOrder |-> {"orderId", "status", "cancelledAt"},
     queryOrder |-> {"orderId", "status", "side", "type", "quantity", "filledQuantity",
                     "remainingQuantity", "queriedAt"},
     listActiveOrders |-> {"accountId", "orders", "queriedAt"},
     queryTrades |-> {"orderId", "trades", "queriedAt"}]

PositionAnswers ==
    [queryPosition |-> {"accountId", "symbol", "positionId", "side", "size", "queriedAt"},
     openPosition |-> {"positionId", "accountId", "symbol", "side", "size", "openedAt"},
     adjustPosition |-> {"positionId", "side", "size", "adjustedAt"},
     closePosition |-> {"positionId", "closedSize", "closedAt"},
     listOpenPositions |-> {"accountId", "positions", "queriedAt"}]

MarginAnswers ==
    [calculateMargin |-> {"requiredMargin", "currency", "calculatedAt"},
     lockMargin |-> {"lockId", "lockedAmount", "currency", "lockedAt"},
     releaseMargin |-> {"lockId", "releasedAmount", "releasedAt"},
     queryMarginBalance |-> {"accountId", "currency", "availableMargin", "lockedMargin",
                             "totalMargin", "queriedAt"}]

FundAnswers ==
    [queryFundBalance |-> {"accountId", "currency", "totalBalance", "availableBalance",
                           "frozenBalance", "queriedAt"},
     queryFundLedger |-> {"accountId", "currency", "entries", "queriedAt"},
     transferFund |-> {"transferId", "status", "transferredAt"},
     queryTransferStatus |-> {"transferId", "status", "transferredAt"}]

MarkPriceAnswers ==
    [queryMarkPrice |-> {"symbol", "markPrice", "queriedAt"},
     queryMarkPriceBatch |-> {"prices", "queriedAt"},
     queryFundingRate |-> {"symbol", "fundingRate", "fundingTime", "queriedAt"}]

Answers == MatchAnswers @@ PositionAnswers @@ MarginAnswers @@ FundAnswers
             @@ MarkPriceAnswers

\* The statuses an adapter accepts in the answer to a write.  An answer with any of
\* them is ok, also when the engine says that it has not done the work.
OrderStatus == {"pending", "partially_filled", "filled", "cancelled", "rejected"}
TransferStatus == {"pending", "completed", "failed"}

Refusable(method) ==
    \/ method \in MatchWrites /\ "rejected" \in OrderStatus
    \/ method \in FundWrites /\ "failed" \in TransferStatus

Queries == MatchQueries \union PositionQueries \union MarginQueries
             \union FundQueries \union MarkPriceQueries

ASSUME MethodsAssumption ==
    Writes \intersect Queries = {} /\ Writes \union Queries = DOMAIN Answers

-----------------------------------------------------------------------------
(***************************************************************************)
(* Shapes of steps.                                                        *)
(***************************************************************************)
Loop(n, method, tag) == [i \in 1 .. n |-> [method |-> method, tag |-> tag, i |-> i]]

\* A step that only reads, or does nothing, has an empty compensate.  reads: the
\* fields of the answers that the step uses.
Reading(n, method, answer, fields) ==
    [calls |-> Loop(n, method, "query"), undo |-> <<>>, reads |-> answer,
     gives |-> fields, passes |-> {}]

\* The i-th call of compensate undoes the i-th call of execute.
Writing(n, method, tag, inverse, inverseTag, answer, fields) ==
    [calls |-> Loop(n, method, tag), undo |-> Loop(n, inverse, inverseTag),
     reads |-> answer, gives |-> fields, passes |-> {}]

\* passes: which field of its input the step copies to which field of its output.
Recording(fields, copied) ==
    [calls |-> <<>>, undo |-> <<>>, reads |-> {}, gives |-> fields, passes |-> copied]

-----------------------------------------------------------------------------
(* The steps of liquidation-saga.ts *)
FetchMarkPrice == Reading(1, "queryMarkPrice", {"markPrice"}, {"markPrice"})
ListOpenPositions == Reading(1, "listOpenPositions", {"positions"}, {"positionIds"})
SubmitCloseOrders ==
    Writing(1, "placeOrder", "close-order", "cancelOrder", "cancel-order", {"orderId"},
            {"orderId"})
ReleaseMargin ==
    Writing(1, "releaseMargin", "release-margin", "lockMargin", "relock-margin",
            {"releasedAmount"}, {"releasedAmount"})
SettleFundTransfer ==
    Writing(1, "transferFund", "settle-fund", "transferFund", "reverse-fund",
            {"transferId"}, {"transferId"})

(* The steps of adl-saga.ts *)
FetchMarkPrices == Reading(1, "queryMarkPriceBatch", {"prices"}, {"markPriceCount"})
VerifyTargets == Reading(Targets, "queryPosition", {}, {"verifiedTargetCount"})

\* Faulty: the loop of compensate starts at the second order.
SubmitOrdersCancelledFromSecond ==
    [Writing(Targets, "placeOrder", "place", "cancelOrder", "cancel", {"orderId"},
             {"placedOrderIds"})
       EXCEPT !.undo = SelectSeq(@, LAMBDA call : call.i > 1)]

SubmitDeleveragingOrders ==
    Writing(Targets, "placeOrder", "place", "cancelOrder", "cancel", {"orderId"},
            {"placedOrderIds"})
InsuranceFundDeduction ==
    Writing(1, "transferFund", "insurance", "transferFund", "reverse-insurance",
            {"transferId"}, {"transferId"})

SettleAccountFunds ==
    Writing(Targets, "transferFund", "settle", "transferFund", "reverse-settle",
            {"transferId"}, {"deleveragedTargets"})

(* The steps of insurance-fund-saga.ts *)
QueryInsuranceBalance ==
    Reading(1, "queryFundBalance", {"availableBalance"}, {"observedBalance"})
DeductFromInsurance ==
    Writing(1, "transferFund", "deduct", "transferFund", "reverse-deduct",
            {"transferId"}, {"transferId", "deductedAmount"})
CreditToAffected ==
    Writing(1, "transferFund", "credit", "transferFund", "reverse-credit",
            {"transferId"}, {"transferId", "creditedAmount"})
RecordCoverageCompletion == Recording({"coverageRatio", "caseId"}, {})

(* The steps of state-transition-saga.ts; a precondition asks the position, the
   margin or the fund engine. *)
ValidateCurrentState == Recording({"previousState", "targetState"}, {})
ValidatePrecondition == Reading(Checks, "queryPosition", {"positionId", "size"},
                             {"executedCheckCount"})
PersistNewState ==
    Recording({"transitionedAt"},
              {<<"previousState", "previousState">>, <<"targetState", "newState">>})
RecordTransitionCompletion ==
    Recording({"caseId", "previousState", "transitionedAt"}, {<<"newState", "newState">>})

-----------------------------------------------------------------------------
BusinessSagaKind == {"liquidation", "adl", "insurance-fund", "state-transition"}

Plan(kind) ==
    CASE kind = "liquidation" ->
           <<FetchMarkPrice, ListOpenPositions, SubmitCloseOrders, ReleaseMargin,
             SettleFundTransfer>>
      [] kind = "adl" ->
           <<FetchMarkPrices, VerifyTargets, SubmitDeleveragingOrders,
             InsuranceFundDeduction, SettleAccountFunds>>
      [] kind = "insurance-fund" ->
           <<QueryInsuranceBalance, DeductFromInsurance, CreditToAffected,
             RecordCoverageCompletion>>
      [] kind = "state-transition" ->
           <<ValidateCurrentState, ValidatePrecondition, PersistNewState,
             RecordTransitionCompletion>>

\* A step uses only what the adapter has checked.
ASSUME AnswersAssumption ==
    \A kind \in BusinessSagaKind : \A n \in DOMAIN Plan(kind) :
        \A i \in DOMAIN Plan(kind)[n].calls :
            Plan(kind)[n].reads \subseteq Answers[Plan(kind)[n].calls[i].method]

\* The orchestrator gives each step the output of the one before it.
OutputOf(step, input) ==
    step.gives \union {pair[2] : pair \in {p \in step.passes : p[1] \in input}}
=============================================================================
