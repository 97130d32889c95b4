---------------------------- MODULE NodeServices ----------------------------
(***************************************************************************)
(* The services beside the signing itself that decide what a node signs or *)
(* pays gas for: the policy gate, the gasless relay and the x402           *)
(* facilitator.  Each has variables of its own and none reads another's.   *)
(***************************************************************************)
EXTENDS Integers, Sequences, FiniteSets

CONSTANTS
  Addresses, Values, Amounts, Caps, MaxCalls,                  \* PolicyGate
  Bodies, MaxPerAddress, MaxGlobal, HourLength, RelayMaxClock, \* Relay
  Payments, AuthEnabled, AuthTtl, X402MaxClock,                \* X402Facilitator
  MaxRequests, ServiceFaults                                   \* of each of the two

VARIABLES
  config, op, gateAt, asked, answers, allowed,
  gaslessClock, body, gaslessAt, gaslessAnswer, counts, gaslessSubmitChain,
  nonceRead, broadcasts, gaslessFaults,
  x402Clock, pay, x402At, x402Answer, spentBefore, spent, x402SubmitChain,
  txs, x402Faults

Gate == INSTANCE PolicyGate WITH at <- gateAt
Gasless == INSTANCE Relay WITH
  MaxClock <- RelayMaxClock, MaxFaults <- ServiceFaults,
  clock <- gaslessClock, at <- gaslessAt, answer <- gaslessAnswer,
  submitChain <- gaslessSubmitChain, faults <- gaslessFaults
X402 == INSTANCE X402Facilitator WITH
  MaxClock <- X402MaxClock, MaxFaults <- ServiceFaults,
  clock <- x402Clock, at <- x402At, answer <- x402Answer,
  submitChain <- x402SubmitChain, faults <- x402Faults

ASSUME ServicesAssumption == Gasless!RelayConstants

(* Whatever the gate allows is covered by each rule that is set.           *)
AllowedIsCovered == Gate!AllowedIsCovered

(* The relay broadcasts no more than the quota of the hours begun.         *)
BroadcastsWithinQuota == Gasless!BroadcastsWithinQuota

(* A payment settles for one request, and a spent one is not valid.        *)
SettlementSound == X402!SettlementSound
=============================================================================
