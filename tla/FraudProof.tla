----------------------------- MODULE FraudProof -----------------------------
(***************************************************************************)
(* The pre-images the node shares with SuperPaymaster's BLSAggregator      *)
(* (bls-consensus-domain.ts), the reconstruction of a slash's signer set   *)
(* from its transaction (guardian-slash-watcher.core.ts), the assembly of  *)
(* an over-issue fraud proof from it (guardian-fraud-proof-assembler.ts)   *)
(* and the contract that judges the proof                                  *)
(* (OverIssueFraudProofVerifier.sol).                                      *)
(*                                                                         *)
(* keccak256(abi.encode(tag, fields)) is the tuple of its fields: distinct *)
(* inputs have distinct hashes.  An address is a natural number (uint160), *)
(* the zero address is 0; a signer mask is the set of the slots of its     *)
(* bits.                                                                   *)
(***************************************************************************)
EXTENDS Integers, Sequences, FiniteSets

CONSTANT MaxSlots      \* MAX_VALIDATORS (13)

ZeroAddress == 0

(* What a function that throws yields.                                     *)
Thrown == [ok |-> FALSE]

-----------------------------------------------------------------------------
(* bls-consensus-domain.ts                                                 *)

DomainSeparator(d) == <<"BLSConsensus", d.chainId, d.aggregator, d.registry>>

QueueSlashHash(d, operator, level, epoch) ==
  <<"QueueSlash", DomainSeparator(d), operator, level, epoch>>

ExecuteSlashHash(d, proposal, operator, level, epoch, evidence) ==
  <<"ExecuteSlash", DomainSeparator(d), proposal, operator, level, epoch, evidence>>

ReputationHash(d, proposal, users, scores, epoch) ==
  <<"Reputation", DomainSeparator(d), proposal, users, scores, epoch>>

SignersCommitment(d, proposal, message, mask, signers) ==
  <<"SignersCommitment", DomainSeparator(d), proposal, message, mask, signers>>

FraudProofDigest(d, id, guilty) ==
  <<"FraudProof", DomainSeparator(d), id, guilty>>

(* assertCanonicalSigners: no zero address, strictly ascending.            *)
CanonicalOrder(signers) ==
  \A i \in DOMAIN signers :
     signers[i] # ZeroAddress /\ (i > 1 => signers[i - 1] < signers[i])

(* attestDomainAgainstAggregator: the domain of the node's configuration   *)
(* is the one the deployed aggregator computes.                            *)
AttestDomain(d, onchain) ==
  /\ d.registry # ZeroAddress
  /\ onchain.registry # ZeroAddress
  /\ onchain.registry = d.registry
  /\ DomainSeparator(d) = DomainSeparator(onchain)

(* checkAggregatorChainPolicy                                              *)
ChainPolicy(expected, provider, sepolia, fromEnv, required) ==
  /\ provider = expected
  /\ required => expected = sepolia \/ fromEnv

-----------------------------------------------------------------------------
(* guardian-fraud-proof.ts                                                 *)

(* The ascending sequence of a finite set of addresses.                    *)
Ascending(S) ==
  CHOOSE f \in [1 .. Cardinality(S) -> S] :
     \A i, j \in DOMAIN f : i < j => f[i] < f[j]

(* orderSignersFromSlotMap: the signers of a mask, where "slotAt" is       *)
(* validatorAtSlot read at one block.  A bit above the last slot, an empty *)
(* slot and an address in two slots throw.                                 *)
OrderSigners(mask, slotAt) ==
  IF /\ mask \subseteq 1 .. MaxSlots
     /\ \A s \in mask : slotAt[s] # ZeroAddress
     /\ \A s, t \in mask : s # t => slotAt[s] # slotAt[t]
  THEN [ok |-> TRUE, signers |-> Ascending({slotAt[s] : s \in mask})]
  ELSE Thrown

FraudProofId(proposal) == <<"GUARDIAN_FRAUD_V1", proposal>>

OverIssueEvidence(token, operator, epoch) ==
  <<"DVT_OVERISSUE_EVIDENCE_V1", token, operator, epoch>>

(* decodeVerifyAndExecuteCalldata: only an outer verifyAndExecute call     *)
(* decodes.                                                                *)
DecodeCalldata(tx) == IF tx.direct THEN [ok |-> TRUE, args |-> tx.args] ELSE Thrown

-----------------------------------------------------------------------------
(* guardian-slash-watcher.core.ts                                          *)

(* buildGuardianSignerRecord for the log of "proposal": tx is the          *)
(* transaction the RPC returned, slotAt the slot table and anchor the      *)
(* proposal's commitment, both read at the block of execution.             *)
BuildRecord(d, proposal, tx, slotAt, anchor) ==
  LET decoded == DecodeCalldata(tx)
      a       == decoded.args
      set     == OrderSigners(a.mask, slotAt)
      message == IF a.repUsers = <<>>
                 THEN ExecuteSlashHash(d, a.proposal, a.operator, a.level, a.epoch, a.evidence)
                 ELSE ReputationHash(d, a.proposal, a.repUsers, a.newScores, a.epoch)
  IN IF ~tx.found \/ ~decoded.ok THEN Thrown
     ELSE IF a.proposal # proposal \/ ~set.ok THEN Thrown
     ELSE [ok |-> TRUE, proposal |-> a.proposal, operator |-> a.operator,
           level |-> a.level, epoch |-> a.epoch, evidence |-> a.evidence,
           mask |-> a.mask, signers |-> set.signers,
           verified |-> /\ anchor # <<>>
                        /\ anchor = SignersCommitment(d, a.proposal, message, a.mask, set.signers)]

-----------------------------------------------------------------------------
(* guardian-fraud-proof-assembler.ts                                       *)

(* assembleOverIssueFraudProof: a proof from a self-verified record whose  *)
(* evidence names the disputed token; the accused are its whole signer set.*)
Assemble(record, token) ==
  IF /\ record.verified
     /\ OverIssueEvidence(token, record.operator, record.epoch) = record.evidence
     /\ Len(record.signers) \in 1 .. MaxSlots
     /\ CanonicalOrder(record.signers)
  THEN [ok |-> TRUE, id |-> FraudProofId(record.proposal), guilty |-> record.signers,
        proposal |-> record.proposal, operator |-> record.operator, level |-> record.level,
        epoch |-> record.epoch, token |-> token, mask |-> record.mask,
        signers |-> record.signers]
  ELSE Thrown

-----------------------------------------------------------------------------
(* OverIssueFraudProofVerifier.verify, called with the aggregator's digest *)
(* of (id, guilty); d is the verifier's own domain and anchor the          *)
(* aggregator's current commitment for the proposal.                       *)
Verify(d, digest, id, guilty, proof, anchor, overIssued) ==
  /\ digest = FraudProofDigest(d, id, guilty)
  /\ id = FraudProofId(proof.proposal)
  /\ Len(proof.signers) \in 1 .. MaxSlots
  /\ CanonicalOrder(proof.signers)
  /\ anchor # <<>>
  /\ anchor = SignersCommitment(d, proof.proposal,
                ExecuteSlashHash(d, proof.proposal, proof.operator, proof.level, proof.epoch,
                                 OverIssueEvidence(proof.token, proof.operator, proof.epoch)),
                proof.mask, proof.signers)
  /\ guilty = proof.signers
  /\ ~overIssued
=============================================================================
