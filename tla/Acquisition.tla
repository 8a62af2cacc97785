---------------------------- MODULE Acquisition ----------------------------
(***************************************************************************)
(* Field-bound, single-use acquisition bearers (access/acquisition): a     *)
(* workload signs a proof, a request turns the proof into a bearer, and a  *)
(* read spends the bearer on one field.  A request reads the consumer's    *)
(* grant and the clock before it takes the lock of the acquisition state   *)
(* file, so the grants, the clock and the file may have moved when it      *)
(* writes; what happens under the lock is one step.                        *)
(*                                                                         *)
(* A proof that was signed can be presented any number of times, by        *)
(* anybody who saw it.  A signature is the key that made it.               *)
(***************************************************************************)
EXTENDS Grants, Sequences

CONSTANTS
  Requests,   \* request processes
  Workloads,  \* workload ids
  Nonces,
  Signed,     \* the proofs workloads signed
  MaxTokens   \* bound on the acquisition tokens minted

Proofs == [consumer : Consumers, on : Coordinates, workload : Workloads,
           timestamp : 0..MaxClock, nonce : Nonces, key : WorkloadKeys]

ASSUME AcquisitionAssumption ==
  /\ MaxTokens \in Nat
  /\ Signed \subseteq Proofs

VARIABLES
  issued,    \* the file's tokens: bearer -> record
  proofs,    \* the file's proofs: <<workload, nonce>> -> the end it is kept until
  newest,    \* the file's workloads: workload -> [timestamp, end]
  request,   \* where each request is, and what it read
  minted,    \* bearers minted so far
  accepted,  \* history: the proofs accepted, with the end that was lent
  handed     \* history: the values handed over, in order

file == <<issued, proofs, newest>>
acquisitionVars == <<issued, proofs, newest, request, minted, accepted, handed>>
vars == <<tokens, clock, acquisitionVars>>

Idle == [at |-> "idle", proof |-> None, lent |-> None, now |-> 0]

\* sha256 of the workload id and the nonce.
NonceOf(proof) == <<proof.workload, proof.nonce>>

\* The state file does not exist yet.
Init ==
  /\ GrantInit
  /\ issued = [b \in {} |-> None]
  /\ proofs = [n \in {} |-> 0]
  /\ newest = [w \in {} |-> None]
  /\ request = [r \in Requests |-> Idle]
  /\ minted = 0
  /\ accepted = {}
  /\ handed = <<>>

-----------------------------------------------------------------------------
Only(f, S) == [x \in DOMAIN f \cap S |-> f[x]]

With(f, x, y) == [z \in DOMAIN f \cup {x} |-> IF z = x THEN y ELSE f[z]]

\* issue: the vault is opened and the acquire grant behind the coordinate read.
LookUp(r, proof) ==
  /\ request[r].at = "idle"
  /\ Lends(proof.consumer, proof.on)
  /\ request' = [request EXCEPT ![r] = [at |-> "lent", proof |-> proof, now |-> 0,
                    lent |-> [key |-> tokens[proof.consumer].key,
                              end |-> tokens[proof.consumer].end]]]
  /\ UNCHANGED <<tokens, clock, file, minted, accepted, handed>>

\* issue: the second is read, and the proof checked against the key read.
CheckProof(r) ==
  /\ request[r].at = "lent"
  /\ request[r].proof.timestamp <= clock
  /\ request[r].proof.key = request[r].lent.key
  /\ request' = [request EXCEPT ![r].at = "proved", ![r].now = clock]
  /\ UNCHANGED <<tokens, clock, file, minted, accepted, handed>>

\* purge_expired, with the second the request read before it waited for the lock.
PurgedProofs(now) == Only(proofs, {n \in DOMAIN proofs : proofs[n] > now})

PurgedTokens(now) == Only(issued, {b \in DOMAIN issued : issued[b].end > now})

PurgedWorkloads(now) == Only(newest, {w \in DOMAIN newest : newest[w].end > now})

\* issue, under the lock: neither older than the newest proof remembered of this
\* workload, nor a nonce remembered of it.
Unspent(proof, now) ==
  /\ \A w \in DOMAIN PurgedWorkloads(now) :
       w = proof.workload => newest[w].timestamp <= proof.timestamp
  /\ NonceOf(proof) \notin DOMAIN PurgedProofs(now)

\* issue, under the lock: remember the proof, mint a bearer, save the file.
Record(r) ==
  LET proof == request[r].proof
      end == request[r].lent.end
      now == request[r].now
  IN /\ request[r].at = "proved"
     /\ Unspent(proof, now)
     /\ minted < MaxTokens
     /\ proofs' = With(PurgedProofs(now), NonceOf(proof), end)
     /\ newest' = With(PurgedWorkloads(now), proof.workload,
                       [timestamp |-> proof.timestamp, end |-> end])
     /\ minted' = minted + 1
     /\ issued' = With(PurgedTokens(now), minted + 1,
                       [consumer |-> proof.consumer, on |-> proof.on, end |-> end,
                        nonce |-> NonceOf(proof)])
     /\ accepted' = accepted \cup {[proof |-> proof, end |-> end, as |-> minted + 1]}
     /\ request' = [request EXCEPT ![r] = Idle]
     /\ UNCHANGED <<tokens, clock, handed>>

\* A request is refused, fails, or its process dies, before the file is replaced.
Abandon(r) ==
  /\ request[r].at # "idle"
  /\ request' = [request EXCEPT ![r] = Idle]
  /\ UNCHANGED <<tokens, clock, file, minted, accepted, handed>>

\* consume, under the lock: an expired bearer is removed and nothing handed over.
ConsumeExpired(b) ==
  /\ b \in DOMAIN issued
  /\ issued[b].end <= clock
  /\ issued' = Only(issued, DOMAIN issued \ {b})
  /\ UNCHANGED <<tokens, clock, proofs, newest, request, minted, accepted, handed>>

\* Mutant: the value is handed over and the file not saved.
ConsumeUnsaved(b) ==
  /\ b \in DOMAIN issued
  /\ clock < issued[b].end
  /\ Len(handed) < MaxTokens
  /\ handed' = Append(handed, [token |-> issued[b], as |-> b, at |-> clock])
  /\ UNCHANGED <<tokens, clock, file, request, minted, accepted>>

\* consume, under the lock: the bearer is removed, then the field handed over.
\* (A candidate in flight or an item that cannot be opened leaves it unspent.)
Consume(b) ==
  /\ b \in DOMAIN issued
  /\ clock < issued[b].end
  /\ issued' = Only(issued, DOMAIN issued \ {b})
  /\ handed' = Append(handed, [token |-> issued[b], as |-> b, at |-> clock])
  /\ UNCHANGED <<tokens, clock, proofs, newest, request, minted, accepted>>

Acquire ==
  \/ \E r \in Requests :
       \/ \E proof \in Signed : LookUp(r, proof)
       \/ CheckProof(r)
       \/ Record(r)
       \/ Abandon(r)
  \/ \E b \in 1..MaxTokens : ConsumeExpired(b) \/ Consume(b)

Next ==
  \/ Acquire
  \/ GrantNext /\ UNCHANGED acquisitionVars

Spec == Init /\ [][Next]_vars

-----------------------------------------------------------------------------
(* Properties.                                                             *)

Loans == [key : WorkloadKeys \cup {None}, end : Ends]

IssuedTokens == [consumer : Consumers, on : Coordinates, end : Ends, nonce : Workloads \X Nonces]

RequestStates ==
  {Idle} \cup [at : {"lent", "proved"}, proof : Signed, lent : Loans, now : 0..MaxClock]

AcquisitionTypeOK ==
  /\ GrantTypeOK
  /\ DOMAIN issued \subseteq 1..minted
  /\ \A b \in DOMAIN issued : issued[b] \in IssuedTokens
  /\ DOMAIN proofs \subseteq Workloads \X Nonces
  /\ \A n \in DOMAIN proofs : proofs[n] \in Ends
  /\ DOMAIN newest \subseteq Workloads
  /\ \A w \in DOMAIN newest : newest[w] \in [timestamp : 0..MaxClock, end : Ends]
  /\ request \in [Requests -> RequestStates]
  /\ minted \in 0..MaxTokens
  /\ accepted \subseteq [proof : Signed, end : Ends, as : 1..MaxTokens]
  /\ handed \in Seq([token : IssuedTokens, as : 1..MaxTokens, at : 0..MaxClock])

\* However often a signed proof is presented, whatever requests wait for the
\* lock meanwhile, and whether the grant behind it is revoked and registered
\* again, it hands over at most one value for one lent end, and none at or
\* after that end.
OneValuePerLoan ==
  \A m, n \in DOMAIN handed :
    /\ handed[m].at < handed[m].token.end
    /\ handed[m].token.nonce = handed[n].token.nonce /\ handed[m].token.end = handed[n].token.end
         => m = n

\* What OneValuePerLoan rests on: while a lent end lies ahead, the nonce it was
\* lent for is in the file with exactly that end, so no second bearer of the
\* nonce can be valid; and every bearer in the file is of an accepted proof.
NonceKept ==
  /\ \A a \in accepted :
       clock < a.end => NonceOf(a.proof) \in DOMAIN proofs /\ proofs[NonceOf(a.proof)] = a.end
  /\ \A b \in DOMAIN issued :
       \E a \in accepted : a.as = b /\ a.end = issued[b].end /\ NonceOf(a.proof) = issued[b].nonce
=============================================================================
