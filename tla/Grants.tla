------------------------------- MODULE Grants -------------------------------
(***************************************************************************)
(* Consumer grants (access/grant): the tokens section of the vault, and    *)
(* every operation that writes it.  A grant is the hash of its bearer, its *)
(* capabilities, the workload key an acquire capability is bound to, and   *)
(* its end.  Each operation opens the vault, changes the section and saves *)
(* it, again from the start when another writer was faster, so it is one   *)
(* step here (module VaultStore has the steps of a save).                  *)
(*                                                                         *)
(* A capability is an action on a coordinate: an item or role, and the     *)
(* exact field.  Which coordinates exist is the vault's; here any may be   *)
(* named.                                                                  *)
(***************************************************************************)
EXTENDS Naturals

CONSTANTS
  Consumers,     \* consumers a grant can be issued to
  Coordinates,   \* item#field coordinates
  Bearers,       \* bearers (a hash stands for the bearer it was taken of)
  WorkloadKeys,  \* Ed25519 public keys of workloads
  None,          \* no grant, no bearer, no key
  GrantOps,      \* bound: the operations a run explores
  MaxClock       \* bound on the seconds a run spans

\* u64::MAX, an end no clock reaches.
UntilRevoked == MaxClock + 1

Ends == 1..UntilRevoked

\* The actions the rules on sharing a grant tell apart.
Actions == {"read", "lifecycle", "acquire"}

Capabilities == [action : Actions, on : Coordinates]

ASSUME GrantsAssumption ==
  /\ MaxClock \in Nat \ {0}
  /\ None \notin Bearers \cup WorkloadKeys

VARIABLES
  tokens,  \* tokens[c]: c's grant, or None
  clock    \* the second

GrantRecords == [hash : Bearers \cup {None}, caps : SUBSET Capabilities,
                 key : WorkloadKeys \cup {None}, end : Ends]

GrantTypeOK ==
  /\ tokens \in [Consumers -> GrantRecords \cup {None}]
  /\ clock \in 0..MaxClock

GrantInit ==
  /\ tokens = [c \in Consumers |-> None]
  /\ clock = 0

-----------------------------------------------------------------------------
Granted(c) == tokens[c] # None

\* active: a grant authorizes while its end lies ahead.
Active(c) == Granted(c) /\ clock < tokens[c].end

Having(caps, action) == {cap \in caps : cap.action = action}

\* acquisition_grant: the workload key and the end an acquisition borrows.
Lends(c, on) ==
  /\ Active(c)
  /\ [action |-> "acquire", on |-> on] \in tokens[c].caps
  /\ tokens[c].key # None

Put(c, grant) ==
  /\ tokens' = [tokens EXCEPT ![c] = grant]
  /\ UNCHANGED clock

\* Mutant: acquire and direct capabilities may share a grant.
SeparatedLifecycle(caps) ==
  ~(Having(caps, "lifecycle") # {} /\ Having(caps, "read") # {})

\* What grant issue refuses to put into one grant.
Separated(caps) ==
  /\ Having(caps, "acquire") \in {{}, caps}
  /\ ~(Having(caps, "lifecycle") # {} /\ Having(caps, "read") # {})

\* grant issue.  Capabilities of a held grant change only with
\* --replace-capabilities; a bearer is minted or comes with --token-file; an
\* acquire grant has a workload key and no bearer.  Its end comes from
\* --ttl-seconds, since --until-revoked is refused, and a sum may be any second
\* after now, the last one included.
Issue(c, caps, bearer, key, end, replace) ==
  /\ "issue" \in GrantOps
  /\ caps # {} /\ Separated(caps)
  /\ Granted(c) => caps = tokens[c].caps \/ replace
  /\ clock < end
  /\ IF Having(caps, "acquire") # {}
       THEN key # None /\ bearer = None
       ELSE key = None /\ bearer # None
  /\ Put(c, [hash |-> bearer, caps |-> caps, key |-> key, end |-> end])

\* An acquisition catalog has rows, and names each consumer once.
Catalogs == UNION {[cs -> Coordinates] : cs \in SUBSET Consumers \ {{}}}

\* grant register: one acquire grant for each row of a catalog.
Register(rows, key, end, replace) ==
  /\ "register" \in GrantOps
  /\ clock < end
  /\ LET caps(c) == {[action |-> "acquire", on |-> rows[c]]}
     IN /\ \A c \in DOMAIN rows :
             Granted(c) => replace \/ (tokens[c].caps = caps(c) /\ tokens[c].key = key)
        /\ tokens' = [c \in Consumers |->
             IF c \in DOMAIN rows
               THEN [hash |-> None, caps |-> caps(c), key |-> key, end |-> end]
               ELSE tokens[c]]
  /\ UNCHANGED clock

\* grant ensure adds one read to an active grant whose bearer is presented.
Ensure(c, on, bearer) ==
  /\ "ensure" \in GrantOps
  /\ Active(c)
  /\ tokens[c].hash = bearer
  /\ Put(c, [tokens[c] EXCEPT !.caps = @ \cup {[action |-> "read", on |-> on]}])

\* grant narrow takes one read out again.
Narrow(c, on) ==
  /\ "narrow" \in GrantOps
  /\ Granted(c)
  /\ Put(c, [tokens[c] EXCEPT !.caps = @ \ {[action |-> "read", on |-> on]}])

\* grant keep, lapsed grants included.
Keep(c) ==
  /\ "keep" \in GrantOps
  /\ Granted(c)
  /\ Having(tokens[c].caps, "acquire") = {}
  /\ tokens[c].hash # None
  /\ Put(c, [tokens[c] EXCEPT !.end = UntilRevoked])

\* grant retarget moves what names one item onto another.
Retarget(c, from, to) ==
  /\ "retarget" \in GrantOps
  /\ from # to
  /\ Granted(c)
  /\ \E cap \in tokens[c].caps : cap.on = from
  /\ Put(c, [tokens[c] EXCEPT !.caps =
       {IF cap.on = from THEN [cap EXCEPT !.on = to] ELSE cap : cap \in @}])

\* grant revoke: one consumer, every expired grant, or every idle one (who used
\* a grant since a moment is read from the journal: any set of consumers).
Revoke(cs) ==
  /\ "revoke" \in GrantOps
  /\ \E c \in cs : Granted(c)
  /\ tokens' = [c \in Consumers |-> IF c \in cs THEN None ELSE tokens[c]]
  /\ UNCHANGED clock

Expired == {c \in Consumers : Granted(c) /\ tokens[c].end # UntilRevoked /\ tokens[c].end <= clock}

Tick ==
  /\ clock < MaxClock
  /\ clock' = clock + 1
  /\ UNCHANGED tokens

GrantNext ==
  \/ \E c \in Consumers, caps \in SUBSET Capabilities, bearer \in Bearers \cup {None},
        key \in WorkloadKeys \cup {None}, end \in Ends, replace \in BOOLEAN :
       Issue(c, caps, bearer, key, end, replace)
  \/ \E rows \in Catalogs, key \in WorkloadKeys, end \in Ends, replace \in BOOLEAN :
       Register(rows, key, end, replace)
  \/ \E c \in Consumers, on \in Coordinates :
       \/ Narrow(c, on)
       \/ \E bearer \in Bearers : Ensure(c, on, bearer)
       \/ \E to \in Coordinates : Retarget(c, on, to)
  \/ \E c \in Consumers : Keep(c)
  \/ \E cs \in SUBSET Consumers : Revoke(cs)
  \/ Revoke(Expired)
  \/ Tick

GrantSpec == GrantInit /\ [][GrantNext]_<<tokens, clock>>

-----------------------------------------------------------------------------
(* Properties.                                                             *)

\* However a grant was widened, narrowed, kept, retargeted or replaced, one with
\* an acquire capability has only such, is bound to a workload key, and has no
\* bearer anybody could read with: acquisition relies on all three.
AcquireApart ==
  \A c \in Consumers : Granted(c) /\ Having(tokens[c].caps, "acquire") # {} =>
    /\ Having(tokens[c].caps, "acquire") = tokens[c].caps
    /\ tokens[c].key # None
    /\ tokens[c].hash = None
=============================================================================
