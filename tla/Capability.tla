----------------------------- MODULE Capability -----------------------------
(***************************************************************************)
(* The capability broker (access/capability): an operator issues so many   *)
(* redemptions of one resource until an end, and a workload that proves it *)
(* is the agent redeems them over a socket.  Records and seen nonces are a *)
(* journal of values that is replayed on every load, repaired when its     *)
(* last value is cut, and replaced by a snapshot when dead entries         *)
(* outweigh the live ones.  What is kept of the journal here is what its   *)
(* whole values replay to and how many entries they are: a value appended  *)
(* is one more applied.  The broker and `grant capability` write it under  *)
(* a kernel lock; `capability challenge` loads it, and repairs it, without.*)
(*                                                                         *)
(* A proof is good or it is not: it covers the id, the nonce, the          *)
(* workload, the operation and the authorization.  An agent's live grant   *)
(* is the set `registered`; where values lie is the set `filled`.          *)
(***************************************************************************)
EXTENDS Integers, FiniteSets

CONSTANTS
  Caps,        \* capability ids, each minted once
  Nonces,      \* nonces a workload puts into a request
  MaxUses,     \* --max-uses of an issue
  CapSecs,     \* bound on the seconds a run spans
  NoCap        \* no record

ASSUME CapabilityAssumption ==
  /\ MaxUses \in Nat \ {0} /\ CapSecs \in Nat
  /\ NoCap \notin {"broker", "issuer"} \cup Nonces /\ "again" \notin Nonces
  /\ NoCap \notin [state : {"issued", "spent", "cancelled"}, left : Nat, ends : Nat]

VARIABLES
  book,        \* the journal: the state it replays to, the entries it holds, and
               \* whether bytes of a cut one follow
  capLock,     \* who the kernel gave the state lock to
  hand,        \* the two locking processes: where they are and what they hold
  relay,       \* the `capability challenge` command
  capClock,    \* the second
  registered,  \* whether a live grant registers the agent's workload key
  challenges,  \* the ids whose resource is a challenge: its value comes later
  filled,      \* the ids whose resource has a value
  minted,      \* ids issued so far
  handed,      \* history: secrets that reached a workload, by id
  audited,     \* history: redemptions journalled, by id
  honoured,    \* history: the nonces acted on, by id; "again" when one was twice
  cancelled,   \* history: ids whose cancellation was answered
  overwrote    \* history: the relay replaced a journal it had not read whole

capVars == <<book, capLock, hand, relay, capClock, registered, challenges, filled,
             minted, handed, audited, honoured, cancelled, overwrote>>
history == <<handed, audited, honoured, cancelled>>

Records == [state : {"issued", "spent", "cancelled"}, left : 0..MaxUses, ends : 1..2 * CapSecs]
Requests == [op : {"redeem", "cancel"}, cap : Caps, nonce : Nonces, fault : {"none", "authorization", "proof"}]
Issue(c) == [op |-> "issue", cap |-> c, nonce |-> NoCap, fault |-> "none"]

Empty == [caps |-> [c \in Caps |-> NoCap], nonces |-> {}]
Rest == [at |-> "idle", req |-> NoCap, now |-> 0, out |-> NoCap, mem |-> Empty, lines |-> {}]

CapInit ==
  /\ book = [state |-> Empty, held |-> 0, torn |-> FALSE]
  /\ capLock = NoCap
  /\ hand = [p \in {"broker", "issuer"} |-> Rest]
  /\ relay = [at |-> "idle", cap |-> NoCap, saw |-> Empty]
  /\ capClock = 0
  /\ registered = TRUE
  /\ challenges \in SUBSET Caps
  /\ filled = Caps \ challenges
  /\ minted = {}
  /\ handed = [c \in Caps |-> 0] /\ audited = [c \in Caps |-> 0]
  /\ honoured = [c \in Caps |-> {}] /\ cancelled = {}
  /\ overwrote = FALSE

-----------------------------------------------------------------------------
(* The journal of values.                                                  *)

Weight(state) == 1 + Cardinality({c \in Caps : state.caps[c] # NoCap}) + Cardinality(state.nonces)

\* The lines that record one capability and, before it, the nonce it was used with.
Entries(nonce) == (IF nonce = NoCap THEN {} ELSE {"nonce"}) \cup {"record"}

\* The journal with some lines of a process's entry replayed.
Replayed(b, h, lines, torn) ==
  [state |-> [caps |-> IF "record" \in lines THEN [b.state.caps EXCEPT ![h.req.cap] = h.mem.caps[h.req.cap]]
                       ELSE b.state.caps,
              nonces |-> b.state.nonces \cup IF "nonce" \in lines THEN {<<h.req.cap, h.req.nonce>>} ELSE {}],
   held |-> b.held + Cardinality(lines), torn |-> torn]

\* A file with no complete value but bytes of one is refused.
Loadable == book.torn => book.held # 0

\* One snapshot.
Mended(state) == [state |-> state, held |-> Weight(state), torn |-> FALSE]

Redeemable(record, now) == record # NoCap /\ record.state = "issued" /\ record.ends > now

\* Mutant: what ended is forgotten by the second read before the lock.
ForgetIssued(state, now) ==
  LET live == {c \in Caps : state.caps[c] # NoCap /\ state.caps[c].state = "issued"}
  IN [caps |-> [c \in Caps |-> IF c \in live THEN state.caps[c] ELSE NoCap],
      nonces |-> {k \in state.nonces : k[1] \in live}]

\* Only what can still be redeemed, and its nonces, is kept.
ForgetStale(state, now) ==
  LET live == {c \in Caps : Redeemable(state.caps[c], now)}
  IN [caps |-> [c \in Caps |-> IF c \in live THEN state.caps[c] ELSE NoCap],
      nonces |-> {k \in state.nonces : k[1] \in live}]

\* load_state: the replayed values, mended in the file, without the stale ones.
Load ==
  /\ Loadable
  /\ book' = IF book.torn THEN Mended(book.state) ELSE book
Loaded == ForgetStale(book.state, capClock)

Outweighed(state) == book.held - Weight(state) > Weight(state)

-----------------------------------------------------------------------------
(* grant capability.                                                       *)

\* A resource that resolves to nothing is refused now; a challenge may wait.
\* The end is counted from before the lock is waited for.
IssueAsked(c, ttl) ==
  /\ hand["issuer"].at = "idle" /\ c \notin minted
  /\ c \in challenges \/ c \in filled
  /\ minted' = minted \cup {c}
  /\ hand' = [hand EXCEPT !["issuer"] = [Rest EXCEPT !.at = "waits", !.req = Issue(c), !.now = capClock + ttl]]
  /\ UNCHANGED <<challenges, book, capLock, relay, capClock, registered, filled, history, overwrote>>

Issues ==
  /\ hand["issuer"].at = "waits" /\ capLock = NoCap /\ Load
  /\ capLock' = "issuer"
  /\ LET c == hand["issuer"].req.cap
         mem == [Loaded EXCEPT !.caps[c] = [state |-> "issued", left |-> MaxUses, ends |-> hand["issuer"].now]]
     IN hand' = [hand EXCEPT !["issuer"].at = "append", !["issuer"].mem = mem,
                             !["issuer"].lines = Entries(NoCap)]
  /\ UNCHANGED <<challenges, relay, capClock, registered, filled, minted, history, overwrote>>

-----------------------------------------------------------------------------
(* One redemption.  The broker serves one connection at a time.            *)

\* The request is read and is the wire's shape; the second is read; then the
\* lock is waited for.  (A status request and a malformed one change nothing; a
\* run ends with one redemption too many.)
Asked(req) ==
  /\ hand["broker"].at = "idle" /\ audited[req.cap] <= MaxUses
  /\ hand' = [hand EXCEPT !["broker"] = [Rest EXCEPT !.at = "waits", !.req = req, !.now = capClock]]
  /\ UNCHANGED <<challenges, book, capLock, relay, capClock, registered, filled, minted, history, overwrote>>

\* What a request must pass before anything is recorded.
Admitted(req, now) ==
  LET record == Loaded.caps[req.cap]
  IN /\ Redeemable(record, now) /\ record.left >= 1 /\ req.fault # "authorization"
     /\ <<req.cap, req.nonce>> \notin Loaded.nonces
     /\ registered /\ req.fault # "proof"

\* What it leads to: a cancellation, a secret, a challenge's "not yet", or the
\* refusal of a resource that has no value.
Outcome(req) ==
  IF req.op = "cancel" THEN "cancel"
  ELSE IF req.cap \in filled THEN "redeem"
  ELSE IF req.cap \in challenges THEN "pending" ELSE "denied"

Refuses ==
  /\ hand["broker"].at = "waits" /\ capLock = NoCap /\ Load
  /\ LET req == hand["broker"].req
     IN ~Admitted(req, hand["broker"].now) \/ Outcome(req) = "denied"
  /\ hand' = [hand EXCEPT !["broker"] = Rest]
  /\ UNCHANGED <<challenges, capLock, relay, capClock, registered, filled, minted, history, overwrote>>

\* Mutant: the last use is not taken off.
SpendKept(record) == IF record.left = 1 THEN record ELSE [record EXCEPT !.left = @ - 1]

\* One use less; the last one spends it.
Spend(record) ==
  [record EXCEPT !.left = @ - 1, !.state = IF record.left = 1 THEN "spent" ELSE @]

OutcomeRecord(outcome, record) ==
  CASE outcome = "cancel" -> [record EXCEPT !.state = "cancelled"]
    [] outcome = "redeem" -> Spend(record)
    [] outcome = "pending" -> record

Admits ==
  /\ hand["broker"].at = "waits" /\ capLock = NoCap /\ Load
  /\ LET req == hand["broker"].req
         outcome == Outcome(req)
         mem == [Loaded EXCEPT !.nonces = @ \cup {<<req.cap, req.nonce>>},
                               !.caps[req.cap] = OutcomeRecord(outcome, @)]
     IN /\ Admitted(req, hand["broker"].now) /\ outcome # "denied"
        /\ capLock' = "broker"
        /\ hand' = [hand EXCEPT !["broker"].at = "append", !["broker"].out = outcome, !["broker"].mem = mem,
                                !["broker"].lines = Entries(req.nonce)]
  /\ UNCHANGED <<challenges, relay, capClock, registered, filled, minted, history, overwrote>>

-----------------------------------------------------------------------------
(* save_entry, by whichever process holds the lock.                        *)

\* Part of the entry is in the file, cut anywhere inside one of its lines.
Appends(p) ==
  /\ hand[p].at = "append"
  /\ \E whole \in {{}, hand[p].lines \ {"record"}} :
       /\ book' = Replayed(book, hand[p], whole, TRUE)
       /\ hand' = [hand EXCEPT ![p].at = "writing", ![p].lines = @ \ whole]
  /\ UNCHANGED <<challenges, capLock, relay, capClock, registered, filled, minted, history, overwrote>>

\* The rest of it; a file the relay replaced meanwhile does not get it.
Appended(p) ==
  /\ hand[p].at \in {"writing", "elsewhere"}
  /\ book' = IF hand[p].at = "writing" THEN Replayed(book, hand[p], hand[p].lines, FALSE) ELSE book
  /\ hand' = [hand EXCEPT ![p].at = "settle"]
  /\ UNCHANGED <<challenges, capLock, relay, capClock, registered, filled, minted, history, overwrote>>

Leaves(p) == capLock' = NoCap /\ hand' = [hand EXCEPT ![p] = Rest]

\* What the journal is after an entry.
Settled(p) == IF Outweighed(hand[p].mem) THEN Mended(hand[p].mem) ELSE book

\* Outweighed by dead entries, the journal becomes one snapshot.  An issue is
\* done with that, and so is a challenge that waits for its value.
Settles(p) ==
  /\ hand[p].at = "settle"
  /\ book' = Settled(p)
  /\ IF p = "issuer" \/ hand[p].out = "pending"
     THEN Leaves(p)
     ELSE hand' = [hand EXCEPT ![p].at = "audit"] /\ UNCHANGED capLock
  /\ LET req == hand[p].req
     IN honoured' = IF p = "issuer" THEN honoured
                    ELSE [honoured EXCEPT ![req.cap] = @ \cup {IF req.nonce \in @ THEN "again" ELSE req.nonce}]
  /\ UNCHANGED <<challenges, relay, capClock, registered, filled, minted, handed, audited, cancelled, overwrote>>

\* The audit line comes before the answer; without it the answer is a refusal.
Audits ==
  /\ hand["broker"].at = "audit"
  /\ \/ /\ hand' = [hand EXCEPT !["broker"].at = "reply"]
        /\ LET req == hand["broker"].req
           IN audited' = [audited EXCEPT ![req.cap] = IF req.op = "redeem" THEN @ + 1 ELSE @]
        /\ UNCHANGED capLock
     \/ Leaves("broker") /\ UNCHANGED audited
  /\ UNCHANGED <<challenges, book, relay, capClock, registered, filled, minted, handed, honoured, cancelled, overwrote>>

\* The answer reaches the workload, or its end of the stream is gone.
Replies ==
  /\ hand["broker"].at = "reply"
  /\ LET req == hand["broker"].req
     IN \/ /\ handed' = [handed EXCEPT ![req.cap] = IF req.op = "redeem" THEN @ + 1 ELSE @]
           /\ cancelled' = IF req.op = "cancel" THEN cancelled \cup {req.cap} ELSE cancelled
        \/ UNCHANGED <<handed, cancelled>>
  /\ Leaves("broker")
  /\ UNCHANGED <<challenges, book, relay, capClock, registered, filled, minted, audited, honoured, overwrote>>

\* A process dies: the kernel releases its lock, and a cut entry stays cut.
Dies(p) ==
  /\ hand[p].at # "idle"
  /\ hand' = [hand EXCEPT ![p] = Rest]
  /\ capLock' = IF capLock = p THEN NoCap ELSE capLock
  /\ UNCHANGED <<challenges, book, relay, capClock, registered, filled, minted, history, overwrote>>

\* Counting the live capabilities locks and loads, and so may mend.
Counts ==
  /\ capLock = NoCap /\ book.torn /\ Load
  /\ UNCHANGED <<challenges, capLock, hand, relay, capClock, registered, filled, minted, history, overwrote>>

-----------------------------------------------------------------------------
(* capability challenge: no lock is taken.                                 *)

Authorized(state, c) == ForgetStale(state, capClock).caps[c] # NoCap

RelayLoads(c) ==
  /\ relay.at = "idle" /\ c \in challenges /\ Loadable
  /\ relay' = IF book.torn THEN [at |-> "mend", cap |-> c, saw |-> book.state]
              ELSE IF Authorized(book.state, c) THEN [at |-> "store", cap |-> c, saw |-> Empty] ELSE relay
  /\ UNCHANGED <<challenges, book, capLock, hand, capClock, registered, filled, minted, history, overwrote>>

\* It puts the state it replayed in place of whatever the journal is by now.
RelayMends ==
  /\ relay.at = "mend"
  /\ overwrote' = (overwrote \/ book.state # relay.saw \/ capLock # NoCap)
  /\ book' = Mended(relay.saw)
  /\ hand' = [p \in DOMAIN hand |-> IF hand[p].at = "writing" THEN [hand[p] EXCEPT !.at = "elsewhere"] ELSE hand[p]]
  /\ relay' = IF Authorized(relay.saw, relay.cap) THEN [relay EXCEPT !.at = "store", !.saw = Empty]
              ELSE [at |-> "idle", cap |-> NoCap, saw |-> Empty]
  /\ UNCHANGED <<challenges, capLock, capClock, registered, filled, minted, history>>

RelayStores ==
  /\ relay.at = "store"
  /\ filled' = filled \cup {relay.cap}
  /\ relay' = [at |-> "idle", cap |-> NoCap, saw |-> Empty]
  /\ UNCHANGED <<challenges, book, capLock, hand, capClock, registered, minted, history, overwrote>>

-----------------------------------------------------------------------------
(* The vault around it.                                                    *)

CapTick ==
  /\ capClock < CapSecs /\ capClock' = capClock + 1
  /\ UNCHANGED <<challenges, book, capLock, hand, relay, registered, filled, minted, history, overwrote>>

\* The agent's grant is revoked or lapses; the owner removes a routed value.
GrantEnds ==
  /\ registered /\ registered' = FALSE
  /\ UNCHANGED <<challenges, book, capLock, hand, relay, capClock, filled, minted, history, overwrote>>

ValueRemoved(c) ==
  /\ c \in filled \ challenges /\ filled' = filled \ {c}
  /\ UNCHANGED <<challenges, book, capLock, hand, relay, capClock, registered, minted, history, overwrote>>

CapStep ==
  \/ Issues \/ Refuses \/ Admits \/ Audits \/ Replies
  \/ \E p \in {"broker", "issuer"} : Appends(p) \/ Appended(p) \/ Settles(p)
  \/ RelayMends \/ RelayStores

CapNext ==
  \/ CapStep
  \/ \E c \in Caps, ttl \in 1..CapSecs : IssueAsked(c, ttl)
  \/ \E req \in Requests : Asked(req)
  \/ \E p \in {"broker", "issuer"} : Dies(p)
  \/ Counts
  \/ \E c \in Caps : RelayLoads(c)
  \/ CapTick \/ GrantEnds
  \/ \E c \in Caps : ValueRemoved(c)

CapSpec == CapInit /\ [][CapNext]_capVars

-----------------------------------------------------------------------------
(* Properties.                                                             *)

\* Types, and that a process past the lock is the one holding it.
CapTypeOK ==
  /\ book.torn \in BOOLEAN /\ capLock \in {"broker", "issuer", NoCap}
  /\ \A p \in DOMAIN hand : hand[p].at \in {"append", "writing", "elsewhere", "settle", "audit", "reply"} <=> capLock = p
  /\ \A c \in Caps : book.state.caps[c] \in Records \cup {NoCap}
  /\ filled \subseteq Caps /\ minted \subseteq Caps /\ capClock \in 0..CapSecs

\* Through crashes inside an entry, mended journals and snapshots, a capability
\* hands out its secret at most --max-uses times, never unjournalled, and no use
\* handed out comes back (redeem/request.rs, state.rs), unless the relay
\* replaced a journal it had not read whole.
UsesBounded ==
  ~overwrote => \A c \in Caps :
    /\ handed[c] <= audited[c] /\ audited[c] <= MaxUses
    /\ LET record == book.state.caps[c]
       IN record # NoCap /\ ~book.torn => record.left + handed[c] <= MaxUses

\* A nonce a capability was redeemed, cancelled or kept pending with is not
\* acted on again while the capability lives (redeem/request.rs).
NonceOnce == ~overwrote => \A c \in Caps : "again" \notin honoured[c]

\* No use, and no nonce, of a capability is spent twice (redeem/request.rs,
\* state.rs), whatever order broker, issuer and relay write the journal in.
CapSafe == CapTypeOK /\ UsesBounded /\ NonceOnce

\* A capability is admitted only before its end by the second at which the lock
\* was taken, though the request's own second was read before the wait; and a
\* cancelled one hands out nothing afterwards, whatever is compacted or mended
\* in between (redeem/request.rs, state.rs).
AdmittedByRight ==
  [][/\ Admits => book.state.caps[hand["broker"].req.cap].ends > capClock
     /\ \A c \in cancelled : ~overwrote => handed'[c] = handed[c]]_capVars

\* What state.rs says of its lock, that it "keeps two redemptions from spending
\* the same use": no capability hands out more than --max-uses secrets.
RedeemedAtMost == \A c \in Caps : handed[c] <= MaxUses
=============================================================================
