# A TLA+ verification of Skarbiec

Skarbiec is a local secrets broker: a vault file of per-recipient ciphertext, a
command line, a threaded loopback listener, and a credential lifecycle that lets
Weles, a separate browser agent, change passwords at providers. Nothing in it is
a database. Commands and listener threads share plain files beside the vault,
each with its own locking rule, and most guarantees depend on the order in which
a handler reads, checks, writes and answers. These modules model that order.

`PROJECT.json` lists the components, runs, mutants, hazards and theorems, and
maps every modelling definition to the source lines it stands for. Paths below
are relative to the repository root.

## 1. Inventory

### The parts and their state

| Part | State it keeps | Operations |
| --- | --- | --- |
| Vault document (`src/core/vault`) | the vault file with its generation, `.write.lock`, `.fence.json` | open, create, save against the generation read, replace the file, arm and lift a fence |
| Copies (`src/net/sync.rs`, `src/net/bond.rs`, `src/runtime/backup`) | Git mirror, backups, pre-pull and pre-restore copies | mirror push and pull, replica pull, backup, restore |
| Items (`src/core/vault/items`, `managed.rs`) | envelopes: identity, control, current and saved revisions, a pending one, a fingerprint | set, import, restore a version, trash, restore, purge, rename, forget versions, reclaim, stage, activate, discard |
| Readers (`src/core/vault/recipients.rs`, `removal.rs`, `src/access/recipients`) | registry of keys, owner, former owners, per-item readers | add, share, revoke, remove, rekey, rotate the owner |
| Grants (`src/access/grant`) | the `tokens` section | issue, register, ensure, narrow, keep, retarget, revoke |
| Acquisition (`src/access/acquisition`) | tokens, nonces and newest timestamps in a file with a kernel lock | lend a one-use bearer for a signed proof, consume it |
| Donation inbox (`src/core/inbox.rs`) | `<vault>.donations.json` | offer, donate, accept, reject |
| Credential lifecycle (`src/credential`) | the request record and the lifecycle block of an item, `.credential-operation.lock` | acquire, adopt, rotate, reset, verify, remove, reauth, status, resume, quarantine resolve |
| Schedule and rotators (`src/credential/schedule`, `src/runtime/*rotate`, `keygen`) | rotation policies in the vault; secrets at the provider, in the item and in files kept aside | set, remove, mark due, run; make, prove, store, end and undo a secret |
| Capabilities (`src/access/capability`) | a journal of records and nonces, kernel lock, a socket | issue, challenge, redeem, cancel |
| Access requests (`src/access/request`) | the request register, kernel lock, a wake FIFO | file, approve, deny, withdraw, watch |
| Audit journal (`src/runtime/audit`) | hash-chained segments, kernel lock | append, rotate, start an epoch, verify, tail |
| Recovery and timed shares (`src/access/recovery`, `src/access/recipients`) | recovery key, canary, emergency grants, the ends of shares | drill, grant, cancel, activate, revoke, share, expire |
| Key file (`src/core/crypto`) | public keys and sealed secret halves, a cache in every process, a lock file | load, add, import from GnuPG |
| Transport (`src/net/https.rs`, `deadline.rs`, `loopback.rs`, `crates/crypto`) | one connection | connect, handshake, verify the chain, send, receive |
| Routes (`src/access/route`) | the route table | declare, resolve |
| Listener and service (`src/net/http`, `src/net/api`, `src/net/operator`, `src/net/owner`) | a process-wide mutex for mutations, the running image, the ports record | one thread per connection; forward to the owner; take over an older release's units |
| Tool tokens (`src/runtime/*cred`, `tooltoken`, `helper`, `bindings`) | the tool's own files, bindings files, items | import, set up, unset, follow a rename |
| CI secrets (`src/runtime/cisecrets`) | the list of kept targets | set, keep, renew, forget |
| Doctor, CLI, onboarding, browser, MCP | none of their own, or presentation | |

### How they interact

Every part that changes the vault goes through `Vault::open` and `Vault::save`:
a save takes the write lock, reads the fence and compares generations.
Grants are a section of the vault; acquisition reads them *before* it takes the
lock of its own file. The lifecycle stages, activates and discards revisions of
items and records its requests in the same vault, while Weles writes items back
through the HTTP API. The listener serialises its mutations with a mutex that
commands in other processes do not share. Donations end in a write of an item.
The journal is appended after most writes, and its failure is a failure of the
operation. An approved request issues a grant or a capability. `maintain` runs
due rotations, ends shares and renews CI targets. Every exchange with a provider
or a peer goes through the TLS client, under the deadline of the run that made
it.

### What is hard here

* read, check and write are separate steps: generations, fences, grants, the
  inbox and request records are read at one moment and used at another;
* a handler saves several times, and may be cut off after any of the saves;
* whole-file replacements bring their own generation number;
* Weles's answer may be lost, late, garbled, or contradict what it did;
* a signed proof can be presented again, and clocks have whole seconds;
* envelopes are rebuilt on each write, so a field not carried forward is lost,
  and a staged revision is sealed to the readers of an earlier moment;
* a journal may end in half an entry, and some readers take no lock;
* a provider's call may take effect and lose its answer, and the undo then works
  on what is no longer there;
* the listener, its forwarding and its restart must each end without help;
* a cached key ring, a running image and a kept record are compared with files
  that change underneath.

What makes each part correct: a save loses no other save and a move excludes
writers (store); identities and revisions are permanent and every version is
sealed to exactly its readers (items); acquire grants stay apart and one proof
lends one value (grants, acquisition); an acknowledged donation waits and a
merge is admitted (inbox); only a completed operation's value becomes current
and a value the provider may hold is never thrown away (lifecycle); the journal
is one append-only log whose damage is found (audit); no use or nonce counts
twice (capabilities); every grant is the one people decided (requests); the owner
is never locked out and no secret is left unaccounted for (rotation); a reading
that ended is taken back (shares); a reply is whole, from the host asked and on
time (transport); every request ends and a new release serves (service); no
token or secret half is lost to a file's rewrite (tokens, key file).

## 2. Modules and code

| Module | Models | Extends |
| --- | --- | --- |
| `VaultStore` | the file, its lock, fence, copies and everyone who writes it | |
| `VaultItems` | items, revisions, readers, owner, staged revisions | |
| `Grants` | the tokens section | |
| `Acquisition` | acquisition, composed with every grant operation | `Grants` |
| `DonationInbox` | the inbox, the listener's mutex, commands, the admission rule | |
| `CredentialLifecycle` | one credential's lifecycle, several processes, Weles | |
| `AuditJournal` | segments, writers, readers, verify, damage; implements `AuditLog` | |
| `AuditLog` | the abstract specification: one append-only log | |
| `Capability` | issue, redeem, cancel, relay, and the journal they share | |
| `AccessRequest` | the register, two-person approval, the watcher | |
| `Rotation` | one item rotated by several commands through ten providers, and its policy | |
| `SharedAccess` | shares, their ends, emergency access, removal | |
| `ToolTokens` | imports, sign-ins, setup, unset and rename of ten tools | |
| `CiSecrets` | kept CI targets and their revisions | |
| `TlsExchange` | one exchange, its two ends, the stream between and the deadline | |
| `CertificateChain` | the walk of a chain to an anchor, and the calendar | |
| `Listener` | the process, its threads, write lock, forwarding, image check, restart | |
| `Predecessors` | taking over an older release's units, ports and bearer | |
| `Keyring` | the key file, its lock, cache, phrase, additions and imports | |
| `MC*` | the instances TLC checks; `MCAccess`, `MCJournals`, `MCPeers`, `MCService` and `MCFiles` put several components into one run | |
| `VaultItemsProofs` | theorems and their proofs | `VaultItems` |
| `AcquisitionProofs` | the same | `Grants`, `Acquisition`, `AccessRequest` |
| `LifecycleProofs` | | `CredentialLifecycle` |
| `RotationProofs` | | `Rotation` |
| `AuditJournalProofs` | | `AuditJournal`, `AuditLog` |
| `PeersProofs` | | `DonationInbox`, `SharedAccess`, `TlsExchange`, `CertificateChain` |
| `ServiceProofs` | | `VaultStore`, `Listener`, `Predecessors`, `Capability` |
| `FilesProofs` | | `CiSecrets`, `Keyring`, `ToolTokens` |

**VaultStore.** `pc[p]` names the point a process has reached between two steps
another process can see: lock, fence check, generation check, rename, directory
sync, unlock. `mem[p]` is the open `Vault` (base generation and items). A
document is its generation and the set of item ids it holds; which items it
holds is enough to see an update lost. `Unlock` may leave the lock file behind,
`Crash` does, `ClearStaleLock` is the operator following the refusal's advice.
`SyncDirectory` may fail after the rename: the file is replaced and the caller
keeps the old generation. `crossed[p]` and `seen[p]` are history variables.

**VaultItems.** One action is one open, one change and one save; VaultStore shows
that a save that lost the race has no effect. A ciphertext is the value and the
keys that open it. `recipient rekey` saves once per item and is several steps.
`Explored` names the operations a run offers. A "write" builds the whole
envelope (`Envelope`) as `prepare_item_with_writer` does. Of the tags only
`managed:weles` is kept (`weles`): a rotation of the owner passes over an item that
carries it, `reclaim` refuses it, and `migrate` brings one from another vault.

**Grants / Acquisition.** A bearer's hash stands for the bearer. A request is three
steps: `LookUp` (grant), `CheckProof` (signature and clock), `Record` (under the
file lock); the grants and the clock move in between. `Signed` is the set of
proofs workloads signed; each can be presented by any request any number of
times. `accepted` and `handed` are histories.

**DonationInbox.** Load, change and save of the inbox are separate; listener
threads hold the mutex from `Enter` to `Leave`, commands hold nothing.

**CredentialLifecycle.** A process keeps the copy of the request record it read
while Weles is asked. `Saves(p, saved, then)` is a sequence of saves of one
handle that may end after any of them. Request *n* stages value *n*; `item.by`
is the request whose value everybody reads. Weles is external: it runs, asks a
person, changes the provider, undoes that, and ends; its answers tell its
status and effect truthfully, or nothing is known (`effect = "unknown"`, what
the bridge reports for a request that was sent and not answered), or they
cannot be parsed (`ReceiveGarbled`). `rotate` stands for `reset` too: they share
every step.

**AuditJournal / AuditLog.** A line is its hash, the hash before it and what kind it
is; a hash is a number no other line has. Rename and the line that names the
closed segment are two steps with a crash in between, and `Die` may leave the line
being written cut. Outside hands (`Tamper`) change or remove lines. A *place* is a file
and a line of it, and what spans the segments is said of places. `saw` is what a reader got of each file; it
lists, reads and lists again. `verify` is `Intact`: every line fits the one before it.
The refinement maps the entries in the order of their places to `log` and untouched files to
`trusted`. `writeln!` writes a line's text and its line break apart
(`src/runtime/audit/journal.rs:266`); a death exactly between the two is not modelled.

**Capability.** `book` is the journal by what its whole values replay to, how many entries
that is, and whether bytes of a cut one follow: appending, mending, compacting and
replaying read nothing else of it. `hand` is what the two locking processes hold in memory;
`relay` is the command that loads, and mends, without the lock. `handed`,
`audited`, `honoured` and `cancelled` are histories the properties compare;
`overwrote` says that the relay replaced a journal it had not read whole, after which
only `AdmittedByRight`'s end still holds (`CapabilityRelay` shows why).

**AccessRequest.** A decision is: lock, load, check, issue, save, poke, unlock, with a
death or a failed issue in between. The watcher loads without the lock, asks and
blocks on the FIFO. `said` records what people stated.

**Rotation.** Each provider is a row of `PROVIDERS`: how the new secret comes to be,
the calls that prove it and end the old one, what `--delete-old` adds. Every call is
answered, refused, or takes effect and loses its answer. `works` is what a place
accepts, `told` what an answer named, `stray` what nobody could have told of.

**SharedAccess.** Commands that save several times are several steps, and any other
save in between refuses the next one (`Saves`), as VaultStore's generation check does.

**TlsExchange / CertificateChain.** Cryptography is symbolic: a key is the transcript
it was derived over, a record opens under the key and number it was sealed with,
a signature names the key that made it. The network cuts, alters, drops, repeats
or exchanges records, or puts in a `close_notify` in the clear, which takes no key.
`closed` keeps how the end of the stream came, under the keys or in the clear: the code
does not tell them apart, the property does. A reply is the list of its items (`ReplyItems`), cut into records as
the server likes. The walk takes the first certificate that may have issued the current one. The calendar is computed as the code does and compared with a plain
count of years, months and days.

**Listener / Predecessors.** `<<c, 1>>` is the connection a handler makes to the owner,
which may be this listener. A process has the release it executes (`svc.runs`) and, once
`when_declared` has looked, the file it found at its path (`svc.image`); an install may
come between the two. It accepts from then on. Predecessors has one step per call to launchd, the file
system and the journal.

**ToolTokens.** Each tool is a row of the steps its import takes; files are read at
one step and written back whole at another. `raced` marks tokens signed in with
while an import held the file's text, the one loss the code accepts.

**CiSecrets.** The record and the code have revisions, which are numbers; a value has a
number of its own that is never given twice, and `of` keeps beside a recorded
revision which value it meant. An item that is purged and stored again starts at
revision 1. `overlapped` tells that an item changed under a keep, two commands set the
target at once, or an older document came back; `follow_rename` is the third writer of
the record.

**Keyring.** The stamp is the file's version and the phrase; loading stamps, then
reads. A GnuPG home is one of a few shapes.

## 3. Runs

Several components share a run. Its variable (`focus`, `asking`, `auditing`,
`listening`, `mirrored`, `reading`, `alone`, `racing`) is chosen at the start and never
changes: a behaviour explores one component, or one choice of bounds, and the rest
stands still, so the states add up and do not multiply. No guard inside a component
is changed by it; where a choice of bounds leaves operations out, they never start.

Passing:

| Run | Shows | Bounds |
| --- | --- | --- |
| `Store` | the lock excludes, a fence stops every other writer, arm and lift touch only their own fence, no save loses another, a writer that got the lock leaves it | 2 processes, one a step of a move; 1 item; with the mirror 1 move and 1 generation, without 2 and 2 |
| `Items` | numbers and stamps ordered, identities unique (`ItemsOrdered`) and permanent, no revision lost (`HistoryKept`); every version opens for the owner and the recovery key and for nobody but the readers (`SealedExactly`); no step takes an owner item from the owner, except what Weles tagged (`OwnerItemsAreTheOwners`, an action property) | revisions: 2 items, 2 payloads, 3 revisions, 2 seconds; readers: 1 item, 2 people with 2 keys each |
| `Lifecycle` | only a completed request's value becomes current; an answered failure drops no value the provider accepts | 2 requests of processes that never meet, or 1 request and 2 processes at once, neither of which dies with the lock; 3 revisions; receipts required |
| `Access` | acquire grants apart, one value per proof and lent end; every grant is the one decided and the register tells of it (`GrantsAreDecisions`), the watcher asks about every pending request | 1 consumer, 2 coordinates, 2 requests, 2 proofs, 2 seconds; 1 access request, 2 people, 1 command and a watcher, 2 forms |
| `Journals` | what writers wrote verifies, damage is found (`JournalSound`), a reader misses nothing that was there when it began, the tail is the end (`ReadersSeeAll`), `AuditLog` is implemented (`LogSpec`); uses are never exceeded, a nonce counts once (`CapSafe`), a cancellation stands, nothing is admitted after its end (`AdmittedByRight`) | 2 writers, 1 reader, 3 lines, 2 days; 1 capability of 2 uses, 2 nonces |
| `Peers` | acknowledged donations wait, merges are admitted; a removed person reads nothing, only a due grant shares (`ReadsByRight`), an ended share is taken back; a reply is whole (`ReplyWhole`: every reply that states its length, and one that ends with a sealed `close_notify`), both ends agree, no record number is used twice under a key (`ChannelAgrees`), a bounded run ends; exactly the sound chains are accepted, the walk ends and days are counted right (`ChainJudged`) | 2 threads, 3 donations; 2 items, 1 grantee, 3 dates; 2 addresses, 1 fault, 2 body items; chains of up to 3 (and one of 4) certificates over 2 names, 2 keys, each with at most one flaw; the years 1996 to 2004 |
| `Service` | writers exclude each other, every request ends, a process that must end is restarted, a release installed over the one that serves comes to run (`UnitComesBack`); kept ports are tried, the bearer is never lost (`TakeOverLosesNothing`) | 2 clients, each with a forwarded connection; for a declared unit 2 installs, 3 routes (read, write, operator write) and no other owner, for an undeclared one every route and owner; 2 units, 3 starts |
| `Files` | a load never returns an older ring than the one at its start, `can_sign_as` stands, an import's answer holds (`KeysStand`), a secret half is never dropped; a token is always somewhere, one out of its file is given by the vault (`TokensInReach`), an import that answers moved every copy, a rename is followed (`AnswersHold`); a CI target that is behind an item lists it, unless the recorded number names a later value of it (`BehindIsListed`) | 2 keys, 2 blocks, 1 phrase and 1 change of it, 2 commands that add the keys of the home or one key where there is none, 1 thread, 4 homes; 10 tools, 2 imports, or one beside a rename and a sign-in, 3 tokens; 2 commands, 2 items of 2 values, one of which is purged and stored again, until commands overlap |
| `Rotation` | some accepted secret is always held, each is accounted for, an ok means replaced (`SecretsAccounted`), a due policy stays due until then | all 10 providers, 2 commands, 3 secrets, 2 moments |

The names in brackets are conjunctions of named parts, each with a comment of its own
in its module.

Why these bounds are enough to be interesting: two processes give every pair of
interleaved handlers; two generations (or three revisions) let a stale copy
meet a newer document; two seconds let an end pass between a read and a write;
two requests let a stale copy of one record meet the next request; three lines
and two days let a close come between two appends, and an epoch after it; three
secrets let two rotations overtake each other; three starts let a record be
written, lost to one start and met again; a leap year divisible by 400 and the
turn of a century are within the calendar's years. Two processes and two
requests together exceed the time of a run, so `Lifecycle` explores them one at a
time; it is checked with `Identity = TRUE` only. Processes, imports, CI commands, item
ids and payloads that no operation tells apart are symmetric in the runs that have
only safety properties to check. A CI target is left once two commands that set it
overlap, because `BehindIsListed` claims nothing after that.

The readers' half of `Items` does not offer staging, a set that lists fewer readers than the item
has (`narrow`), or `recipient add --owner`: with them its properties fail, for the
reasons section 6 gives, and `ItemsStagedReader` keeps one of those cases as a
run. What it shows is therefore about every other operation; the revisions' half
does offer staging, with one owner and nobody else coming or going.

Violated, each a disagreement between the code and its own words:

| Run | The words | What happens |
| --- | --- | --- |
| `ItemsStagedReader` | removal.rs: "a person who leaves has to lose every item at once" | a revision staged before the removal is activated sealed to them |
| `CapabilityRelay` | state.rs: the lock "keeps two redemptions from spending the same use" | `capability challenge` mends the journal without the lock and a use spent meanwhile comes back |
| `LifecycleRollback` | freeze.rs: "the staged candidate must survive" | an answer that breaks the wire contract is recorded as a plain failure, and the next status discards the candidate |

**Deadlock** is off where the system may stop: every command may end, and bounds end
the rest. `Store` checks it.

**Fairness.** Weak, and only of steps nothing outside the program can withhold:

* `Store`: a process inside the write lock runs on; no step there waits for another
  process, so only the operating system's scheduling is assumed.
* `Access`: the processes of a request and the watcher, between their waits, run on.
* `Peers`: `maintain` runs on a schedule (`expire`); the client of an exchange runs on,
  the clock goes on and a read past its deadline returns. The server and the
  network are not fair: `HeldEnds` holds against a silent one.
* `Service`: a thread runs on, and a client finishes its request or drops it. This is
  an assumption on clients: there is no read deadline, and a client that holds a
  mutating request open forever holds the write lock (section 6). Further:
  `serve` returns when a component ended, launchd restarts what ended, a start
  gets to `when_declared`, and a removed file is installed again.

**Mutants.** Each property has a changed definition, placed before the one it
mutates: a guard dropped, a check of the wrong thing, a save left out. A property
no such change breaks would say nothing about the code.

## 4. Proofs

Every invariant and action property of a passing run, and the refinement of
`AuditLog`, is a theorem: for any number of processes, items, people, clients,
commands, proofs and donations and for any bound. Two theorems have a hypothesis, which
the run shares (`SealedToTheListed`, `PendingDonationsWait`). What fairness is needed
for is left to TLC (below). The runs restrict what the proofs do not: `Lifecycle` keeps processes
apart that a proof lets meet, and `Journals` keeps readers idle once a hand changed the files.

**VaultItemsProofs.** `RevisionsInOrder` (`ItemsOrdered`),
`SealedToTheListed` (`SealedExactly`) and the action properties `HistoryIsKept` and
`OwnershipMoves` (`OwnerItemsAreTheOwners`). One
invariant serves all: to what the runs check it adds that stamps are of the past and
uids already minted, without which the next write could break the order; that a
staged revision is numbered and stamped right after the current one; that the owner
is registered under a key of theirs, without which nothing could be sealed to them;
and that a rekey under way names items that exist. Lemmas say what an envelope, a
rewrap and an archived revision are whatever they are made from, and that each has
its former controller. That an owner item is the owner's is no invariant (section 6
names how one is stranded), so `OwnershipMoves` says it of a step: what is in other
hands after it carries Weles's tag, or was in other hands before (`Kept`).
`SealedToTheListed` has the hypothesis `Confined`: `Explored` offers no "stage",
"narrow" or "add owner". With any of them the property is false of the code
(section 6; `ItemsStagedReader` shows the first), so the theorem is about every
other operation; the three other theorems need no such hypothesis.

**AcquisitionProofs.**

* Grants: `GrantsTyped`, `AcquireStaysApart`.
* Acquisition: `AcquisitionTyped`, `NonceStaysKept`, `ValueHandedOnce`. `AInv` adds: the
  second a request purges with is not ahead of the clock (`NowBehind`: this is
  why a purge drops no live nonce, although the second was read before the
  lock); bearers are numbered; two bearers of one nonce have different ends
  (`Twins`); a value handed over belongs to an accepted proof.
* Access requests: `GrantsDecided` (`GrantsAreDecisions`). `ReqInv` adds who holds the
  register's lock (`Locked`), that every record, also the copy a decision under way
  holds, has only decisions somebody stated (`Stated`, `DeskSound`), and that
  every grant there is goes back to such decisions (`Backed`, `Told`). The copy is
  what the proof turns on: it is still the record when it is saved because
  whoever saves holds the lock.

**LifecycleProofs.** `ActivationsCompleted` (`ActivatesCompleted`),
`FailuresKeepCandidates` (`AnsweredCandidateSurvives`), and `LifecycleSound` for the invariant they
rest on, for any number of processes and requests at once. `LifecycleInv` says that
whatever a process still holds of a request, however old, is true of it: a
record or an answer that says completed or cleanly failed is of a request Weles
completed or failed without having changed the provider, and Weles never goes back on
that (`RecSound`, `AnswerSound`, `WorkSound`). Which operation a request is for is
fixed when its number is given out and written nowhere once a newer record stands, hence the `\E f`.

**RotationProofs.** `NobodyLockedOut` (`NeverLockedOut`), `RotationAccounts`
(`SecretsAccounted`), and `DueStaysDue` (`DueUntilRotated`) for any of the providers, any hosts and
forges. `RotInv` says what each command's place tells of its two
secrets (`Numbered`: which is held; `Placed`: where the new one is accepted; `Replaced`:
where the old one is not), that two commands never have one new secret, and what
the others may rely on meanwhile (`Anchored`: the newest SSH key held is accepted
everywhere; a database accepts one password). Without `Anchored` a command that retires
the old secret might retire the only one another command left.

**AuditJournalProofs.**

* `JournalIsSound` (`JournalSound`). `JLines`: hashes grow in the order of places, only the last line
  of the last file is cut, untouched files are `Good` and touched ones `Broken`, which
  no later append, close or epoch mends (`BrokenStays`). `JWriters`: the lock's owner
  alone is at work, and what it is about to write fits what it found.
* `JournalIsALog` (`LogSpec`): the initial state is an empty log, and every step appends one
  entry at the end, is invisible, or ends the trust. `JLog` adds that entries are ranked by their
  places, so that the n-th entry stays the n-th when a file is closed under it.
* `ReadersMissNothing` (`ReadersSeeAll`). `JReaders`: what is acknowledged is in some file no newer
  than the one it was appended to, and what a reader got of a file is a beginning
  of it, all of it if the file was closed. That a reader looks at the list of
  segments again after reading is what closes the gap. `tail_lines` is a recursive function; what
  it computes is shown by the least argument it would be wrong for.

**PeersProofs.**

* Donations: `InboxTyped`, `MergesAdmitted` (for threads and commands alike:
  the generation check makes the admission rule hold at the write) and
  `PendingDonationsWait` for a listener without commands, whose invariant says a
  thread in flight owns the mutex and its copy differs from the file by its own
  donation. With commands the property is false of the code (section 6).
* Shares: `ReadersStandByRight` (`ReadsByRight`). The invariant adds
  `GivesByRight`: a command between two of its saves gives to somebody still
  registered, and an activation has a grant still due. Nothing a command holds says
  so; it is true because every removal or cancellation saves the document, and the
  command's next save is then refused.
* TLS: `ChannelHolds` (`ChannelAgrees`). `ExInv` says what anybody but the server can
  have sent (`Sayable`: a message of the server's flight was said by it, over
  the transcript it signs), how far the client's transcript agrees with
  the server's at each stage, and that each end counts its records on from what it sealed.
* TLS and loopback: `RepliesWhole` (`ReplyWhole`). `ReplyInv` adds where the reply is cut: the *n*-th record under the
  reply's key, whether still at the server, on its way or already opened,
  carries the items from `cut[n]` to `cut[n+1]`, and the `close_notify` comes with
  the last item (`TlsFits`); the client opened a beginning of these records. Over loopback,
  where nothing is numbered, the stream itself holds the reply from what the client
  has to what is still to be said (`LoopFits`), and an end of stream
  may come anywhere in it, always in the clear (`EndsInClear`): there the framing alone tells a
  whole reply. A reply that
  states no length and ends in the clear is excepted, over TLS too (section 6).
* Chains: `ChainsJudged` (`ChainJudged`). `WalkInv` has the path walked so far (`Walked`), and that, as
  long as no two certificates shown share name and key, every path to an anchor
  goes on from it (`Follows`), which is why taking the first issuer that fits loses none.

**ServiceProofs.**

* VaultStore: `LockExcludes`, `FenceCorrect`, `FenceOwned`, `NoLostUpdate`,
  `TypeCorrect`. `IInv` adds to the types: whoever is in the
  critical section owns the lock file; a document of generation zero holds
  nothing (`DocsKept`); the fence read under the lock still stands (`FenceStays`);
  a copy not crossed is not ahead of the file and, at the same generation, was
  read from it (`CopiesFollow`); between check and rename the file stays
  (`SaveInFlight`). `CopiesFollow` is what no-lost-update needs: equal generations
  alone say nothing once a replacement brought an old number back, hence
  `crossed`. One lemma per conjunct, one step per action.
* Listener: `WritesStaySerial` (`WritesSerial`), whose
  invariant says which stages of which routes hold the write lock (`LockHeld`) and
  that only operator routes reach the operator's code (`OperatorOnly`: the lock is
  taken later there).
* Predecessors: `TakeOverKeeps` (`TakeOverLosesNothing`):
  what was kept is in the record and in the hands of a start that read it
  (`OwedRecorded`), and past its bond the unit that carried the bearer is replaced
  (`BondFirst`).
* Capability: `CapabilitiesSafe` (`CapSafe`), `CapabilitiesAdmittedByRight` (`AdmittedByRight`). `CapInv`
  balances the uses: those left in the journal, those audited and the one being
  spent are no more than were issued (`UseSound`, `BrokerSound`), and a process
  past the lock holds of every other capability what the journal says or nothing,
  and every nonce that counted (`HeldSound`), so compacting from memory loses none. It does not
  hold once the relay `overwrote`, which it therefore excepts as the properties do.

**FilesProofs.**

* CiSecrets: `ChangedIsListed` (`BehindIsListed`): until commands overlap, a CI
  target goes forward only, by the values and not by their revisions; it holds at least what
  is recorded and what a command will record, and a renewal's values are no older than
  those it records (`CiInv`). So a target that holds an older value was recorded at an
  older value, and only an item that came to the recorded number anew (`reused`) hides that.
* Keyring: `AnswersStand` (`KeysStand`) and the action property `HalvesKept`
  (`HalfKept`): every ring read once, in a thread's hands or the cache,
  is one the file has only grown from since (`RingOK`, `Grows`), a cached ring is
  no older than its stamp, and a command between reading and writing the file holds
  the lock and the file is as it read it (`CmdOK`).
* ToolTokens: `TokensStayInReach` (`TokensInReach`), `AnswersAreSo`
  (`AnswersHold`). An import holds a text that it may write back much later:
  `ToolInv` says that putting it back loses no token (`Holds`), and what an import
  nobody came beside has in place at each step (`Placed`), which is why its order of
  steps matters. `AnswersInv` adds how far such an import has cleaned the tool's file
  (`Clean`), that a token is seen at one entry only, Hugging Face's apart (`Apart`:
  otherwise removing it from one entry would leave it in another), and how far a rename
  has got (`Followed`). A plan is followed step by step (`Follows`), so a proof about
  a step covers every tool that takes it.

**Assumptions** are the named `ASSUME`s of the component modules; TLC evaluates them
in every run. Bounds are naturals, sentinels are not members of the sets they are
absent from, remote documents have been saved. Beyond that:
`ItemsAssumption`: people's keys are their own and none is the recovery key.
`SharingAssumption`: what a tag shares can be shared. `PredecessorsAssumption`: the
retired units are a list, with the sync daemon among the units.
`KeyringAssumption`: there is key material, and a GnuPG home holds keys. Every public block of
a key is taken to carry its encryption subkey, which `import_key` does not ask
(`src/core/crypto/keyring.rs:712`): one without it would make `parse_key` (`:437`)
refuse the whole file.
`ToolsAssumption`: the tools are those of `ADAPTERS`, there are finitely many entries
and as many tokens as sign-ins. `TInit` gives every entry a sign-in of its own;
only Hugging Face may keep one token under several names.
`RotationAssumption`: the providers explored are rows of `PROVIDERS`, and commands are finitely many.
`RequestAssumption`: a watcher decides nothing, and each question and person has one form and
one first role.
`ChainAssumption`: a chain shown is a list of certificates whose dates are whole numbers and whose keyUsage
was parsed. `TlsAssumption`: there is an address, a request is at least one record.
`CapabilityAssumption`: an issue gives at least one use.

**Only model-checked** are the properties that need fairness, since liveness and `ENABLED`
are out of the prover's reach: `WriterLeaves` (`Store`), `WatcherAsksAll` (`Access`),
`EndedShareRevoked` and `HeldEnds` (`Peers`), `RequestsEnd` and `UnitComesBack` (`Service`). The
violation runs' three properties are false of the code and so have no theorem.

Recursive functions (the plan of `tail_lines`) are reasoned about without
induction over data: if one were wrong there would be a least argument it is wrong for. Where a fold
was not needed to say what the code does, the models say it by quantifiers: the items of a reply by their
places, the journal's chain by each line and the one before it, a path by its members.

No module that holds or is used by a theorem declares a recursive operator.

## 5. Not modelled, and the plan

Weles, Git, the kernel, launchd, providers, TLS servers and GnuPG are external and
appear as what the code relies on. Not modelled:

* the primitives of `crates/crypto` (hashes, curves, AES, RSA) and OpenPGP packets:
  bit-level algorithms TLC cannot explore usefully and whose correctness is a
  matter of test vectors;
* parsing, formatting, help, listings, import formats, doctor's reports, the
  console, MCP, onboarding, browser framing: functions of one input without shared
  state, or presentation over operations that are modelled;
* routes, roles, policy, schema and typed values: checks of one call against stored
  settings;
* of the lifecycle: reauth, dry runs, eligibility reports, the wire format; of the
  items: other tags than `managed:weles`, titles, kinds, links; of recovery: the sheet and the canary drill.

* left out of modelled operations, where no property tells the difference: the uid that
  the code keeps a second time under `policy`; an answer of Weles that reports a failed
  rollback of an unchanged password, or an unsupported secret; a save of a rotation that
  is reported as failed after its rename; several enterprise hosts of `gh`, which share
  one variable. `migrate` is modelled for items whose uid no other item here has
  (`Elsewhere`): the code does not ask, and an item renamed in this vault since and
  migrated again under its old id gives two items one uid. The lookup of a
  host name is outside the deadline of an exchange (`src/net/deadline.rs`), and
  outside `HeldEnds`.

The plan:

1. *done* the modules of section 2, their runs, and a theorem for every safety property
   of a passing run (section 4).
2. *left* an abstract register of the vault document which `VaultStore` refines, as
   `AuditJournal` does `AuditLog`.
3. *left* `Routes`, roles and policy as an algorithm against a reference definition.
4. *left* the death between a journal line's text and its line break (section 6), the wire
   format of a lifecycle request, the lookup of a fleet route.

## 6. Disagreements between comments and code met while modelling

The three violation runs keep one each. The models reproduce these too:

* a replacement may bring back a generation an open copy still has, and that
  copy's save then passes (`src/core/vault/fence.rs:72`; `src/cli/items.rs:108`
  relies on the generation);
* an item saved between the comparison and the replacement of an unforced
  mirror pull is lost (`src/net/sync.rs:234`, against `:8`), and one saved between
  keeping aside and restoring is in no copy (`src/runtime/backup/restore.rs:81`,
  against `:5-7`);
* a replica pull compares numbers of items, so as many other items replace
  local-only ones (`src/net/bond.rs:204`, against `README.md:98`);
* removal rewraps the items that list the person now; versions an earlier
  narrower write saved stay sealed to them (`src/core/vault/removal.rs:53`, `:2`);
* an item `migrate` brought with the tag `managed:weles` stays with the former owner
  when the owner is rotated (`src/core/vault/recipients.rs:183`, against `:150`), and set,
  retag, `reclaim` and the next rotation all refuse or pass over it: nobody writes it
  again. A forced `migrate` of an untagged item over it is then written under the former
  owner's control, against `src/core/items/vault_copy.rs`, whose writer "refuses to displace
  an item whose recorded controller is not the owner"; and `migrate` leaves the item no
  reader but the owner;
* a revision staged before an owner rotation is activated without the new owner
  (`src/core/vault/recipients.rs:208`, `:81`);
* `recipient add` of the owner's uid replaces the owner's key without sealing items
  to it (`src/access/recipients/mod.rs:113`, against `:104` and `:111`);
* two rows of one import, and a duplicate restored from the trash, may hold one
  payload (`src/core/vault/items/writes.rs:166`, `lifecycle.rs:268`, against
  `envelope.rs:226`); an activation leaves the old fingerprint (`managed.rs:220`);
* of two versions of one second only the older can be restored (`identity.rs:168`,
  against `:202`);
* share raises the revision (`src/access/recipients/mod.rs:175`, against
  `identity.rs:30`);
* a donation admission lets through as the donor's own overwrite is refused by
  the write rules (`envelope.rs:93`, against `src/core/inbox/admission.rs:17`);
* `ensure` adds read capabilities to a lifecycle grant, which `issue` refuses
  (`src/access/grant/issue.rs:223`, against `:67`); the lifetime whose sum is
  `u64::MAX` is accepted and means "until revoked" (`:108`, against `:91`);
  introspection of a bearer shared by two consumers names one (`lookup.rs:148`,
  against `:129`);
* with grants of two consumers an older proof of a workload is accepted after a
  newer (`src/access/acquisition/mod.rs:155`, against `:6-8`), and a bearer outlives
  the revocation of its grant (`:207`, against `:5`);
* a rejected donation returns when a command saves an older inbox
  (`src/core/inbox.rs:93`, against `:138`);
* a quarantine replaces the lifecycle block that hides an adopted value
  (`src/credential/state/writes.rs:44`, against `src/credential/adopt/mod.rs:1-3`);
* a poll that cannot resolve Weles's route records `needs_configuration` over a
  request in flight, and a second may start (`src/credential/wire/bridge.rs:201`,
  against `src/credential/schedule/run.rs:6-9`);
* a resolution that activates and is cut off leaves a managed item with a value
  nobody confirmed (`src/credential/quarantine/resolve.rs:101`); a failure between
  staging an adopted candidate and recording its request leaves a candidate no
  later adopt accepts (`src/credential/lifecycle/start.rs:68`);
* a command that accepts or rejects a donation saves the inbox it loaded before, and
  drops one the listener acknowledged meanwhile (`src/core/inbox.rs:178`, against
  `:3-5`);
* a nonce is purged at the lent end and a proof names no grant, so the proof is
  accepted again under the next one (`src/access/acquisition/mod.rs:128`, against
  `:8-9` "a proof is accepted once");
* `audit epoch` takes its report before the lock (`src/runtime/audit/epoch.rs:15-32`); a
  torn last line refuses every append, rotate and epoch; lines cut from the end of
  the open file leave no trace. Read from the code and not modelled: `writeln!` writes
  text and line break apart, so a death between them leaves a whole last line
  that the next append continues (`src/runtime/audit/journal.rs:266`);
* a capability journal whose first append was cut refuses the whole state; the nonce
  of a refused request is not recorded; the broker serves one connection at a time
  and waits for its line without a deadline;
* an approval that dies between issuing and saving leaves a live grant no decision
  records (`src/access/request/decide.rs:269`); the need for two people is read when
  a request is filed, and the first approver's role is not asked again; a death
  between saving and poking leaves the watcher asleep;
* an emergency activation records what it shared after the last save, so one cut
  short leaves readings no revoke takes back (`src/access/recovery/emergency.rs:255`,
  against `:3` "exactly those"); revoke takes back a share made by hand since;
* `share --tag --until` seals before it records the end; `revoke --tag`, removal and
  purge leave the end behind, which then takes back a later share; a plain share
  keeps an old end;
* `record` clears the mark of a recipient removed while the rotation was under way
  (`src/credential/schedule/run.rs:121`), and its failure ends the pass with policies
  still due; removal and `mark_due` are two saves;
* rotators journal a failure with `?` before they undo, so a journal that cannot be
  written skips the undo (`src/runtime/awsrotate/mod.rs:143`); "which still works" and "the
  server holds the old password" are false when the answer of a delete or an `ALTER`
  was lost; a failing second list of Entra leaves a secret nobody names; a failed
  vault write of an SSH rotation leaves the new key on the hosts;
* tool imports write back text read at their start, so a sign-in made meanwhile is
  lost (all but npm and git); two imports into one bindings file lose a line; aws takes
  the key out before setup; unset of git and docker removes another program's helper;
* `ci keep` reads the revisions it records after it pushed (`src/runtime/cisecrets/kept.rs:101`,
  against `src/runtime/doctor/helpers/ci.rs:72`), and a pass writes back the list it read,
  undoing a `ci forget`; a rename writes the list in the same way
  (`src/runtime/cisecrets/rename.rs:40`). Only numbers are compared
  (`kept.rs:126`, `:171`), and a purged item stored again counts from 1
  (`src/core/vault/items/envelope.rs:203`, which refuses to hand out "a revision an older
  version already had" in every other case): when it comes to the recorded number, `ci kept`,
  `doctor` and a renewal take the target to be current. A backup put back, or an older
  replica pulled, has the same effect;
* of two certificates with one name and key the walk follows the first only; a loopback
  reply without a length is whole whenever its server dies;
* after the keys changed an alert is still taken in the clear
  (`crates/crypto/src/tls/handshake.rs:481`, `:488-493`) and `receive` then answers empty (`:782`,
  against `:734`, "empty once the server sent close_notify"), so a reply over TLS that
  states no length ends where anybody on the way puts such an alert, and
  `src/net/loopback.rs:174` takes it as whole;
* a silent first address uses up the deadline of all;
* the listener takes the write lock before the headers arrive and reads without a
  deadline, so a stalled client on a mutating route stops every writer
  (`src/net/http/routes.rs`); a forwarded request has no deadline either;
* a start that dies between removing a unit and journalling it loses its ports, and one
  that cannot write the record while one exists loses the new ones
  (`src/net/http/service/inherited.rs:1-9`); the image check is skipped while the path
  names no file;
* the running image is read from the path after the take-over and the binding
  (`src/net/http/service/image.rs:33`, called at `src/net/http/service/mod.rs:49`), so a release
  installed between the start of the process and that moment is taken for the running
  one: the older release serves until the next install, "the case this exists to end"
  of `image.rs`. `UnitComesBack` is therefore about installs over a process that accepts;
* an older public block overwrites a newer one in the key file, and an import says
  "imported" for a half that was kept under another phrase
  (`src/core/crypto/keyring.rs:666`).
