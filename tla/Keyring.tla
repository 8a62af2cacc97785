------------------------------- MODULE Keyring -------------------------------
\* The key file beside the vault.  Commands add keys to it under the key file's
\* lock: generate_key, import_key (public halves) and `keys import`, which reads
\* a GnuPG home.  The threads of one serving process load it through a cache
\* whose stamp is the file's identity and the unlock phrase.  The phrase is
\* changed by the operator at any moment, and a command may die anywhere.
\* A key is named by its fingerprint and a public block by its version; every
\* block of a key carries the encryption subkey its secret half opens.
EXTENDS Naturals, FiniteSets

CONSTANTS Fprs,        \* fingerprints
          Blocks,      \* versions of a key's public packets
          Phrases,     \* unlock phrases
          NoPhrase,    \* none is configured; also: a half written as it is
          Absent,      \* no entry, no secret half, no public keyring, no holder
          Homes,       \* the GnuPG homes explored
          Commands, Threads,
          MaxWrites, MaxPhrases   \* bounds: file versions, phrase changes

VARIABLES keyfile,     \* [version, keys]
          phrase,      \* [now, changes]: the phrase configured
          klock,       \* <keys>.lock
          cache,       \* CACHE of the serving process
          home,        \* what the GnuPG home holds
          cmd,         \* the commands
          thread       \* the loading threads

kvars == <<keyfile, phrase, klock, cache, home, cmd, thread>>

Configured == Phrases \cup {NoPhrase}
\* A secret half: its scalar always, its seed when that is held too.
SecretHalf == [seed : BOOLEAN]
Stored == [seed : BOOLEAN, under : Configured]
Entry == [public : Blocks, secret : Stored \cup {Absent}]
\* An entry as it is read: the half with what the phrase did to it.
Parsed == [public : Blocks, secret : Stored \cup {Absent},
           unlocked : {"none", "open", "locked"}]
\* A key of a GnuPG home: its public packets and the files of its two halves,
\* each absent, in the clear or under a passphrase.
HomeKey == [public : Blocks, sealing : Configured \cup {Absent},
            signing : Configured \cup {Absent}]

ASSUME KeyringAssumption ==
  /\ Absent \notin Commands \cup Entry \cup Stored \cup Parsed
  /\ Blocks # {}
  /\ \A h \in Homes \ {Absent} :
       DOMAIN h \subseteq Fprs /\ \A k \in DOMAIN h : h[k] \in HomeKey

NoCmd == [pc |-> "idle", keys |-> Absent, wanted |-> {}, phrase |-> NoPhrase,
          document |-> Absent]
NoLoad == [pc |-> "idle", phrase |-> NoPhrase, stamp |-> 0, began |-> 0, ring |-> Absent]

KInit ==
  /\ keyfile = [version |-> 0, keys |-> [k \in Fprs |-> Absent]]
  /\ phrase \in [now : Configured, changes : {0}]
  /\ klock = Absent /\ cache = Absent
  /\ home \in Homes
  /\ cmd = [c \in Commands |-> NoCmd]
  /\ thread = [t \in Threads |-> NoLoad]

-----------------------------------------------------------------------------
\* unseal: a sealed half opens under the phrase it was written under.
unseal(half, ph) == half.under \in {NoPhrase, ph}

\* parse_key and read: the entries, each with what the phrase unlocked.
parse_key(e, ph) ==
  [public |-> e.public, secret |-> e.secret,
   unlocked |-> IF e.secret = Absent THEN "none"
                ELSE IF unseal(e.secret, ph) THEN "open" ELSE "locked"]
read_keys(file, ph) ==
  [version |-> file.version, phrase |-> ph,
   keys |-> [k \in Fprs |-> IF file.keys[k] = Absent THEN Absent
                            ELSE parse_key(file.keys[k], ph)]]

\* find and require: the key a fingerprint names, if the ring holds it.
find(ring, k) == ring.keys[k] # Absent
\* secrets: the keys whose half is unlocked.
secrets(ring) == {k \in Fprs : find(ring, k) /\ ring.keys[k].unlocked = "open"}
secret_key_present(ring, k) == find(ring, k) /\ ring.keys[k].secret # Absent
can_sign_as(ring, k) == k \in secrets(ring) /\ ring.keys[k].secret.seed

\* entry: a key as it is written, its half sealed under the phrase configured.
entry(new, ph) ==
  [public |-> new.public,
   secret |-> IF new.secret = Absent THEN Absent
              ELSE [seed |-> new.secret.seed, under |-> ph]]

\* Mutant: a half that does not open is one to be written again.
whole_if_open(e) == e.unlocked = "open" /\ e.secret.seed
\* A half this phrase cannot open is taken as whole.
whole(e) ==
  \/ e.unlocked = "locked"
  \/ e.unlocked = "open" /\ e.secret.seed
\* A half arrives, or a fuller one.
fuller(new, e) ==
  new.secret # Absent /\ ~whole(e) /\ (new.secret.seed \/ e.secret = Absent)
added(ring, k, new, ph) ==
  IF ~find(ring, k) \/ fuller(new, ring.keys[k]) THEN entry(new, ph)
  ELSE [public |-> new.public, secret |-> ring.keys[k].secret]

-----------------------------------------------------------------------------
Starts(c, pc, new, want) ==
  cmd' = [cmd EXCEPT ![c] = [NoCmd EXCEPT !.pc = pc, !.keys = new, !.wanted = want]]

\* keyblocks: the home has a public keyring.
keyblocks == home # Absent
\* primary and agent_files: the keys the home can give.
Offered == IF keyblocks THEN DOMAIN home ELSE {}
\* generate_key: a new key has a fingerprint nothing else has.
generate_key(c) ==
  /\ cmd[c].pc = "idle"
  /\ \E k \in Fprs : LET b == CHOOSE b \in Blocks : TRUE IN
       /\ keyfile.keys[k] = Absent
       /\ k \notin Offered
       /\ \A d \in Commands : IF cmd[d].keys = Absent THEN TRUE ELSE k \notin DOMAIN cmd[d].keys
       /\ Starts(c, "lock", [x \in {k} |-> [public |-> b, secret |-> [seed |-> TRUE]]], {})
  /\ UNCHANGED <<keyfile, phrase, klock, cache, home, thread>>
\* import_key and split_keys: the public halves a block holds, one run per key.
import_key(c) ==
  /\ cmd[c].pc = "idle"
  /\ \E keys \in SUBSET Fprs \ {{}}, b \in Blocks :
       Starts(c, "lock", [x \in keys |-> [public |-> b, secret |-> Absent]], {})
  /\ UNCHANGED <<keyfile, phrase, klock, cache, home, thread>>

\* secret_half: the sealing file is required and must open; a protected signing
\* file that does not open is left behind.
Opens(file, ph) == file \in {NoPhrase, ph}
secret_half(k, ph) ==
  IF home[k].sealing = Absent THEN {Absent}
  ELSE IF ~Opens(home[k].sealing, ph) THEN {}
  ELSE {[seed |-> home[k].signing # Absent /\ Opens(home[k].signing, ph)]}
\* served_by_key_file: every wanted key is held, and the vault's lowest item, if
\* it has one, opens.
served_by_key_file(want, items) ==
  LET ring == read_keys(keyfile, phrase.now)
  IN (\A k \in want : find(ring, k)) /\ (items => secrets(ring) # {})
\* run: a home without a keyring, a half that does not open, or else the keys of
\* `wanted` the home holds are added.
keys_import(c) ==
  /\ cmd[c].pc = "idle"
  /\ \E want \in SUBSET Fprs \ {{}}, items \in BOOLEAN :
       IF ~keyblocks
       THEN IF served_by_key_file(want, items) THEN Starts(c, "ok", Absent, want)
            ELSE UNCHANGED cmd
       ELSE LET found == want \cap Offered
                half(k) == secret_half(k, phrase.now)
            IN IF \E k \in found : half(k) = {} THEN UNCHANGED cmd
               ELSE Starts(c, "lock",
                      [k \in found |-> [public |-> home[k].public,
                                        secret |-> CHOOSE h \in half(k) : TRUE]], want)
  /\ UNCHANGED <<keyfile, phrase, klock, cache, home, thread>>

\* add: lock_exclusive, then the phrase and the document.
lock_exclusive(c) ==
  /\ cmd[c].pc = "lock" /\ klock = Absent
  /\ klock' = c /\ cmd' = [cmd EXCEPT ![c].pc = "read"]
  /\ UNCHANGED <<keyfile, phrase, cache, home, thread>>
add_read(c) ==
  /\ cmd[c].pc = "read"
  /\ cmd' = [cmd EXCEPT ![c].pc = "write", ![c].phrase = phrase.now,
                        ![c].document = read_keys(keyfile, phrase.now)]
  /\ UNCHANGED <<keyfile, phrase, klock, cache, home, thread>>
\* The document is written whole, in one rename, when a key changed.
add_write(c) ==
  /\ cmd[c].pc = "write"
  /\ LET new == cmd[c].keys
         ring == cmd[c].document
         stored(k) == IF find(ring, k)
                      THEN [public |-> ring.keys[k].public, secret |-> ring.keys[k].secret]
                      ELSE Absent
         document == [k \in Fprs |-> IF k \in DOMAIN new
                                     THEN added(ring, k, new[k], cmd[c].phrase)
                                     ELSE stored(k)]
         \* An entry written again is a change even when its text is the same.
         changed == \E k \in DOMAIN new :
                      \/ document[k] # stored(k)
                      \/ find(ring, k) /\ fuller(new[k], ring.keys[k])
     IN /\ changed => keyfile.version < MaxWrites
        /\ keyfile' = IF changed THEN [version |-> keyfile.version + 1, keys |-> document]
                      ELSE keyfile
  /\ klock' = Absent
  /\ cmd' = [cmd EXCEPT ![c].pc = "added", ![c].document = Absent]
  /\ UNCHANGED <<phrase, cache, home, thread>>
\* `keys import` names the keys the home lacks only now.
Answered(c) ==
  /\ cmd[c].pc = "added"
  /\ cmd' = [cmd EXCEPT ![c].pc = IF cmd[c].wanted \subseteq DOMAIN cmd[c].keys
                                  THEN "ok" ELSE "missing"]
  /\ UNCHANGED <<keyfile, phrase, klock, cache, home, thread>>
\* The command ends, or dies anywhere; the kernel drops its lock.
CommandEnds(c) ==
  /\ cmd[c].pc # "idle"
  /\ cmd' = [cmd EXCEPT ![c] = NoCmd]
  /\ klock' = IF klock = c THEN Absent ELSE klock
  /\ UNCHANGED <<keyfile, phrase, cache, home, thread>>

-----------------------------------------------------------------------------
\* unlock_phrase, which the operator changes.
unlock_phrase ==
  /\ phrase.changes < MaxPhrases
  /\ \E ph \in Configured \ {phrase.now} :
       phrase' = [now |-> ph, changes |-> phrase.changes + 1]
  /\ UNCHANGED <<keyfile, klock, cache, home, cmd, thread>>

\* load_from: the phrase, then the stamp, then the cache under its mutex.  The
\* mutex is held across the read, so no other load comes between it and the
\* store; a command's write may come before each.
load(t) ==
  /\ thread[t].pc = "idle"
  /\ thread' = [thread EXCEPT ![t] = [NoLoad EXCEPT !.pc = "stamp", !.phrase = phrase.now,
                                                    !.began = keyfile.version]]
  /\ UNCHANGED <<keyfile, phrase, klock, cache, home, cmd>>
stamp(t) ==
  /\ thread[t].pc = "stamp"
  /\ thread' = [thread EXCEPT ![t].pc = "cache", ![t].stamp = keyfile.version]
  /\ UNCHANGED <<keyfile, phrase, klock, cache, home, cmd>>
Hit(t) == cache # Absent /\ cache.version = thread[t].stamp /\ cache.phrase = thread[t].phrase
cached(t) ==
  /\ thread[t].pc = "cache" /\ \A u \in Threads : thread[u].pc \notin {"read", "store"}
  /\ thread' = IF Hit(t) THEN [thread EXCEPT ![t].pc = "loaded", ![t].ring = cache.ring]
               ELSE [thread EXCEPT ![t].pc = "read"]
  /\ UNCHANGED <<keyfile, phrase, klock, cache, home, cmd>>
read_ring(t) ==
  /\ thread[t].pc = "read"
  /\ \/ thread' = [thread EXCEPT ![t].pc = "store", ![t].ring = read_keys(keyfile, thread[t].phrase)]
     \/ thread' = [thread EXCEPT ![t] = NoLoad]   \* a failed read stores nothing
  /\ UNCHANGED <<keyfile, phrase, klock, cache, home, cmd>>
\* Mutant: the stamp is taken again for the store.
stored_now(t) ==
  /\ thread[t].pc = "store"
  /\ cache' = [version |-> keyfile.version, phrase |-> thread[t].phrase, ring |-> thread[t].ring]
  /\ thread' = [thread EXCEPT ![t].pc = "loaded"]
  /\ UNCHANGED <<keyfile, phrase, klock, home, cmd>>
stored_ring(t) ==
  /\ thread[t].pc = "store"
  /\ cache' = [version |-> thread[t].stamp, phrase |-> thread[t].phrase, ring |-> thread[t].ring]
  /\ thread' = [thread EXCEPT ![t].pc = "loaded"]
  /\ UNCHANGED <<keyfile, phrase, klock, home, cmd>>
Used(t) ==
  /\ thread[t].pc = "loaded" /\ thread' = [thread EXCEPT ![t] = NoLoad]
  /\ UNCHANGED <<keyfile, phrase, klock, cache, home, cmd>>

KNext ==
  \/ unlock_phrase
  \/ \E c \in Commands :
       generate_key(c) \/ import_key(c) \/ keys_import(c) \/ lock_exclusive(c)
         \/ add_read(c) \/ add_write(c) \/ Answered(c) \/ CommandEnds(c)
  \/ \E t \in Threads :
       load(t) \/ stamp(t) \/ cached(t) \/ read_ring(t) \/ stored_ring(t) \/ Used(t)
KSpec == KInit /\ [][KNext]_kvars

-----------------------------------------------------------------------------
\* What a load answers is no older than the file it began with and is unlocked
\* with the phrase it read, however writes, phrase changes and other loads fall
\* between its stamp and its read (load_from stamps before it reads).
LoadFresh ==
  \A t \in Threads : thread[t].pc = "loaded" =>
    thread[t].ring.version >= thread[t].began /\ thread[t].ring.phrase = thread[t].phrase

\* What a load said this host can sign as or holds a secret of stays so, though
\* the answer is used after the file was written again: no command, racing or
\* dying, takes a secret half or its seed out of the file, or seals it under a
\* phrase other than the one that opened it (add, can_sign_as).
CanSignStands ==
  \A t \in Threads, k \in Fprs : thread[t].pc = "loaded" =>
    LET ring == thread[t].ring
    IN /\ secret_key_present(ring, k) => keyfile.keys[k] # Absent /\ keyfile.keys[k].secret # Absent
       /\ can_sign_as(ring, k) => /\ keyfile.keys[k].secret.seed
                               /\ unseal(keyfile.keys[k].secret, ring.phrase)

\* A half is written again only with the phrase that opens it, and only by one
\* with the seed it lacks (add: "it is not replaced without the phrase it was
\* written under"); the phrase may change between any two steps.
HalfStep ==
  \A k \in Fprs :
    keyfile.keys[k] # Absent /\ keyfile.keys[k].secret # Absent =>
      LET half == keyfile.keys[k].secret
          later == IF keyfile'.keys[k] = Absent THEN [seed |-> FALSE]
                   ELSE keyfile'.keys[k].secret
      IN \/ later = half
         \/ /\ ~half.seed /\ later.seed
            /\ \E c \in Commands : klock = c /\ unseal(half, cmd[c].phrase)
HalfKept == [][HalfStep]_kvars

\* An import that answers ok left every wanted key in the file, with its half
\* when the home gave one, and with its seed when the home gave that and the half
\* the file had was open to it (run and add).
ImportHolds ==
  \A c \in Commands : cmd[c].pc = "ok" =>
    /\ \A k \in cmd[c].wanted : keyfile.keys[k] # Absent
    /\ cmd[c].keys # Absent => \A k \in DOMAIN cmd[c].keys :
         LET new == cmd[c].keys[k].secret
             half == keyfile.keys[k].secret
         IN new # Absent => /\ half # Absent
                            /\ new.seed => half.seed \/ half.under \notin {NoPhrase, cmd[c].phrase}

\* What load, can_sign_as and import answer of the key file is so, and stays so
\* until it is used.
KeysStand == LoadFresh /\ CanSignStands /\ ImportHolds
=============================================================================
