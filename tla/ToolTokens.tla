----------------------------- MODULE ToolTokens -----------------------------
\* skarbiec tool import, skarbiec helper setup|import|unset and rename: a token
\* a developer tool keeps in plain text is moved into a vault item, and the tool
\* is led to the item instead, through an environment variable a bindings file
\* names (exec --env-from) or through the helper the tool asks.  Imports, the
\* tool's own sign-in, a person's setup and unset, and a rename run at once and
\* share the tool's file, the tool's configuration and the bindings file with no
\* lock; each command may fail or die between any two of its steps.
EXTENDS Naturals, Sequences, FiniteSets

CONSTANTS Importers,   \* import commands under way at once
          Tools,       \* the tools checked, each from an initial state of its own
          Entries,     \* registries, hosts, profiles... of the tool
          Active,      \* Hugging Face: the entry that is the active token
          Ids,         \* item ids
          None,        \* no token, no id, nobody asked
          Ref,         \* an entry that names a variable in its token's place
          Vault,       \* an entry whose helper answers with the host's login
          Other,       \* an entry that asks another program
          MaxToken     \* bound: tokens the tool is ever given

VARIABLES tool,        \* the tool under study
          tfile,       \* [entry -> what the tool's file keeps]
          vault,       \* [id -> the token its item holds]
          lines,       \* the bindings file: [variable -> id]
          known,       \* this host remembers the bindings file
          asks,        \* the tool's configuration: [entry -> whom it asks]
          imp,         \* [import -> where it stands]
          ren,         \* the rename
          tokens,      \* the last token the tool was given
          latest,      \* [entry -> the token of its last sign-in]
          raced        \* tokens signed in with while an import held the file's text

tvars == <<tool, tfile, vault, lines, known, asks, imp, ren, tokens, latest, raced>>

\* Each adapter: the steps of its import between reading the tool's file and
\* the journal, whether all entries share one variable, and whether an entry
\* names the item it asks or the vault answers by host.
env(rewrites, shares) ==
  [steps |-> <<"bound", "create", "read_back", "bind", "remember">> \o rewrites,
   shares |-> shares, by |-> "env"]
answered(steps, by) ==
  [steps |-> <<"create", "read_back">> \o steps, shares |-> FALSE, by |-> by]

npmcred == env(<<"reread", "replace">>, FALSE)
ghcred == env(<<"rewrite">>, FALSE)
pypicred == env(<<"rewrite">>, TRUE)
gemcred == env(<<"rewrite">>, TRUE)
hfcred == env(<<"rewrite", "remove_active">>, TRUE)
flycred == env(<<"rewrite">>, TRUE)
vercelcred == env(<<"rewrite">>, TRUE)
awscred == answered(<<"rewrite", "setup">>, "id")
kubecred == answered(<<"setup", "unset_key">>, "id")
tfcred == answered(<<"rewrite">>, "host")
cargocred == answered(<<"rewrite">>, "host")
gitcred == answered(<<"setup", "reread", "strike">>, "host")
dockercred == answered(<<"setup", "reread", "cut">>, "host")

ADAPTERS == [npm |-> npmcred, twine |-> pypicred, gh |-> ghcred, gem |-> gemcred,
             huggingface |-> hfcred, fly |-> flycred, vercel |-> vercelcred,
             aws |-> awscred, kube |-> kubecred, terraform |-> tfcred,
             cargo |-> cargocred, git |-> gitcred, docker |-> dockercred]

ASSUME ToolsAssumption ==
  /\ Tools \subseteq DOMAIN ADAPTERS /\ Active \in Entries
  /\ IsFiniteSet(Entries) /\ MaxToken \in Nat /\ Cardinality(Entries) \in 1..MaxToken
  /\ None \notin Ids \cup Importers \cup (1..MaxToken) /\ Ref \notin 1..MaxToken
  /\ {Vault, Other} \cap Ids = {}

tool_adapter == ADAPTERS[tool]
steps == tool_adapter.steps
Variables == Entries \cup {"shared"}
variable(e) == IF tool_adapter.shares THEN "shared" ELSE e
IsToken(v) == v \in 1..MaxToken

NoImport == [pc |-> "idle", e |-> Active, id |-> None, token |-> 0, step |-> 1,
             text |-> [e \in Entries |-> None], config |-> [e \in Entries |-> None],
             bound |-> [v \in Variables |-> None], alone |-> FALSE, gone |-> FALSE]
NoRename == [pc |-> "idle", from |-> None, to |-> None, read |-> [v \in Variables |-> None],
             ok |-> TRUE, alone |-> FALSE]

\* Every entry was signed in to.  A sign-in gives a token of its own, which
\* Hugging Face may keep under several names.
SignedIn == Cardinality(Entries)
TInit ==
  /\ tool \in Tools
  /\ tfile \in {f \in [Entries -> 1..SignedIn] : f[Active] = 1 /\ (tool # "huggingface" =>
                  \A d, e \in Entries : d # e => f[d] # f[e])}
  /\ vault = [i \in Ids |-> None]
  /\ lines = [v \in Variables |-> None]
  /\ known = FALSE
  /\ asks \in {[e \in Entries |-> None]} \cup
       (IF ADAPTERS[tool].by = "env" THEN {} ELSE {[e \in Entries |-> Other]})
  /\ imp = [p \in Importers |-> NoImport]
  /\ ren = NoRename
  /\ tokens = SignedIn /\ latest = tfile /\ raced = {}

Busy(p) == imp[p].pc = "steps"
\* Every command but p (and every rename but this one) has company: what it
\* saw is no longer only its own doing.
Disturb(p) == [q \in Importers |-> IF q = p THEN imp[q] ELSE [imp[q] EXCEPT !.alone = FALSE]]
Disturbed == [ren EXCEPT !.alone = FALSE]
Advance(p, changes) ==
  /\ imp' = [Disturb(p) EXCEPT ![p] =
       LET next == [changes EXCEPT !.step = @ + 1] IN
       IF next.step > Len(steps) THEN [next EXCEPT !.pc = "journal"] ELSE next]
  /\ ren' = Disturbed
Ended(p, end) == [imp[p] EXCEPT !.pc = end, !.text = NoImport.text,
                  !.config = NoImport.config, !.bound = NoImport.bound]
AtStep(p, s) == Busy(p) /\ steps[imp[p].step] = s

\* A command of `tool import` or `helper import`: the adapter reads the tool's
\* file and finds the entry's token; an entry without one (or with a variable's
\* name in its place) is refused.
import(p, e, id) ==
  /\ imp[p].pc = "idle" /\ IsToken(tfile[e])
  /\ imp' = [imp EXCEPT ![p] = [NoImport EXCEPT !.pc = "steps", !.e = e, !.id = id,
               !.token = tfile[e], !.text = tfile, !.alone = TRUE]]
  /\ UNCHANGED <<tool, tfile, vault, lines, known, asks, ren, tokens, latest, raced>>

\* npmcred::bound: the bindings file's text with the line added, worked out
\* before anything is written; a variable bound to another item is refused.
bound(p) ==
  LET v == variable(imp[p].e) IN
  /\ AtStep(p, "bound") /\ lines[v] \in {None, imp[p].id}
  /\ Advance(p, [imp[p] EXCEPT !.bound = [lines EXCEPT ![v] = imp[p].id]])
  /\ UNCHANGED <<tool, tfile, vault, lines, known, asks, tokens, latest, raced>>

\* Mutant: an import overwrites the item that already has the id.
create_or_replace(p) ==
  /\ AtStep(p, "create")
  /\ vault' = [vault EXCEPT ![imp[p].id] = imp[p].token]
  /\ Advance(p, imp[p])
  /\ UNCHANGED <<tool, tfile, lines, known, asks, tokens, latest, raced>>
\* create_value: a new item, never one that exists.
create_value(p) ==
  /\ AtStep(p, "create") /\ vault[imp[p].id] = None
  /\ vault' = [vault EXCEPT ![imp[p].id] = imp[p].token]
  /\ Advance(p, imp[p])
  /\ UNCHANGED <<tool, tfile, lines, known, asks, tokens, latest, raced>>

\* The item is opened again and must hold the token.
ReadBack(p) ==
  /\ AtStep(p, "read_back") /\ vault[imp[p].id] = imp[p].token
  /\ Advance(p, imp[p])
  /\ UNCHANGED <<tool, tfile, vault, lines, known, asks, tokens, latest, raced>>

\* The bindings file is written from the text bound() read, when that added a line.
bind(p) ==
  /\ AtStep(p, "bind")
  /\ lines' = imp[p].bound
  /\ Advance(p, imp[p])
  /\ UNCHANGED <<tool, tfile, vault, known, asks, tokens, latest, raced>>

remember(p) ==
  /\ AtStep(p, "remember") /\ known' = TRUE /\ Advance(p, imp[p])
  /\ UNCHANGED <<tool, tfile, vault, lines, asks, tokens, latest, raced>>

\* The tool's file is written from the text read at the start, without the
\* token.  Hugging Face: the stored tokens that are this one leave the stored
\* file, and then the active file goes when it held it.
rewritten(p) ==
  LET i == imp[p] IN
  IF tool = "huggingface"
  THEN [e \in Entries |-> IF e = Active THEN tfile[e]
          ELSE IF \A s \in Entries \ {Active} : i.text[s] # i.token THEN tfile[e]
          ELSE IF i.text[e] = i.token THEN None ELSE i.text[e]]
  ELSE [i.text EXCEPT ![i.e] = None]
Rewrite(p) ==
  /\ AtStep(p, "rewrite")
  /\ tfile' = rewritten(p)
  /\ Advance(p, [imp[p] EXCEPT !.gone = tool # "huggingface"])
  /\ UNCHANGED <<tool, vault, lines, known, asks, tokens, latest, raced>>
\* Mutant: the active Hugging Face token is left in its file.
KeepActive(p) ==
  /\ AtStep(p, "remove_active")
  /\ Advance(p, [imp[p] EXCEPT !.gone = TRUE])
  /\ UNCHANGED <<tool, tfile, vault, lines, known, asks, tokens, latest, raced>>
RemoveActive(p) ==
  /\ AtStep(p, "remove_active")
  /\ tfile' = IF imp[p].text[Active] = imp[p].token THEN [tfile EXCEPT ![Active] = None] ELSE tfile
  /\ Advance(p, [imp[p] EXCEPT !.gone = TRUE])
  /\ UNCHANGED <<tool, vault, lines, known, asks, tokens, latest, raced>>

\* npm, git and Docker read the file again first.
Reread(p) ==
  /\ AtStep(p, "reread")
  /\ Advance(p, [imp[p] EXCEPT !.text = tfile, !.config = asks])
  /\ UNCHANGED <<tool, tfile, vault, lines, known, asks, tokens, latest, raced>>
\* npm: the line that was read, and only it, becomes ${NAME}; git: it goes.
ReplaceLine(p, by) ==
  LET i == imp[p] IN
  /\ tfile' = [i.text EXCEPT ![i.e] = IF @ = i.token THEN by ELSE @]
  /\ Advance(p, [i EXCEPT !.gone = TRUE])
  /\ UNCHANGED <<tool, vault, lines, known, asks, tokens, latest, raced>>
Replace(p) == AtStep(p, "replace") /\ ReplaceLine(p, Ref)
Strike(p) == AtStep(p, "strike") /\ ReplaceLine(p, None)
\* Docker: the registry leaves auths, whatever is there now; auths and
\* credHelpers are one file.  Gone already is a refusal.
Cut(p) ==
  LET i == imp[p] IN
  /\ AtStep(p, "cut") /\ i.text[i.e] # None
  /\ tfile' = [i.text EXCEPT ![i.e] = None]
  /\ asks' = i.config
  /\ Advance(p, [i EXCEPT !.gone = TRUE])
  /\ UNCHANGED <<tool, vault, lines, known, tokens, latest, raced>>
\* kubectl config unset, by the user's name.
UnsetKey(p) ==
  /\ AtStep(p, "unset_key")
  /\ tfile' = [tfile EXCEPT ![imp[p].e] = None]
  /\ Advance(p, [imp[p] EXCEPT !.gone = TRUE])
  /\ UNCHANGED <<tool, vault, lines, known, asks, tokens, latest, raced>>

\* helper setup, for each tool: an AWS profile that still keeps a key, a
\* Terraform configuration naming another helper and a Cargo configuration
\* naming another provider are refused; the others replace what was asked.
aws_setup(e, id) == ~IsToken(tfile[e]) /\ asks' = [asks EXCEPT ![e] = id]
kube_setup(e, id) == asks' = [asks EXCEPT ![e] = id]
terraform_setup == (\A e \in Entries : asks[e] # Other) /\ asks' = [e \in Entries |-> Vault]
cargo_setup == (\A e \in Entries : asks[e] # Other) /\ asks' = [e \in Entries |-> Vault]
git_setup(e) == asks' = [asks EXCEPT ![e] = Vault]
docker_setup(e) == asks' = [asks EXCEPT ![e] = Vault]
\* helper unset: only this vault's own lines go, but git's setting and
\* Docker's entry go whoever they name.
Ours(e) == asks[e] \in Ids \cup {Vault}
aws_unset(e) == Ours(e) /\ asks' = [asks EXCEPT ![e] = None]
kube_unset(e) == Ours(e) /\ asks' = [asks EXCEPT ![e] = None]
terraform_unset == (\E e \in Entries : Ours(e)) /\ asks' = [e \in Entries |-> None]
cargo_unset == (\E e \in Entries : Ours(e)) /\ asks' = [e \in Entries |-> None]
git_unset(e) == asks[e] # None /\ asks' = [asks EXCEPT ![e] = None]
docker_unset(e) == asks[e] # None /\ asks' = [asks EXCEPT ![e] = None]

points(e, id) ==
  \/ tool = "aws" /\ aws_setup(e, id)
  \/ tool = "kube" /\ kube_setup(e, id)
  \/ tool = "terraform" /\ terraform_setup
  \/ tool = "cargo" /\ cargo_setup
  \/ tool = "git" /\ git_setup(e)
  \/ tool = "docker" /\ docker_setup(e)

SetUp(p) ==
  /\ AtStep(p, "setup") /\ points(imp[p].e, imp[p].id)
  /\ Advance(p, imp[p])
  /\ UNCHANGED <<tool, tfile, vault, lines, known, tokens, latest, raced>>
\* awscred: a setup that failed writes the credentials file back as it was read.  One
\* whose journal entry failed has written the config, and that stays.
PutBack(p) ==
  /\ AtStep(p, "setup") /\ tool = "aws"
  /\ tfile' = imp[p].text
  /\ asks' = asks \/ aws_setup(imp[p].e, imp[p].id)
  /\ imp' = [Disturb(p) EXCEPT ![p] = [Ended(p, "failed") EXCEPT !.gone = FALSE]]
  /\ ren' = Disturbed
  /\ UNCHANGED <<tool, vault, lines, known, tokens, latest, raced>>

\* The journal entry, and the answer; a journal that fails reports a failure
\* though the token has moved.
answer(p) ==
  /\ imp[p].pc = "journal"
  /\ \E end \in {"ok", "failed"} : imp' = [imp EXCEPT ![p] = Ended(p, end)]
  /\ UNCHANGED <<tool, tfile, vault, lines, known, asks, ren, tokens, latest, raced>>
\* Any step refused or failing, or the command dying: nothing is undone.
Stop(p) ==
  /\ Busy(p)
  /\ imp' = [imp EXCEPT ![p] = Ended(p, "failed")]
  /\ UNCHANGED <<tool, tfile, vault, lines, known, asks, ren, tokens, latest, raced>>
\* The tool's own sign-in writes a new token.  Docker and Terraform hand it to
\* the helper they ask, which refuses it.
Login(e) ==
  /\ tokens < MaxToken /\ ~(tool \in {"docker", "terraform"} /\ asks[e] = Vault)
  /\ tokens' = tokens + 1
  /\ tfile' = [tfile EXCEPT ![e] = tokens + 1]
  /\ latest' = [latest EXCEPT ![e] = tokens + 1]
  /\ raced' = IF \E p \in Importers : Busy(p) THEN raced \cup {tokens + 1} ELSE raced
  /\ imp' = Disturb(None) /\ ren' = Disturbed
  /\ UNCHANGED <<tool, vault, lines, known, asks>>

\* helper setup | unset, by hand.  An AWS or kubeconfig entry names an item
\* that opens.
setup(e, id) ==
  /\ tool \in {"aws", "kube"} => vault[id] # None
  /\ points(e, id) /\ asks' # asks
  /\ imp' = Disturb(None) /\ ren' = Disturbed
  /\ UNCHANGED <<tool, tfile, vault, lines, known, tokens, latest, raced>>
unset(e) ==
  /\ \/ tool = "aws" /\ aws_unset(e)
     \/ tool = "kube" /\ kube_unset(e)
     \/ tool = "terraform" /\ terraform_unset
     \/ tool = "cargo" /\ cargo_unset
     \/ tool = "git" /\ git_unset(e)
     \/ tool = "docker" /\ docker_unset(e)
  /\ imp' = Disturb(None) /\ ren' = Disturbed
  /\ UNCHANGED <<tool, tfile, vault, lines, known, tokens, latest, raced>>
\* bindings remember | forget.
remember_value ==
  /\ ~known /\ (\E v \in Variables : lines[v] # None) /\ known' = TRUE
  /\ imp' = Disturb(None) /\ ren' = Disturbed
  /\ UNCHANGED <<tool, tfile, vault, lines, asks, tokens, latest, raced>>
forget ==
  /\ known /\ known' = FALSE
  /\ imp' = Disturb(None) /\ ren' = Disturbed
  /\ UNCHANGED <<tool, tfile, vault, lines, asks, tokens, latest, raced>>

\* rename: the item moves in the vault, then what names it on this machine
\* follows, each part failing on its own and saying so.
rename_value(from, to) ==
  /\ ren.pc = "idle" /\ vault[from] # None /\ vault[to] = None
  /\ vault' = [vault EXCEPT ![to] = vault[from], ![from] = None]
  /\ ren' = [NoRename EXCEPT !.pc = "asks", !.from = from, !.to = to, !.alone = TRUE]
  /\ imp' = Disturb(None)
  /\ UNCHANGED <<tool, tfile, lines, known, asks, tokens, latest, raced>>
\* The AWS profiles and kubeconfig users whose command names an item.
profiles(id) == {e \in Entries : tool = "aws" /\ asks[e] = id}
users(id) == {e \in Entries : tool = "kube" /\ asks[e] = id}
\* awscred and kubecred follow_rename: every entry asking the old id is set up
\* with the new one, and one that cannot be is named.
follow_asks ==
  /\ ren.pc = "asks"
  /\ LET naming == profiles(ren.from) \cup users(ren.from) IN
     \E moved \in SUBSET naming :
       /\ tool = "aws" => \A e \in moved : ~IsToken(tfile[e])
       /\ asks' = [e \in Entries |-> IF e \in moved THEN ren.to ELSE asks[e]]
       /\ ren' = [ren EXCEPT !.pc = "read", !.ok = @ /\ moved = naming]
       /\ imp' = IF moved = {} THEN imp ELSE Disturb(None)
  /\ UNCHANGED <<tool, tfile, vault, lines, known, tokens, latest, raced>>
\* bindings::follow_rename: a known file is read, and written with every line of
\* the old id naming the new one.
follow_read ==
  /\ ren.pc = "read"
  /\ ren' = IF known THEN [ren EXCEPT !.pc = "write", !.read = lines] ELSE [ren EXCEPT !.pc = "answer"]
  /\ UNCHANGED <<tool, tfile, vault, lines, known, asks, imp, tokens, latest, raced>>
rebound(text, from, to) == [v \in Variables |-> IF text[v] = from THEN to ELSE text[v]]
rebind_file ==
  /\ ren.pc = "write"
  /\ \/ /\ lines' = IF \E v \in Variables : ren.read[v] = ren.from
                    THEN rebound(ren.read, ren.from, ren.to) ELSE lines
        /\ ren' = [ren EXCEPT !.pc = "answer", !.read = NoRename.read] /\ imp' = Disturb(None)
     \/ lines' = lines /\ ren' = [ren EXCEPT !.pc = "answer", !.read = NoRename.read, !.ok = FALSE] /\ UNCHANGED imp
  /\ UNCHANGED <<tool, tfile, vault, known, asks, tokens, latest, raced>>
\* The journal, and the answer; or the command dies anywhere on the way.
RenameEnds ==
  /\ ren.pc \notin {"idle", "done"}
  /\ \/ ren.pc = "answer" /\ ren' = [ren EXCEPT !.pc = "done"]
     \/ ren' = [ren EXCEPT !.pc = "done", !.read = NoRename.read, !.ok = FALSE]
  /\ UNCHANGED <<tool, tfile, vault, lines, known, asks, imp, tokens, latest, raced>>

ImportStep(p) ==
  \/ bound(p) \/ create_value(p) \/ ReadBack(p) \/ bind(p) \/ remember(p)
  \/ Rewrite(p) \/ RemoveActive(p) \/ Reread(p) \/ Replace(p) \/ Strike(p)
  \/ Cut(p) \/ UnsetKey(p) \/ SetUp(p) \/ PutBack(p) \/ answer(p) \/ Stop(p)

TNext ==
  \/ \E p \in Importers : ImportStep(p)
  \/ \E p \in Importers, e \in Entries, id \in Ids : import(p, e, id)
  \/ \E e \in Entries : Login(e) \/ unset(e)
  \/ \E e \in Entries, id \in Ids : setup(e, id)
  \/ remember_value \/ forget
  \/ \E from, to \in Ids : rename_value(from, to)
  \/ follow_asks \/ follow_read \/ rebind_file \/ RenameEnds

ToolSpec == TInit /\ [][TNext]_tvars

-----------------------------------------------------------------------------
\* What a program run for the entry is given when its file keeps no token: the
\* variable exec fills from the bindings file, or the helper's answer.
exec(e) == IF lines[variable(e)] = None THEN None ELSE vault[lines[variable(e)]]
\* The helpers' answers: the item a profile or a user names, or the login
\* offered on the host (git, Docker, Terraform and Cargo choose it alike).
aws_credential(e) == IF asks[e] \in Ids THEN {vault[asks[e]]} ELSE {}
kube_credential(e) == IF asks[e] \in Ids THEN {vault[asks[e]]} ELSE {}
login_get(e) == IF asks[e] = Vault THEN {vault[id] : id \in Ids} ELSE {}
helper_answers(e) == CASE tool = "aws" -> aws_credential(e)
                       [] tool = "kube" -> kube_credential(e)
                       [] OTHER -> login_get(e)
given(e, token) == IF tool_adapter.by = "env" THEN exec(e) = token ELSE token \in helper_answers(e)
\* doctor: every line of a known bindings file names an item.
problem(v) == lines[v] # None /\ vault[lines[v]] = None
bindings_files_check == known => \A v \in Variables : ~problem(v)

\* Type correctness of the model.
ToolTypeOK ==
  /\ tool \in Tools /\ known \in BOOLEAN
  /\ tfile \in [Entries -> (1..MaxToken) \cup {None, Ref}]
  /\ vault \in [Ids -> (1..MaxToken) \cup {None}]
  /\ lines \in [Variables -> Ids \cup {None}]
  /\ asks \in [Entries -> Ids \cup {None, Vault, Other}]
  /\ \A p \in Importers : imp[p].pc \in {"idle", "steps", "journal", "ok", "failed"}
  /\ ren.pc \in {"idle", "asks", "read", "write", "answer", "done"}
  /\ tokens \in 1..MaxToken /\ latest \in [Entries -> 1..tokens] /\ raced \subseteq 1..tokens

\* However imports of any of the tools interleave, fail or die, and whatever a
\* rename does beside them, the token of an entry's last sign-in is in the
\* tool's file or in an item, unless that sign-in fell between an import's
\* reading and writing the file (the text written back is then the older one).
TokenKeptSomewhere ==
  \A e \in Entries : latest[e] \in raced
    \/ tfile[e] = latest[e] \/ \E id \in Ids : vault[id] = latest[e]

\* An import that has taken the token out of the tool's file, even one that
\* dies right after, leaves the tool a way to it (ghcred/mod.rs and its
\* siblings: "and only then removes"), as long as nothing else has touched the
\* files since it began.  AWS, Terraform and Cargo point the tool at the vault
\* after the token is out, and promise it only of an import that answers.
OutMeansGiven ==
  \A p \in Importers :
    (imp[p].gone /\ imp[p].alone /\ (tool \in {"aws"} => imp[p].pc = "ok")
       /\ tool \notin {"terraform", "cargo"})
      => given(imp[p].e, imp[p].token)

\* An import that answered ok has left no plain copy of the token it moved in
\* the tool's files (hfcred: "removes every plain copy of that token").
AnsweredMeansMoved ==
  \A p \in Importers : imp[p].pc = "ok" /\ imp[p].alone
    => \A e \in Entries : tfile[e] # imp[p].token

\* A rename that answered ok leaves nothing on this machine naming the old id,
\* neither a line of a bindings file this host knows nor an entry's helper,
\* unless another command wrote those files while it ran.
RenameFollows ==
  ren.pc = "done" /\ ren.ok /\ ren.alone
    => (known => \A v \in Variables : lines[v] # ren.from) /\ \A e \in Entries : asks[e] # ren.from

\* A token stays where its owner or its tool can reach it, at every step of every
\* import, whichever adapter runs it and wherever it stops.
TokensInReach == ToolTypeOK /\ TokenKeptSomewhere /\ OutMeansGiven

\* What an import or a rename answered ok of is so: no plain copy, no old name.
AnswersHold == AnsweredMeansMoved /\ RenameFollows
=============================================================================
