---------------------------- MODULE Predecessors ----------------------------
\* The start of the declared unit: the Skarbiec units an older release left in
\* this user's launchd are taken over one after the other, the ports they
\* answered on are kept beside the vault and in the journal, and the process
\* then binds them.  Any step may fail, the process may die between two, and the
\* record may be unreadable for one start.  A unit answers on one port, named by
\* the unit.
EXTENDS Naturals, Sequences

CONSTANTS PREDECESSORS,  \* the retired units, in the order they are taken over
          SyncDaemon,    \* the unit whose arguments alone carry a bond's bearer
          NoRecord,      \* the ports record does not exist
          MaxStarts      \* bound: starts of the declared unit

Units == {PREDECESSORS[i] : i \in 1..Len(PREDECESSORS)}

ASSUME PredecessorsAssumption ==
  /\ PREDECESSORS \in Seq(Units) /\ SyncDaemon \in Units
  /\ (\A s \in SUBSET Units : s # NoRecord) /\ MaxStarts \in Nat

VARIABLES agent,      \* the units whose launch agent is in this user's folder
          running,    \* the units launchd runs
          bond,       \* the bond's serve channel names its bearer file
          ports,      \* <vault>.inherited-ports.json
          retired,    \* the ports the journal's unit-retired entries name
          boot,       \* the start under way, or the process serving
          starts,     \* starts so far
          owed        \* ports a start took over and kept for the next one

pvars == <<agent, running, bond, ports, retired, boot, starts, owed>>

Down == [pc |-> "down", at |-> 1, ports |-> {}, now |-> {}, recorded |-> TRUE,
         rewritable |-> TRUE, pid |-> FALSE, inherited |-> {}, bound |-> {}]

PInit ==
  /\ agent = Units /\ running \in SUBSET Units
  /\ bond = FALSE /\ ports = NoRecord /\ retired = {}
  /\ boot = Down /\ starts = 0 /\ owed = {}

Unit == PREDECESSORS[boot.at]
\* The next unit of the loop, or the end of it.
Onto(b) == IF b.at < Len(PREDECESSORS) THEN [b EXCEPT !.at = @ + 1, !.pc = "unit"]
           ELSE [b EXCEPT !.pc = "kept"]
\* A unit whose state cannot be read or changed is kept and the next one tried.
kept == boot' = Onto(boot)

\* remembered: the record, or the journal on a host that kept none yet.
remembered == [ports |-> IF ports = NoRecord THEN retired ELSE ports,
               recorded |-> ports # NoRecord]
\* retired_ports, asked when `remembered` fails: all the journal names, or nothing
\* when it cannot be read either.
retired_ports == {retired, {}}
\* A start that has its answer: the ports, whether they are to be recorded, and
\* whether the record may be written.
Begun(found, recorded, rewritable) ==
  [Down EXCEPT !.pc = "unit", !.ports = found, !.recorded = recorded, !.rewritable = rewritable]
\* The start of take_over: a record that cannot be read is left as it is.
Starts ==
  /\ boot.pc = "down" /\ starts < MaxStarts
  /\ starts' = starts + 1
  /\ \/ boot' = Begun(remembered.ports, remembered.recorded, TRUE)
     \/ \E journal \in retired_ports : boot' = Begun(journal, TRUE, FALSE)
  /\ UNCHANGED <<agent, running, bond, ports, retired, owed>>

\* running_pid and program_arguments: a unit with no launch agent here is none of
\* this process's.
running_pid ==
  /\ boot.pc = "unit"
  /\ \/ kept
     \/ Unit \in agent /\ boot' = [boot EXCEPT !.pc = "bond", !.pid = Unit \in running]
  /\ UNCHANGED <<agent, running, bond, ports, retired, starts, owed>>
\* Mutant: a bond that could not be recorded is only said.
adopt_or_say ==
  /\ boot.pc = "bond"
  /\ boot' = [boot EXCEPT !.pc = "ports"]
  /\ bond' \in {bond, bond \/ Unit = SyncDaemon}
  /\ UNCHANGED <<agent, running, ports, retired, starts, owed>>
\* adopt_replica_bond: a bond that names its bearer already is left as it is.
adopt_replica_bond ==
  /\ boot.pc = "bond"
  /\ \/ Unit # SyncDaemon /\ boot' = [boot EXCEPT !.pc = "ports"] /\ UNCHANGED bond
     \/ Unit = SyncDaemon /\ boot' = [boot EXCEPT !.pc = "ports"] /\ bond' = TRUE
     \/ Unit = SyncDaemon /\ kept /\ bond' \in {bond, TRUE}
  /\ UNCHANGED <<agent, running, ports, retired, starts, owed>>
\* listening_ports: of the process launchd named; one that exited serves none.
listening_ports ==
  /\ boot.pc = "ports"
  /\ \/ boot' = [boot EXCEPT !.pc = "job",
                  !.inherited = IF boot.pid /\ Unit \in running THEN {Unit} ELSE {}]
     \/ boot.pid /\ kept
  /\ UNCHANGED <<agent, running, bond, ports, retired, starts, owed>>
\* remove_job: launchd stops the unit and forgets it; a refusal keeps a unit that
\* was running.
remove_job ==
  /\ boot.pc = "job"
  /\ \/ running' = running \ {Unit} /\ boot' = [boot EXCEPT !.pc = "agent"]
     \/ ~boot.pid /\ boot' = [boot EXCEPT !.pc = "agent"] /\ UNCHANGED running
     \/ boot.pid /\ kept /\ UNCHANGED running
  /\ UNCHANGED <<agent, bond, ports, retired, starts, owed>>
\* The launch agent is removed and the retirement journalled; each may fail and
\* is only said.
retire ==
  /\ boot.pc = "agent"
  /\ agent' \in {agent, agent \ {Unit}}
  /\ boot' = [boot EXCEPT !.pc = "journal"]
  /\ UNCHANGED <<running, bond, ports, retired, starts, owed>>
journalled ==
  /\ boot.pc = "journal"
  /\ retired' \in {retired, retired \cup boot.inherited}
  /\ boot' = Onto([boot EXCEPT !.now = @ \cup boot.inherited, !.inherited = {}])
  /\ UNCHANGED <<agent, running, bond, ports, starts, owed>>

\* remember: the record grows by what was retired now, unless it could not be
\* read; a failed write is only said.
remember ==
  /\ boot.pc = "kept"
  /\ boot' = [boot EXCEPT !.pc = "bind", !.ports = @ \cup boot.now]
  /\ LET all == boot.ports \cup boot.now
         write == boot.rewritable /\ (~(boot.now \subseteq boot.ports) \/ ~boot.recorded)
     IN \/ write /\ ports' = all /\ owed' = owed \cup all
        \/ UNCHANGED <<ports, owed>>
  /\ UNCHANGED <<agent, running, bond, retired, starts>>
\* dispatch "serve": its own port must bind; an inherited one another process
\* holds is only said.
bind ==
  /\ boot.pc = "bind"
  /\ \E others \in SUBSET boot.ports :
       boot' = [boot EXCEPT !.pc = "serving",
                            !.bound = {p \in boot.ports \ others : p \notin running}]
  /\ UNCHANGED <<agent, running, bond, ports, retired, starts, owed>>

\* The process ends: a crash inside the start, an install, a reboot.  launchd
\* runs a unit again whose launch agent is still here.
Ends ==
  /\ boot.pc # "down" /\ boot' = Down
  /\ running' \in {running, running \cup agent}
  /\ UNCHANGED <<agent, bond, ports, retired, starts, owed>>
UnitExits ==
  /\ \E u \in running : running' = running \ {u}
  /\ UNCHANGED <<agent, bond, ports, retired, boot, starts, owed>>

take_over ==
  \/ running_pid \/ adopt_replica_bond \/ listening_ports \/ remove_job \/ retire \/ journalled
PNext == Starts \/ take_over \/ remember \/ bind \/ Ends \/ UnitExits
PSpec == PInit /\ [][PNext]_pvars

-----------------------------------------------------------------------------
\* The ports a start kept are tried by every later start that reads its record,
\* whatever failed or died in between (inherited.rs: "every later start of the
\* declared unit [answers] where the first one did"): a start that could not
\* read the record never shortens it.
KeptPortsTried ==
  boot.pc \in {"bind", "serving"} /\ boot.rewritable => owed \subseteq boot.ports

\* The bearer a sync-daemon carried only in its arguments is never lost: its
\* launch agent goes after the bond names it.
BearerKept == SyncDaemon \notin agent => bond

\* Taking over an earlier release's unit, through starts that die or fail at any
\* step, loses neither where its clients call nor what it was trusted with.
TakeOverLosesNothing == KeptPortsTried /\ BearerKept
=============================================================================
