------------------------------- MODULE MCItems -------------------------------
(* Revisions and readers of items, for TLC. *)
EXTENDS MCVaultItems

\* Two explorations in one run: the revisions of two items of one owner and one
\* authority over two seconds, and the readers of one item, whose people come, go
\* and change keys within one second.
VARIABLE reading

Revised(id) ==
  \/ \E at \in 0..MaxClock : ForgetVersions(id, at)
  \/ \E other \in Ids, v1 \in Values, v2 \in Values : Import(id, other, v1, v2)
  \/ \E to \in Ids : Rename(id, to)
  \/ \E who \in Agents : TrashManaged(id, who)
  \/ \E v \in Values, who \in Agents, op \in Ops : Stage(id, v, who, op)
  \/ \E who \in Agents, op \in Ops : Activate(id, who, op) \/ Discard(id, who, op)
Read(id) ==
  \/ \E v \in Values, who \in Uids : Accept(id, v, who)
  \/ \E v \in Values, tag \in BOOLEAN, uid \in 0..minted : Migrate(id, v, tag, uid)
  \/ Retag(id) \/ Reclaim(id) \/ RekeyItem(id) \/ RekeySkip(id)
  \/ \E who \in Uids : Share(id, who) \/ Revoke(id, who)
Written(id) ==
  \/ \E v \in Values, uids \in SUBSET Uids : Set(id, v, uids)
  \/ \E v \in Values, uids \in SUBSET Uids, who \in Agents, op \in Ops :
       SetManagedItem(id, v, uids, who, op)
  \/ \E at \in 0..MaxClock : RestoreVersion(id, at)
  \/ Delete(id) \/ RestoreItem(id) \/ Purge(id)

MCInit == Init /\ reading \in BOOLEAN
MCNext ==
  /\ UNCHANGED reading
  /\ \/ ~reading /\ (Tick \/ \E id \in Ids : Written(id) \/ Revised(id))
     \/ /\ reading
        /\ \/ \E id \in Ids : (\A other \in Ids \ {id} : ~Held(other)) /\ (Written(id) \/ Read(id))
           \/ RegistryStep
MCSpec == MCInit /\ [][MCNext]_<<vars, reading>>
=============================================================================
