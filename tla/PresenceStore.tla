---------------------------- MODULE PresenceStore ----------------------------
(***************************************************************************)
(* The presence of one room as Redis keeps it (backend/redis_presence.go): *)
(* a hash of members, a sorted set of lease expiries, a revision counter   *)
(* and a stream of change notifications.  Each Lua script is atomic and is *)
(* one operator.                                                           *)
(*                                                                         *)
(* A member is a connection: its record is not told apart from its         *)
(* connectionId, sixteen random bytes that never recur.  Time is what is   *)
(* left of a lease, counted down by Tick; an expired lease and a missing   *)
(* one are both 0, as every script treats them alike.                      *)
(***************************************************************************)
EXTENDS Naturals, Sequences

CONSTANTS
  Conns,        \* connections, by connectionId
  Lease         \* the ticks a lease lasts

ASSUME LeaseAssumption == Lease \in Nat \ {0}

VARIABLES
  registry,     \* the four keys of the room
  past          \* history, for the properties: the members at each revision

storeVars == <<registry, past>>

StoreInit ==
  /\ registry = [members |-> {}, lease |-> [c \in Conns |-> 0],
                 revision |-> 0, changes |-> 0]
  /\ past = <<>>

(* The members at revision r; a room nobody joined is at revision 0.       *)
MembersAt(r) == IF r = 0 THEN {} ELSE past[r]

(* INCR of the revision and XADD of its notification, with the new hash    *)
(* and leases.                                                             *)
Publish(members, lease) ==
  /\ registry' = [members |-> members, lease |-> lease,
                  revision |-> registry.revision + 1,
                  changes  |-> registry.changes + 1]
  /\ past' = Append(past, members)

LeaseOf(c, ticks) == [registry.lease EXCEPT ![c] = ticks]

JoinScript(c) ==
  IF c \in registry.members THEN UNCHANGED storeVars
  ELSE Publish(registry.members \cup {c}, LeaseOf(c, Lease))

LeaveScript(c) ==
  IF c \in registry.members
  THEN Publish(registry.members \ {c}, LeaseOf(c, 0))
  ELSE /\ registry' = [registry EXCEPT !.lease = LeaseOf(c, 0)]
       /\ UNCHANGED past

(* A renewal succeeds for a member whose lease still runs.                 *)
Renews(c) == c \in registry.members /\ registry.lease[c] > 0

\* Faulty: a renewal adds to what is left of the lease.
RenewAdding(c) ==
  /\ registry' = IF Renews(c)
                 THEN [registry EXCEPT !.lease[c] = @ + Lease] ELSE registry
  /\ UNCHANGED past

\* Faulty: a member whose lease ran out is put back.
RenewOrRejoin(c) ==
  IF Renews(c)
  THEN registry' = [registry EXCEPT !.lease = LeaseOf(c, Lease)] /\ UNCHANGED past
  ELSE Publish(registry.members \cup {c}, LeaseOf(c, Lease))

(* A renewal announces nothing.                                            *)
RenewScript(c) ==
  /\ registry' = IF Renews(c)
                 THEN [registry EXCEPT !.lease = LeaseOf(c, Lease)] ELSE registry
  /\ UNCHANGED past

Expired == {c \in registry.members : registry.lease[c] = 0}

\* Faulty: expired members go without a new revision.
PruneQuietly ==
  /\ registry' = [registry EXCEPT !.members = @ \ Expired]
  /\ UNCHANGED past

(* prunePresenceBody, the cleanup of every sweep and of every snapshot.    *)
PruneScript ==
  IF Expired = {} THEN UNCHANGED storeVars
  ELSE Publish(registry.members \ Expired, registry.lease)

(* What presenceSnapshotScript returns once it has pruned.                 *)
CurrentPresence == [revision |-> registry.revision, members |-> registry.members]

(* The clock of Redis moves on.                                            *)
Tick ==
  /\ \E c \in Conns : registry.lease[c] > 0
  /\ registry' = [registry EXCEPT !.lease =
       [c \in Conns |-> IF @[c] > 0 THEN @[c] - 1 ELSE 0]]
  /\ UNCHANGED past
-----------------------------------------------------------------------------
PresenceSnapshot == [revision : Nat, members : SUBSET Conns]

(* The keys have the types the scripts give them.                          *)
RegistryTypeOK ==
  /\ registry \in [members : SUBSET Conns, lease : [Conns -> 0 .. Lease],
                   revision : Nat, changes : Nat]
  /\ past \in Seq(SUBSET Conns)
=============================================================================
