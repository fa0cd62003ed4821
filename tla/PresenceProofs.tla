--------------------------- MODULE PresenceProofs ---------------------------
(***************************************************************************)
(* The safety of Presence for any number of backends, connections and      *)
(* pages, any lease and any faults.                                        *)
(*                                                                         *)
(* StoreInv is what the scripts of Redis keep among themselves; a snapshot *)
(* that was truthful stays so because a script only appends to the history *)
(* (Kept).  A connection that has not joined is in no revision (Unjoined), *)
(* which is what keeps a late join from being a second one.                *)
(***************************************************************************)
EXTENDS Presence, FiniteSetTheorems, TLAPS

Never(c) == \A i \in 1 .. Len(past) : c \notin past[i]

StoreInv ==
  /\ RegistryTypeOK
  /\ Len(past) = registry.revision
  /\ registry.changes = registry.revision
  /\ Truthful(CurrentPresence)
  /\ NoResurrection

Unjoined ==
  \A c \in Conns : conn[c].pc \in {"new", "join"} => Never(c)

Unused ==
  \A c \in Conns : conn[c].pc = "new" =>
    /\ conn[c].told = -1 /\ conn[c].sock = "none" /\ ~due[c]
    /\ \A b \in Backends : c \notin clients[b] /\ c \notin watch[b].left

IInv ==
  /\ StoreInv
  /\ PresenceTypeOK
  /\ RevisionNamesMembers
  /\ Unjoined
  /\ Unused

(* The history only grows.                                                 *)
Kept ==
  /\ registry.revision <= registry'.revision
  /\ \A r \in 0 .. registry.revision : MembersAt(r)' = MembersAt(r)

-----------------------------------------------------------------------------
(* A change publishes a list that adds only connections that were never    *)
(* members: the invariant of the store is kept, the history only grows,    *)
(* and who was never a member and is not in the list still is not.         *)
LEMMA PublishKeeps ==
  ASSUME StoreInv, NEW S \in SUBSET Conns, NEW lease \in [Conns -> 0 .. Lease],
         Publish(S, lease), \A c \in S : c \in registry.members \/ Never(c)
  PROVE  /\ StoreInv' /\ Kept
         /\ \A d \in Conns : Never(d) /\ d \notin S => Never(d)'
<1> DEFINE n == Len(past)
<1>1. /\ past' = Append(past, S) /\ past \in Seq(SUBSET Conns)
      /\ registry.revision = n /\ n \in Nat
  BY DEF StoreInv, RegistryTypeOK, Publish
<1>2. /\ Len(past') = n + 1 /\ past'[n + 1] = S
      /\ \A i \in 1 .. n : past'[i] = past[i]
      /\ past' \in Seq(SUBSET Conns)
  BY <1>1
<1>3. /\ registry' = [members |-> S, lease |-> lease, revision |-> n + 1,
                      changes |-> n + 1]
  BY <1>1 DEF Publish, StoreInv
<1>4. RegistryTypeOK'
  BY <1>1, <1>2, <1>3 DEF RegistryTypeOK
<1>5. Truthful(CurrentPresence)'
  BY <1>1, <1>2, <1>3 DEF Truthful, CurrentPresence, MembersAt
<1>6. Kept
  BY <1>1, <1>2, <1>3 DEF Kept, MembersAt
<1>7. ASSUME NEW d \in Conns, Never(d), d \notin S PROVE Never(d)'
  BY <1>1, <1>2, <1>7 DEF Never
<1>8. ASSUME n > 0 PROVE registry.members = past[n]
  BY <1>1, <1>8 DEF StoreInv, Truthful, CurrentPresence, MembersAt
<1>9. NoResurrection'
  <2> SUFFICES ASSUME NEW c \in Conns, NEW k \in 1 .. n + 1, NEW i \in 1 .. k,
                      NEW j \in i .. k, c \in past'[i], c \notin past'[j]
               PROVE  c \notin past'[k]
    BY <1>2 DEF NoResurrection
  <2>1. CASE k \in 1 .. n
    <3>1. /\ past'[i] = past[i] /\ past'[j] = past[j] /\ past'[k] = past[k]
      BY <1>1, <1>2, <2>1
    <3> QED  BY <3>1, <2>1 DEF StoreInv, NoResurrection
  <2>2. CASE k = n + 1
    <3> SUFFICES ASSUME c \in S PROVE FALSE
      BY <1>2, <2>2
    <3>1. i # n + 1 /\ j # n + 1
      BY <1>1, <1>2, <2>2
    <3>2. i \in 1 .. n /\ j \in i .. n /\ n > 0
      BY <3>1, <2>2, <1>1
    <3>3. c \in past[i] /\ c \notin past[j]
      BY <3>2, <1>1, <1>2
    <3>4. ~Never(c)
      BY <3>2, <3>3, <1>1 DEF Never
    <3>5. c \in past[n]
      BY <3>4, <1>8, <3>2
    <3> QED  BY <3>2, <3>3, <3>5, <1>1 DEF StoreInv, NoResurrection
  <2> QED  BY <2>1, <2>2, <1>1
<1> QED
  BY <1>1, <1>2, <1>3, <1>4, <1>5, <1>6, <1>7, <1>9 DEF StoreInv

(* A script that publishes nothing changes leases at most.                 *)
LEMMA QuietKeeps ==
  ASSUME StoreInv, NEW lease \in [Conns -> 0 .. Lease], UNCHANGED past,
         registry' = [registry EXCEPT !.lease = lease]
  PROVE  StoreInv' /\ Kept /\ \A d \in Conns : Never(d) => Never(d)'
<1>1. /\ registry'.members = registry.members
      /\ registry'.revision = registry.revision
      /\ registry'.changes = registry.changes
      /\ RegistryTypeOK'
  BY DEF StoreInv, RegistryTypeOK
<1> QED
  BY <1>1 DEF StoreInv, Kept, Truthful, CurrentPresence, MembersAt,
              NoResurrection, Never, RegistryTypeOK

LEMMA SameKeeps ==
  ASSUME StoreInv, UNCHANGED storeVars
  PROVE  StoreInv' /\ Kept /\ \A d \in Conns : Never(d) => Never(d)'
BY DEF storeVars, StoreInv, RegistryTypeOK, Kept, Truthful, CurrentPresence,
       MembersAt, NoResurrection, Never

-----------------------------------------------------------------------------
\* The scripts

LEMMA LeaseInRange ==
  ASSUME StoreInv, NEW c \in Conns, NEW ticks \in {0, Lease}
  PROVE  LeaseOf(c, ticks) \in [Conns -> 0 .. Lease]
BY LeaseAssumption DEF StoreInv, RegistryTypeOK, LeaseOf

LEMMA JoinKeeps ==
  ASSUME StoreInv, NEW c \in Conns, Never(c), JoinScript(c)
  PROVE  StoreInv' /\ Kept /\ \A d \in Conns \ {c} : Never(d) => Never(d)'
<1>1. CASE c \in registry.members
  BY <1>1, SameKeeps DEF JoinScript
<1>2. CASE c \notin registry.members
  <2>1. /\ Publish(registry.members \cup {c}, LeaseOf(c, Lease))
        /\ registry.members \cup {c} \in SUBSET Conns
        /\ LeaseOf(c, Lease) \in [Conns -> 0 .. Lease]
    BY <1>2, LeaseInRange DEF JoinScript, StoreInv, RegistryTypeOK
  <2>2. \A d \in Conns : Never(d) => d \notin registry.members
    BY DEF StoreInv, Truthful, CurrentPresence, MembersAt, Never, RegistryTypeOK
  <2> QED  BY <2>1, <2>2, PublishKeeps
<1> QED  BY <1>1, <1>2

LEMMA NeverAMember ==
  ASSUME StoreInv, NEW d \in Conns, Never(d)
  PROVE  d \notin registry.members
BY DEF StoreInv, Truthful, CurrentPresence, MembersAt, Never, RegistryTypeOK

LEMMA LeaveKeeps ==
  ASSUME StoreInv, NEW c \in Conns, LeaveScript(c)
  PROVE  StoreInv' /\ Kept /\ \A d \in Conns : Never(d) => Never(d)'
<1>1. CASE c \in registry.members
  <2>1. /\ Publish(registry.members \ {c}, LeaseOf(c, 0))
        /\ registry.members \ {c} \in SUBSET Conns
        /\ LeaseOf(c, 0) \in [Conns -> 0 .. Lease]
    BY <1>1, LeaseInRange DEF LeaveScript, StoreInv, RegistryTypeOK
  <2> QED  BY <2>1, NeverAMember, PublishKeeps
<1>2. CASE c \notin registry.members
  BY <1>2, LeaseInRange, QuietKeeps DEF LeaveScript
<1> QED  BY <1>1, <1>2

LEMMA RenewKeeps ==
  ASSUME StoreInv, NEW c \in Conns, RenewScript(c)
  PROVE  StoreInv' /\ Kept /\ \A d \in Conns : Never(d) => Never(d)'
<1>1. CASE Renews(c)
  BY <1>1, LeaseInRange, QuietKeeps DEF RenewScript
<1>2. CASE ~Renews(c)
  BY <1>2, SameKeeps DEF RenewScript, storeVars
<1> QED  BY <1>1, <1>2

LEMMA PruneKeeps ==
  ASSUME StoreInv, PruneScript
  PROVE  StoreInv' /\ Kept /\ \A d \in Conns : Never(d) => Never(d)'
<1>1. CASE Expired = {}
  BY <1>1, SameKeeps DEF PruneScript
<1>2. CASE Expired # {}
  <2>1. /\ Publish(registry.members \ Expired, registry.lease)
        /\ registry.members \ Expired \in SUBSET Conns
        /\ registry.lease \in [Conns -> 0 .. Lease]
    BY <1>2 DEF PruneScript, StoreInv, RegistryTypeOK
  <2> QED  BY <2>1, NeverAMember, PublishKeeps
<1> QED  BY <1>1, <1>2

LEMMA TickKeeps ==
  ASSUME StoreInv, Tick
  PROVE  StoreInv' /\ Kept /\ \A d \in Conns : Never(d) => Never(d)'
<1> DEFINE lease == [c \in Conns |-> IF registry.lease[c] > 0
                                     THEN registry.lease[c] - 1 ELSE 0]
<1>1. lease \in [Conns -> 0 .. Lease]
  BY LeaseAssumption DEF StoreInv, RegistryTypeOK
<1>2. UNCHANGED past /\ registry' = [registry EXCEPT !.lease = lease]
  BY DEF Tick, StoreInv, RegistryTypeOK
<1> QED  BY <1>1, <1>2, QuietKeeps

-----------------------------------------------------------------------------
\* The steps

Sourced ==
  /\ \A b \in Backends : watch'[b].snap \in {watch[b].snap, NoPresence, CurrentPresence'}
  /\ \A c \in Conns : conn'[c].snap \in {conn[c].snap, NoPresence, CurrentPresence'}
  /\ \A p \in Pages :
       \/ screen'[p] = screen[p]
       \/ \E c \in Conns : screen'[p] = conn[c].snap
       \/ \E b \in Backends : screen'[p] = watch[b].snap

Enrolled ==
  \A c \in Conns : conn'[c].pc \in {"new", "join"} =>
    /\ conn[c].pc \in {"new", "join"}
    /\ Never(c) => Never(c)'

(* A snapshot in hand after a step was in hand before it, or was just      *)
(* read.                                                                   *)
LEMMA StepKeeps ==
  ASSUME IInv, StoreInv', Kept, PresenceTypeOK', Sourced, Enrolled, Unused'
  PROVE  IInv'
<1>1. \A s \in PresenceSnapshot :
        s.revision <= registry.revision /\ s.members = MembersAt(s.revision) =>
          s.revision <= registry'.revision /\ s.members = MembersAt(s.revision)'
  <2>1. registry.revision \in Nat /\ registry'.revision \in Nat
    BY DEF IInv, StoreInv, RegistryTypeOK
  <2> QED  BY <2>1 DEF Kept, PresenceSnapshot
<1>2. /\ CurrentPresence'.revision <= registry'.revision
      /\ CurrentPresence'.members = MembersAt(CurrentPresence.revision)'
  BY DEF StoreInv, Truthful
<1>3. /\ NoPresence.revision <= registry'.revision
      /\ NoPresence.members = MembersAt(NoPresence.revision)'
  BY DEF StoreInv, RegistryTypeOK, NoPresence, MembersAt
<1>4. ASSUME NEW b \in Backends PROVE Truthful(watch[b].snap)'
  <2>1. watch[b].snap \in PresenceSnapshot /\ Truthful(watch[b].snap)
    BY DEF IInv, PresenceTypeOK, WatchType, RevisionNamesMembers
  <2>2. watch'[b].snap \in {watch[b].snap, NoPresence, CurrentPresence'}
    BY DEF Sourced
  <2> QED  BY <1>1, <1>2, <1>3, <2>1, <2>2 DEF Truthful
<1>5. ASSUME NEW c \in Conns PROVE Truthful(conn[c].snap)'
  <2>1. conn[c].snap \in PresenceSnapshot /\ Truthful(conn[c].snap)
    BY DEF IInv, PresenceTypeOK, ConnType, RevisionNamesMembers
  <2>2. conn'[c].snap \in {conn[c].snap, NoPresence, CurrentPresence'}
    BY DEF Sourced
  <2> QED  BY <1>1, <1>2, <1>3, <2>1, <2>2 DEF Truthful
<1>6. ASSUME NEW p \in Pages, screen'[p].revision # -1 PROVE Truthful(screen[p])'
  <2>1. \/ screen'[p] = screen[p]
        \/ \E c \in Conns : screen'[p] = conn[c].snap
        \/ \E b \in Backends : screen'[p] = watch[b].snap
    BY DEF Sourced
  <2>2. CASE screen'[p] = screen[p]
    <3>1. Truthful(screen[p]) /\ screen[p] \in PresenceSnapshot
      BY <1>6, <2>2 DEF IInv, PresenceTypeOK, RevisionNamesMembers, PresenceSnapshot
    <3> QED  BY <1>1, <2>2, <3>1 DEF Truthful
  <2>3. ASSUME NEW c \in Conns, screen'[p] = conn[c].snap PROVE Truthful(screen[p])'
    <3>1. Truthful(conn[c].snap) /\ conn[c].snap \in PresenceSnapshot
      BY DEF IInv, PresenceTypeOK, ConnType, RevisionNamesMembers
    <3> QED  BY <1>1, <2>3, <3>1 DEF Truthful
  <2>4. ASSUME NEW b \in Backends, screen'[p] = watch[b].snap PROVE Truthful(screen[p])'
    <3>1. Truthful(watch[b].snap) /\ watch[b].snap \in PresenceSnapshot
      BY DEF IInv, PresenceTypeOK, WatchType, RevisionNamesMembers
    <3> QED  BY <1>1, <2>4, <3>1 DEF Truthful
  <2> QED  BY <2>1, <2>2, <2>3, <2>4
<1>7. RevisionNamesMembers'
  BY <1>4, <1>5, <1>6 DEF RevisionNamesMembers, StoreInv
<1>8. Unjoined'
  BY DEF Enrolled, Unjoined, IInv
<1> QED  BY <1>7, <1>8 DEF IInv

(* A failing command runs its script or not.                               *)
LEMMA FailsKeeps ==
  ASSUME IInv, faults' = faults + 1
  PROVE  faults' \in Nat
BY DEF IInv, PresenceTypeOK

LEMMA InitIInv == Init => IInv
<1> SUFFICES ASSUME Init PROVE IInv
  OBVIOUS
<1> USE DEF Init, StoreInit
<1>1. RegistryTypeOK
  BY LeaseAssumption DEF RegistryTypeOK
<1>2. StoreInv
  BY <1>1 DEF StoreInv, Truthful, CurrentPresence, MembersAt, NoResurrection
<1>3. PresenceTypeOK
  BY <1>1 DEF PresenceTypeOK, NoWatch, NoConn, NoPresence, WatchType, ConnType,
              PresenceSnapshot, Pcs, Leaving
<1>4. RevisionNamesMembers
  <2>1. Truthful(NoPresence)
    BY DEF Truthful, NoPresence, MembersAt
  <2>2. /\ \A b \in Backends : watch[b].snap = NoPresence
        /\ \A c \in Conns : conn[c].snap = NoPresence
        /\ \A p \in Pages : screen[p].revision = -1
    BY DEF NoWatch, NoConn
  <2> QED  BY <1>2, <2>1, <2>2 DEF RevisionNamesMembers, StoreInv
<1>5. Unjoined /\ Unused
  BY DEF Unjoined, Unused, Never, NoConn, NoWatch
<1> QED  BY <1>2, <1>3, <1>4, <1>5 DEF IInv

(* What a step does to one connection.                                     *)
ConnStep(c, k) ==
  /\ conn' = [conn EXCEPT ![c] = k]
  /\ k \in ConnType
  /\ k.snap \in {conn[c].snap, NoPresence, CurrentPresence'}
  /\ k.pc # "new"
  /\ k.pc = "join" => conn[c].pc \in {"new", "join"}

LEMMA ConnKeeps ==
  ASSUME IInv, NEW c \in Conns, NEW k, ConnStep(c, k)
  PROVE  /\ conn' \in [Conns -> ConnType]
         /\ \A d \in Conns : conn'[d].snap \in {conn[d].snap, NoPresence, CurrentPresence'}
         /\ \A d \in Conns : conn'[d].pc \in {"new", "join"} =>
                                 conn[d].pc \in {"new", "join"}
         /\ \A d \in Conns : d # c => conn'[d] = conn[d]
         /\ conn'[c] = k
<1>1. conn \in [Conns -> ConnType]
  BY DEF IInv, PresenceTypeOK
<1>2. /\ conn' \in [Conns -> ConnType] /\ conn'[c] = k
      /\ \A d \in Conns : d # c => conn'[d] = conn[d]
  BY <1>1 DEF ConnStep
<1> QED  BY <1>2 DEF ConnStep

(* Steps that run no script, or none that could enrol a connection.        *)
LEMMA QuietStepKeeps ==
  ASSUME IInv, NEW c \in Conns, NEW k, ConnStep(c, k),
         StoreInv' /\ Kept /\ \A d \in Conns : Never(d) => Never(d)',
         down' \subseteq Backends, clients' \in [Backends -> SUBSET Conns],
         watch' = watch, due' \in [Conns -> BOOLEAN], screen' = screen,
         faults' \in Nat, \A d \in Conns : due'[d] => due[d] \/ conn[d].pc # "new",
         \A b \in Backends : clients'[b] \subseteq clients[b] \cup {c}
  PROVE  IInv'
<1>1. PresenceTypeOK'
  BY ConnKeeps DEF IInv, PresenceTypeOK, StoreInv
<1>2. Sourced /\ Enrolled
  BY ConnKeeps DEF Sourced, Enrolled
<1>3. Unused'
  <2> SUFFICES ASSUME NEW d \in Conns, conn'[d].pc = "new"
               PROVE  /\ conn'[d].told = -1 /\ conn'[d].sock = "none" /\ ~due'[d]
                      /\ \A b \in Backends : d \notin clients'[b] /\ d \notin watch'[b].left
    BY DEF Unused
  <2>1. d # c /\ conn'[d] = conn[d]
    BY ConnKeeps DEF ConnStep
  <2> QED  BY <2>1 DEF IInv, Unused
<1> QED  BY <1>1, <1>2, <1>3, StepKeeps

(* Steps that leave the connections alone.                                 *)
LEMMA ProcessStepKeeps ==
  ASSUME IInv, StoreInv' /\ Kept /\ \A d \in Conns : Never(d) => Never(d)',
         UNCHANGED <<down, clients, conn, screen>>,
         watch' \in [Backends -> WatchType],
         \A b \in Backends : watch'[b].snap \in {watch[b].snap, NoPresence, CurrentPresence'},
         due' \in [Conns -> BOOLEAN], faults' \in Nat,
         \A d \in Conns : due'[d] => due[d] \/ conn[d].pc # "new",
         \A b \in Backends : watch'[b].left \subseteq watch[b].left \cup clients[b]
  PROVE  IInv'
<1>1. PresenceTypeOK'
  BY DEF IInv, PresenceTypeOK, StoreInv
<1>2. Sourced /\ Enrolled /\ Unused'
  BY DEF Sourced, Enrolled, Unused, IInv
<1> QED  BY <1>1, <1>2, StepKeeps

-----------------------------------------------------------------------------
\* serveWS

LEMMA ConnectInv ==
  ASSUME IInv, NEW c \in Conns, NEW b \in Backends, Connect(c, b)
  PROVE  IInv'
<1> DEFINE added == {d \in Conns : conn[d].ticket > 0}
           k == [NoConn EXCEPT !.pc = "join", !.home = b, !.sock = "open",
                               !.ticket = Cardinality(added) + 1]
<1>0. Cardinality(added) + 1 \in Nat
  <2>1. IsFiniteSet(added)
    BY PresenceAssumption, FS_Subset
  <2>2. Cardinality(added) \in Nat
    BY <2>1, FS_CardinalityType
  <2> QED  BY <2>2
<1>1. StoreInv' /\ Kept /\ \A d \in Conns : Never(d) => Never(d)'
  BY SameKeeps DEF IInv, Connect, storeVars
<1>2. ConnStep(c, k)
  BY <1>0 DEF ConnStep, Connect, IInv, Unused, PresenceTypeOK, ConnType, PresenceSnapshot, Pcs, Leaving, NoConn, NoPresence
<1>3. /\ down' \subseteq Backends /\ clients' \in [Backends -> SUBSET Conns]
      /\ watch' = watch /\ due' \in [Conns -> BOOLEAN] /\ screen' = screen
      /\ faults' \in Nat
      /\ \A d \in Conns : due'[d] => due[d] \/ conn[d].pc # "new"
      /\ \A a \in Backends : clients'[a] \subseteq clients[a] \cup {c}
  BY DEF IInv, PresenceTypeOK, Connect
<1> HIDE DEF k
<1> QED  BY <1>1, <1>2, <1>3, QuietStepKeeps

LEMMA GetInitialPresenceInv ==
  ASSUME IInv, NEW c \in Conns, GetInitialPresence(c)
  PROVE  IInv'
<1> DEFINE k == [conn[c] EXCEPT !.pc = "announce", !.snap = CurrentPresence']
<1>1. StoreInv' /\ Kept /\ \A d \in Conns : Never(d) => Never(d)'
  BY PruneKeeps DEF IInv, GetInitialPresence
<1>2. ConnStep(c, k)
  <2>1. CurrentPresence' \in PresenceSnapshot
    BY <1>1 DEF StoreInv, RegistryTypeOK, CurrentPresence, PresenceSnapshot
  <2> QED  BY ZenonT(40), <2>1 DEF ConnStep, GetInitialPresence, IInv, Unused, PresenceTypeOK, ConnType, PresenceSnapshot, Pcs, Leaving
<1>3. /\ down' \subseteq Backends /\ clients' \in [Backends -> SUBSET Conns]
      /\ watch' = watch /\ due' \in [Conns -> BOOLEAN] /\ screen' = screen
      /\ faults' \in Nat
      /\ \A d \in Conns : due'[d] => due[d] \/ conn[d].pc # "new"
      /\ \A a \in Backends : clients'[a] \subseteq clients[a] \cup {c}
  BY DEF IInv, PresenceTypeOK, GetInitialPresence
<1> HIDE DEF k
<1> QED  BY <1>1, <1>2, <1>3, QuietStepKeeps

LEMMA RefuseInv ==
  ASSUME IInv, NEW c \in Conns, Refuse(c)
  PROVE  IInv'
<1> DEFINE k == [conn[c] EXCEPT !.pc = "stop"]
<1>1. StoreInv' /\ Kept /\ \A d \in Conns : Never(d) => Never(d)'
  BY SameKeeps DEF IInv, Refuse, storeVars
<1>2. ConnStep(c, k)
  BY DEF ConnStep, Refuse, IInv, Unused, PresenceTypeOK, ConnType, PresenceSnapshot, Pcs, Leaving, Goto
<1>3. /\ down' \subseteq Backends /\ clients' \in [Backends -> SUBSET Conns]
      /\ watch' = watch /\ due' \in [Conns -> BOOLEAN] /\ screen' = screen
      /\ faults' \in Nat
      /\ \A d \in Conns : due'[d] => due[d] \/ conn[d].pc # "new"
      /\ \A a \in Backends : clients'[a] \subseteq clients[a] \cup {c}
  BY DEF IInv, PresenceTypeOK, Refuse
<1> HIDE DEF k
<1> QED  BY <1>1, <1>2, <1>3, QuietStepKeeps

LEMMA ConnFailsInv ==
  ASSUME IInv, NEW c \in Conns, ConnFails(c)
  PROVE  IInv'
<1> DEFINE k == [conn[c] EXCEPT !.pc = "stop"]
<1>1. StoreInv' /\ Kept /\ \A d \in Conns : Never(d) => Never(d)'
  BY SameKeeps DEF IInv, ConnFails, storeVars
<1>2. ConnStep(c, k)
  BY ZenonT(40) DEF ConnStep, ConnFails, IInv, Unused, PresenceTypeOK, ConnType, PresenceSnapshot, Pcs, Leaving, Goto
<1>3. /\ down' \subseteq Backends /\ clients' \in [Backends -> SUBSET Conns]
      /\ watch' = watch /\ due' \in [Conns -> BOOLEAN] /\ screen' = screen
      /\ faults' \in Nat
      /\ \A d \in Conns : due'[d] => due[d] \/ conn[d].pc # "new"
      /\ \A a \in Backends : clients'[a] \subseteq clients[a] \cup {c}
  BY DEF IInv, PresenceTypeOK, ConnFails
<1> HIDE DEF k
<1> QED  BY <1>1, <1>2, <1>3, QuietStepKeeps

LEMMA RemoveClientInv ==
  ASSUME IInv, NEW c \in Conns, RemoveClient(c)
  PROVE  IInv'
<1> DEFINE k == [conn[c] EXCEPT !.pc = "leave"]
<1>1. StoreInv' /\ Kept /\ \A d \in Conns : Never(d) => Never(d)'
  BY SameKeeps DEF IInv, RemoveClient, storeVars
<1>2. ConnStep(c, k)
  BY DEF ConnStep, RemoveClient, IInv, Unused, PresenceTypeOK, ConnType, PresenceSnapshot, Pcs, Leaving, Goto
<1>3. /\ down' \subseteq Backends /\ clients' \in [Backends -> SUBSET Conns]
      /\ watch' = watch /\ due' \in [Conns -> BOOLEAN] /\ screen' = screen
      /\ faults' \in Nat
      /\ \A d \in Conns : due'[d] => due[d] \/ conn[d].pc # "new"
      /\ \A a \in Backends : clients'[a] \subseteq clients[a] \cup {c}
  BY DEF IInv, PresenceTypeOK, RemoveClient
<1> HIDE DEF k
<1> QED  BY <1>1, <1>2, <1>3, QuietStepKeeps

LEMMA LeavePresenceInv ==
  ASSUME IInv, NEW c \in Conns, LeavePresence(c)
  PROVE  IInv'
<1> DEFINE k == Ended(c)
<1>1. StoreInv' /\ Kept /\ \A d \in Conns : Never(d) => Never(d)'
  BY LeaveKeeps, SameKeeps DEF IInv, LeavePresence, Fails
<1>2. ConnStep(c, k)
  BY DEF ConnStep, LeavePresence, IInv, Unused, PresenceTypeOK, ConnType, PresenceSnapshot, Pcs, Leaving, Ended, NoConn, NoPresence
<1>3. /\ down' \subseteq Backends /\ clients' \in [Backends -> SUBSET Conns]
      /\ watch' = watch /\ due' \in [Conns -> BOOLEAN] /\ screen' = screen
      /\ faults' \in Nat
      /\ \A d \in Conns : due'[d] => due[d] \/ conn[d].pc # "new"
      /\ \A a \in Backends : clients'[a] \subseteq clients[a] \cup {c}
  BY DEF IInv, PresenceTypeOK, LeavePresence, Fails
<1> HIDE DEF k
<1> QED  BY <1>1, <1>2, <1>3, QuietStepKeeps

LEMMA DropInv ==
  ASSUME IInv, NEW c \in Conns, Drop(c)
  PROVE  IInv'
<1> DEFINE k == [conn[c] EXCEPT !.sock = "closed"]
<1>1. StoreInv' /\ Kept /\ \A d \in Conns : Never(d) => Never(d)'
  BY SameKeeps DEF IInv, Drop, storeVars
<1>2. ConnStep(c, k)
  BY ZenonT(40) DEF ConnStep, Drop, IInv, Unused, PresenceTypeOK, ConnType, PresenceSnapshot, Pcs, Leaving, Hangup
<1>3. /\ down' \subseteq Backends /\ clients' \in [Backends -> SUBSET Conns]
      /\ watch' = watch /\ due' \in [Conns -> BOOLEAN] /\ screen' = screen
      /\ faults' \in Nat
      /\ \A d \in Conns : due'[d] => due[d] \/ conn[d].pc # "new"
      /\ \A a \in Backends : clients'[a] \subseteq clients[a] \cup {c}
  BY DEF IInv, PresenceTypeOK, Drop
<1> HIDE DEF k
<1> QED  BY <1>1, <1>2, <1>3, QuietStepKeeps

LEMMA GiveUpInv ==
  ASSUME IInv, NEW c \in Conns, GiveUp(c)
  PROVE  IInv'
<1> DEFINE k == [conn[c] EXCEPT !.sock = "closed"]
<1>1. StoreInv' /\ Kept /\ \A d \in Conns : Never(d) => Never(d)'
  BY SameKeeps DEF IInv, GiveUp, storeVars
<1>2. ConnStep(c, k)
  BY ZenonT(40) DEF ConnStep, GiveUp, IInv, Unused, PresenceTypeOK, ConnType, PresenceSnapshot, Pcs, Leaving, Hangup
<1>3. /\ down' \subseteq Backends /\ clients' \in [Backends -> SUBSET Conns]
      /\ watch' = watch /\ due' \in [Conns -> BOOLEAN] /\ screen' = screen
      /\ faults' \in Nat
      /\ \A d \in Conns : due'[d] => due[d] \/ conn[d].pc # "new"
      /\ \A a \in Backends : clients'[a] \subseteq clients[a] \cup {c}
  BY DEF IInv, PresenceTypeOK, GiveUp
<1> HIDE DEF k
<1> QED  BY <1>1, <1>2, <1>3, QuietStepKeeps

LEMMA RenewalFailsInv ==
  ASSUME IInv, NEW c \in Conns, RenewalFails(c)
  PROVE  IInv'
<1> DEFINE k == [conn[c] EXCEPT !.sock = "closed"]
<1>1. StoreInv' /\ Kept /\ \A d \in Conns : Never(d) => Never(d)'
  BY RenewKeeps, SameKeeps DEF IInv, RenewalFails, Fails
<1>2. ConnStep(c, k)
  <2>1. conn[c].pc # "new" /\ conn[c] \in ConnType
    BY DEF RenewalFails, IInv, Unused, PresenceTypeOK
  <2> QED  BY <2>1 DEF ConnStep, RenewalFails, ConnType, PresenceSnapshot, Pcs, Leaving, Hangup
<1>3. /\ down' \subseteq Backends /\ clients' \in [Backends -> SUBSET Conns]
      /\ watch' = watch /\ due' \in [Conns -> BOOLEAN] /\ screen' = screen
      /\ faults' \in Nat
      /\ \A d \in Conns : due'[d] => due[d] \/ conn[d].pc # "new"
      /\ \A a \in Backends : clients'[a] \subseteq clients[a] \cup {c}
  BY DEF IInv, PresenceTypeOK, RenewalFails, Fails
<1> HIDE DEF k
<1> QED  BY <1>1, <1>2, <1>3, QuietStepKeeps

LEMMA JoinPresenceInv ==
  ASSUME IInv, NEW c \in Conns, JoinPresence(c)
  PROVE  IInv'
<1> DEFINE k == [conn[c] EXCEPT !.pc = "setUp"]
<1>1. StoreInv' /\ Kept /\ \A d \in Conns \ {c} : Never(d) => Never(d)'
  <2>1. Never(c)
    BY DEF IInv, Unjoined, JoinPresence
  <2> QED  BY <2>1, JoinKeeps DEF IInv, JoinPresence
<1>2. ConnStep(c, k)
  BY DEF ConnStep, JoinPresence, Goto, IInv, PresenceTypeOK, ConnType,
         PresenceSnapshot, Pcs, Leaving
<1>3. /\ watch' \in [Backends -> WatchType]
      /\ \A b \in Backends : /\ watch'[b].snap = watch[b].snap
                             /\ watch'[b].left = watch[b].left
  BY ZenonT(40) DEF JoinPresence, IInv, PresenceTypeOK, WatchType
<1>4. /\ UNCHANGED <<down, clients, due, screen, faults>> /\ k.pc = "setUp"
  BY DEF JoinPresence, IInv, PresenceTypeOK, ConnType
<1> HIDE DEF k
<1>5. PresenceTypeOK'
  BY <1>1, <1>2, <1>3, <1>4, ConnKeeps DEF IInv, PresenceTypeOK, StoreInv
<1>6. Sourced /\ Enrolled /\ Unused'
  BY <1>1, <1>2, <1>3, <1>4, ConnKeeps DEF Sourced, Enrolled, Unused, IInv, ConnStep
<1> QED  BY <1>1, <1>5, <1>6, StepKeeps

(* What writePresence records and what the page shows.                     *)
LEMMA WriteKeeps ==
  ASSUME IInv, NEW c \in Conns, NEW snap \in PresenceSnapshot
  PROVE  /\ Told(c, snap) \in Nat \cup {-1}
         /\ screen' = Shown(c, snap) =>
              /\ screen' \in [Pages -> [revision : Nat \cup {-1}, members : SUBSET Conns]]
              /\ \A p \in Pages : screen'[p] = screen[p] \/ screen'[p] = snap
BY PresenceAssumption
   DEF Told, Shown, Fresh, IInv, PresenceTypeOK, ConnType, PresenceSnapshot

LEMMA AnnounceInv ==
  ASSUME IInv, NEW c \in Conns, Announce(c)
  PROVE  IInv'
<1> DEFINE snap == conn[c].snap
           fails == Fresh(c, snap) /\ conn[c].sock = "closed"
           k == [conn[c] EXCEPT !.pc = IF fails THEN "stop" ELSE "live",
                                !.snap = NoPresence, !.told = Told(c, snap)]
<1>1. StoreInv' /\ Kept /\ \A d \in Conns : Never(d) => Never(d)'
  BY SameKeeps DEF IInv, Announce, storeVars
<1>2. snap \in PresenceSnapshot /\ conn[c] \in ConnType
  BY DEF IInv, PresenceTypeOK, ConnType
<1>3. ConnStep(c, k)
  <2>1. Told(c, snap) \in Nat \cup {-1}
    BY <1>2, WriteKeeps
  <2>2. k \in ConnType /\ k.pc \in {"stop", "live"} /\ k.snap = NoPresence
    BY <2>1, <1>2 DEF ConnType, Pcs, PresenceSnapshot, NoPresence
  <2>3. conn' = [conn EXCEPT ![c] = k]
    BY DEF Announce
  <2> HIDE DEF k
  <2> QED  BY <2>2, <2>3 DEF ConnStep
<1>4. k.pc \in {"stop", "live"}
  BY <1>2 DEF ConnType
<1>5. /\ UNCHANGED <<down, clients, watch, due, faults>>
      /\ screen' = Shown(c, snap)
  BY DEF Announce
<1>6. /\ screen' \in [Pages -> [revision : Nat \cup {-1}, members : SUBSET Conns]]
      /\ \A p \in Pages : screen'[p] = screen[p] \/ screen'[p] = snap
  BY <1>2, <1>5, WriteKeeps
<1> HIDE DEF k
<1>7. PresenceTypeOK'
  BY <1>1, <1>3, <1>5, <1>6, ConnKeeps DEF IInv, PresenceTypeOK, StoreInv
<1>8. Sourced
  BY <1>3, <1>5, <1>6, ConnKeeps DEF Sourced
<1>9. Enrolled /\ Unused'
  BY <1>1, <1>3, <1>4, <1>5, ConnKeeps DEF Enrolled, Unused, IInv
<1> QED  BY <1>1, <1>7, <1>8, <1>9, StepKeeps

LEMMA RefusedInv ==
  ASSUME IInv, NEW c \in Conns, Refused(c)
  PROVE  IInv'
<1>1. CASE conn[c].pc = "join" /\ Fails(JoinScript(c)) /\ Goto(c, "unjoined")
  <2> DEFINE k == [conn[c] EXCEPT !.pc = "unjoined"]
  <2>1. StoreInv' /\ Kept /\ \A d \in Conns \ {c} : Never(d) => Never(d)'
    <3>1. Never(c)
      BY <1>1 DEF IInv, Unjoined
    <3> QED  BY <1>1, <3>1, JoinKeeps, SameKeeps DEF IInv, Fails
  <2>2. ConnStep(c, k) /\ k.pc = "unjoined"
    BY <1>1 DEF ConnStep, Goto, IInv, PresenceTypeOK, ConnType,
                PresenceSnapshot, Pcs, Leaving
  <2>3. UNCHANGED <<down, clients, watch, due, screen>> /\ faults' \in Nat
    BY <1>1 DEF Refused, Fails, IInv, PresenceTypeOK
  <2> HIDE DEF k
  <2>4. PresenceTypeOK'
    BY <2>1, <2>2, <2>3, ConnKeeps DEF IInv, PresenceTypeOK, StoreInv
  <2>5. Sourced /\ Enrolled /\ Unused'
    BY <2>1, <2>2, <2>3, ConnKeeps DEF Sourced, Enrolled, Unused, IInv
  <2> QED  BY <2>1, <2>4, <2>5, StepKeeps
<1>2. CASE conn[c].pc = "setUp" /\ Fails(PruneScript) /\ Goto(c, "refuse")
  <2> DEFINE k == [conn[c] EXCEPT !.pc = "refuse"]
  <2>1. StoreInv' /\ Kept /\ \A d \in Conns : Never(d) => Never(d)'
    BY <1>2, PruneKeeps, SameKeeps DEF IInv, Fails
  <2>2. ConnStep(c, k)
    BY <1>2 DEF ConnStep, Goto, IInv, PresenceTypeOK, ConnType,
                PresenceSnapshot, Pcs, Leaving
  <2>3. /\ UNCHANGED <<down, clients, watch, due, screen>> /\ faults' \in Nat
        /\ down \subseteq Backends /\ clients \in [Backends -> SUBSET Conns]
        /\ due \in [Conns -> BOOLEAN]
    BY <1>2 DEF Refused, Fails, IInv, PresenceTypeOK
  <2> HIDE DEF k
  <2> QED  BY <2>1, <2>2, <2>3, QuietStepKeeps
<1> QED  BY <1>1, <1>2 DEF Refused

-----------------------------------------------------------------------------
\* The heartbeat

LEMMA NoteActivityInv ==
  ASSUME IInv, NEW c \in Conns, NoteActivity(c)
  PROVE  IInv'
<1>1. StoreInv' /\ Kept /\ \A d \in Conns : Never(d) => Never(d)'
  BY SameKeeps DEF IInv, NoteActivity, storeVars
<1>2. /\ due' \in [Conns -> BOOLEAN]
      /\ \A d \in Conns : due'[d] => due[d] \/ conn[d].pc # "new"
      /\ UNCHANGED <<down, clients, conn, screen, watch, faults>>
  BY DEF IInv, PresenceTypeOK, NoteActivity
<1> QED  BY <1>1, <1>2, ProcessStepKeeps DEF IInv, PresenceTypeOK

LEMMA EndHeartbeatInv ==
  ASSUME IInv, NEW c \in Conns, EndHeartbeat(c)
  PROVE  IInv'
<1>1. StoreInv' /\ Kept /\ \A d \in Conns : Never(d) => Never(d)'
  BY SameKeeps DEF IInv, EndHeartbeat, storeVars
<1>2. /\ due' \in [Conns -> BOOLEAN]
      /\ \A d \in Conns : due'[d] => due[d] \/ conn[d].pc # "new"
      /\ UNCHANGED <<down, clients, conn, screen, watch, faults>>
  BY DEF IInv, PresenceTypeOK, EndHeartbeat
<1> QED  BY <1>1, <1>2, ProcessStepKeeps DEF IInv, PresenceTypeOK

LEMMA RenewPresenceInv ==
  ASSUME IInv, NEW c \in Conns, RenewPresence(c)
  PROVE  IInv'
<1>1. StoreInv' /\ Kept /\ \A d \in Conns : Never(d) => Never(d)'
  BY RenewKeeps DEF IInv, RenewPresence
<1>2. /\ due' \in [Conns -> BOOLEAN]
      /\ \A d \in Conns : due'[d] => due[d] \/ conn[d].pc # "new"
      /\ UNCHANGED <<down, clients, screen, watch, faults>>
  BY DEF IInv, PresenceTypeOK, RenewPresence
<1>3. CASE Renews(c)
  BY <1>1, <1>2, <1>3, ProcessStepKeeps DEF IInv, PresenceTypeOK, RenewPresence
<1>4. CASE ~Renews(c)
  <2> DEFINE k == [conn[c] EXCEPT !.sock = "closed"]
  <2>1. conn[c].pc # "new" /\ conn[c] \in ConnType
    BY DEF RenewPresence, IInv, Unused, PresenceTypeOK
  <2>2. ConnStep(c, k)
    BY <1>4, <2>1 DEF ConnStep, RenewPresence, Hangup, ConnType
  <2> HIDE DEF k
  <2> QED  BY <1>1, <1>2, <2>2, QuietStepKeeps DEF IInv, PresenceTypeOK
<1> QED  BY <1>3, <1>4

LEMMA VanishInv ==
  ASSUME IInv, NEW c \in Conns, Vanish(c)
  PROVE  IInv'
<1>1. StoreInv' /\ Kept /\ \A d \in Conns : Never(d) => Never(d)'
  BY SameKeeps DEF IInv, Vanish, storeVars
<1>2. PICK k : k \in {[conn[c] EXCEPT !.sock = "gone"],
                      [conn[c] EXCEPT !.sock = "stalled"]} /\ conn' = [conn EXCEPT ![c] = k]
  BY DEF Vanish
<1>3. conn[c].pc # "new" /\ conn[c] \in ConnType
  BY DEF Vanish, IInv, Unused, PresenceTypeOK
<1>4. ConnStep(c, k)
  BY <1>2, <1>3 DEF ConnStep, ConnType
<1>5. UNCHANGED <<down, clients, watch, due, screen, faults>>
  BY DEF Vanish
<1> QED  BY <1>1, <1>4, <1>5, QuietStepKeeps DEF IInv, PresenceTypeOK

-----------------------------------------------------------------------------
\* The watcher, the sweeper, the clock and a crash

LEMMA ReadChangesInv ==
  ASSUME IInv, NEW b \in Backends, ReadChanges(b)
  PROVE  IInv'
<1>1. StoreInv' /\ Kept /\ \A d \in Conns : Never(d) => Never(d)'
  BY SameKeeps DEF IInv, ReadChanges, storeVars
<1>2. watch[b] \in WatchType
  BY DEF IInv, PresenceTypeOK
<1>3. PICK w : /\ w \in WatchType /\ w.snap \in {watch[b].snap, NoPresence, CurrentPresence'}
               /\ w.left \subseteq watch[b].left \cup clients[b]
               /\ watch' = [watch EXCEPT ![b] = w]
  <2> DEFINE next == IF watch[b].cursor + ReadCount < registry.changes
                     THEN watch[b].cursor + ReadCount ELSE registry.changes
             w == [watch[b] EXCEPT !.next = next, !.pc = "get"]
  <2>1. next \in Nat
    BY <1>2, PresenceAssumption DEF IInv, StoreInv, RegistryTypeOK, WatchType
  <2>2. w \in WatchType /\ w.snap = watch[b].snap /\ w.left = watch[b].left
    BY <1>2, <2>1 DEF WatchType
  <2>3. watch' = [watch EXCEPT ![b] = w]
    BY DEF ReadChanges, Follow
  <2> HIDE DEF w
  <2> QED  BY <2>2, <2>3
<1>4. /\ watch' \in [Backends -> WatchType]
      /\ \A a \in Backends : watch'[a].snap \in {watch[a].snap, NoPresence, CurrentPresence'}
      /\ \A a \in Backends : watch'[a].left \subseteq watch[a].left \cup clients[a]
  BY <1>3 DEF IInv, PresenceTypeOK
<1>5. UNCHANGED <<down, clients, conn, due, screen>> /\ faults' \in Nat
  BY DEF ReadChanges, Fails, IInv, PresenceTypeOK
<1> QED  BY <1>1, <1>4, <1>5, ProcessStepKeeps DEF IInv, PresenceTypeOK

LEMMA GetPresenceInv ==
  ASSUME IInv, NEW b \in Backends, GetPresence(b)
  PROVE  IInv'
<1>1. StoreInv' /\ Kept /\ \A d \in Conns : Never(d) => Never(d)'
  BY PruneKeeps DEF IInv, GetPresence
<1>2. watch[b] \in WatchType
  BY DEF IInv, PresenceTypeOK
<1>3. PICK w : /\ w \in WatchType /\ w.snap \in {watch[b].snap, NoPresence, CurrentPresence'}
               /\ w.left \subseteq watch[b].left \cup clients[b]
               /\ watch' = [watch EXCEPT ![b] = w]
  <2>1. CurrentPresence' \in PresenceSnapshot
    BY <1>1 DEF StoreInv, RegistryTypeOK, CurrentPresence, PresenceSnapshot
  <2> DEFINE w == [watch[b] EXCEPT !.pc = "copy", !.snap = CurrentPresence']
  <2>2. w \in WatchType /\ w.snap = CurrentPresence' /\ w.left = watch[b].left
    BY <1>2, <2>1 DEF WatchType
  <2>3. watch' = [watch EXCEPT ![b] = w]
    BY DEF GetPresence, Follow
  <2> HIDE DEF w
  <2> QED  BY <2>2, <2>3
<1>4. /\ watch' \in [Backends -> WatchType]
      /\ \A a \in Backends : watch'[a].snap \in {watch[a].snap, NoPresence, CurrentPresence'}
      /\ \A a \in Backends : watch'[a].left \subseteq watch[a].left \cup clients[a]
  BY <1>3 DEF IInv, PresenceTypeOK
<1>5. UNCHANGED <<down, clients, conn, due, screen>> /\ faults' \in Nat
  BY DEF GetPresence, Fails, IInv, PresenceTypeOK
<1> QED  BY <1>1, <1>4, <1>5, ProcessStepKeeps DEF IInv, PresenceTypeOK

LEMMA GetPresenceFailsInv ==
  ASSUME IInv, NEW b \in Backends, GetPresenceFails(b)
  PROVE  IInv'
<1>1. StoreInv' /\ Kept /\ \A d \in Conns : Never(d) => Never(d)'
  BY PruneKeeps, SameKeeps DEF IInv, GetPresenceFails, Fails
<1>2. watch[b] \in WatchType
  BY DEF IInv, PresenceTypeOK
<1>3. PICK w : /\ w \in WatchType /\ w.snap \in {watch[b].snap, NoPresence, CurrentPresence'}
               /\ w.left \subseteq watch[b].left \cup clients[b]
               /\ watch' = [watch EXCEPT ![b] = w]
  <2>1. /\ Reread(watch[b], watch[b].cursor) \in WatchType /\ Reread(watch[b], watch[b].cursor).snap = NoPresence
        /\ Reread(watch[b], watch[b].cursor).left = {}
    BY <1>2 DEF Reread, NoWatch, NoPresence, WatchType, PresenceSnapshot
  <2> QED  BY <2>1 DEF GetPresenceFails, Follow
<1>4. /\ watch' \in [Backends -> WatchType]
      /\ \A a \in Backends : watch'[a].snap \in {watch[a].snap, NoPresence, CurrentPresence'}
      /\ \A a \in Backends : watch'[a].left \subseteq watch[a].left \cup clients[a]
  BY <1>3 DEF IInv, PresenceTypeOK
<1>5. UNCHANGED <<down, clients, conn, due, screen>> /\ faults' \in Nat
  BY DEF GetPresenceFails, Fails, IInv, PresenceTypeOK
<1> QED  BY <1>1, <1>4, <1>5, ProcessStepKeeps DEF IInv, PresenceTypeOK

LEMMA CopyClientsInv ==
  ASSUME IInv, NEW b \in Backends, CopyClients(b)
  PROVE  IInv'
<1>1. StoreInv' /\ Kept /\ \A d \in Conns : Never(d) => Never(d)'
  BY SameKeeps DEF IInv, CopyClients, storeVars
<1>2. watch[b] \in WatchType
  BY DEF IInv, PresenceTypeOK
<1>3. PICK w : /\ w \in WatchType /\ w.snap \in {watch[b].snap, NoPresence, CurrentPresence'}
               /\ w.left \subseteq watch[b].left \cup clients[b]
               /\ watch' = [watch EXCEPT ![b] = w]
  <2>1. /\ Reread(watch[b], watch[b].next) \in WatchType /\ Reread(watch[b], watch[b].next).snap = NoPresence
        /\ Reread(watch[b], watch[b].next).left = {}
    BY <1>2 DEF Reread, NoWatch, NoPresence, WatchType, PresenceSnapshot
  <2> DEFINE w == [watch[b] EXCEPT !.left = clients[b], !.pc = "send"]
  <2>2. w \in WatchType /\ w.snap = watch[b].snap /\ w.left = clients[b]
    BY <1>2 DEF WatchType, IInv, PresenceTypeOK
  <2>3. \/ watch' = [watch EXCEPT ![b] = Reread(watch[b], watch[b].next)]
        \/ watch' = [watch EXCEPT ![b] = w]
    BY DEF CopyClients, Follow
  <2> HIDE DEF w
  <2> QED  BY <2>1, <2>2, <2>3
<1>4. /\ watch' \in [Backends -> WatchType]
      /\ \A a \in Backends : watch'[a].snap \in {watch[a].snap, NoPresence, CurrentPresence'}
      /\ \A a \in Backends : watch'[a].left \subseteq watch[a].left \cup clients[a]
  BY <1>3 DEF IInv, PresenceTypeOK
<1>5. UNCHANGED <<down, clients, conn, due, screen>> /\ faults' \in Nat
  BY DEF CopyClients, Fails, IInv, PresenceTypeOK
<1> QED  BY <1>1, <1>4, <1>5, ProcessStepKeeps DEF IInv, PresenceTypeOK

LEMMA SendPresenceInv ==
  ASSUME IInv, NEW b \in Backends, NEW c \in Conns, SendPresence(b, c)
  PROVE  IInv'
<1> DEFINE snap == watch[b].snap
           k == [conn[c] EXCEPT !.told = Told(c, snap)]
<1>1. StoreInv' /\ Kept /\ \A d \in Conns : Never(d) => Never(d)'
  BY SameKeeps DEF IInv, SendPresence, storeVars
<1>2. /\ snap \in PresenceSnapshot /\ conn[c] \in ConnType /\ watch[b] \in WatchType
      /\ conn[c].told \in Nat \cup {-1}
  BY DEF IInv, PresenceTypeOK, WatchType, ConnType
<1>3. /\ conn' = [conn EXCEPT ![c] = k] /\ screen' = Shown(c, snap)
      /\ UNCHANGED <<down, clients, due, faults>>
  BY DEF SendPresence
<1>4. k \in ConnType /\ k.snap = conn[c].snap /\ k.pc = conn[c].pc /\ k.sock = conn[c].sock
  <2>1. Told(c, snap) \in Nat \cup {-1}
    BY <1>2, WriteKeeps
  <2> QED  BY <1>2, <2>1 DEF ConnType
<1>5. /\ screen' \in [Pages -> [revision : Nat \cup {-1}, members : SUBSET Conns]]
      /\ \A p \in Pages : screen'[p] = screen[p] \/ screen'[p] = snap
  BY <1>2, <1>3, WriteKeeps
<1>6. /\ watch' \in [Backends -> WatchType]
      /\ \A a \in Backends : /\ watch'[a].snap \in {watch[a].snap, NoPresence}
                             /\ watch'[a].left \subseteq watch[a].left
  <2>1. /\ Reread(watch[b], watch[b].next) \in WatchType
        /\ Reread(watch[b], watch[b].next).snap = NoPresence
        /\ Reread(watch[b], watch[b].next).left = {}
    BY <1>2 DEF Reread, NoWatch, NoPresence, WatchType, PresenceSnapshot
  <2> DEFINE w == [watch[b] EXCEPT !.left = watch[b].left \ {c}]
  <2>2. w \in WatchType /\ w.snap = watch[b].snap /\ w.left \subseteq watch[b].left
    BY <1>2 DEF WatchType
  <2>3. \/ watch' = [watch EXCEPT ![b] = Reread(watch[b], watch[b].next)]
        \/ watch' = [watch EXCEPT ![b] = w]
    BY DEF SendPresence, Follow
  <2> HIDE DEF w
  <2> QED  BY <2>1, <2>2, <2>3 DEF IInv, PresenceTypeOK
<1>7. conn[c].pc # "new"
  <2>1. c \in watch[b].left
    BY DEF SendPresence
  <2> QED  BY <2>1 DEF IInv, Unused
<1>8. ConnStep(c, k)
  BY <1>3, <1>4, <1>7 DEF ConnStep
<1> HIDE DEF k
<1>9. PresenceTypeOK'
  BY <1>1, <1>3, <1>5, <1>6, <1>8, ConnKeeps DEF IInv, PresenceTypeOK, StoreInv
<1>10. Sourced
  BY <1>3, <1>5, <1>6, <1>8, ConnKeeps DEF Sourced
<1>11. Enrolled /\ Unused'
  BY <1>1, <1>3, <1>6, <1>7, <1>8, ConnKeeps DEF Enrolled, Unused, IInv, ConnStep
<1> QED  BY <1>1, <1>9, <1>10, <1>11, StepKeeps

LEMMA SweepInv ==
  ASSUME IInv, NEW b \in Backends, Sweep(b)
  PROVE  IInv'
<1>1. StoreInv' /\ Kept /\ \A d \in Conns : Never(d) => Never(d)'
  BY PruneKeeps DEF IInv, Sweep
<1>2. UNCHANGED <<down, clients, watch, conn, due, screen, faults>>
  BY DEF Sweep, processVars
<1> QED  BY <1>1, <1>2, ProcessStepKeeps DEF IInv, PresenceTypeOK

LEMMA ElapseInv ==
  ASSUME IInv, Elapse
  PROVE  IInv'
<1>1. StoreInv' /\ Kept /\ \A d \in Conns : Never(d) => Never(d)'
  BY TickKeeps DEF IInv, Elapse
<1>2. UNCHANGED <<down, clients, watch, conn, due, screen, faults>>
  BY DEF Elapse, processVars
<1> QED  BY <1>1, <1>2, ProcessStepKeeps DEF IInv, PresenceTypeOK

LEMMA CrashInv ==
  ASSUME IInv, NEW b \in Backends, Crash(b)
  PROVE  IInv'
<1>1. StoreInv' /\ Kept /\ \A d \in Conns : Never(d) => Never(d)'
  BY SameKeeps DEF IInv, Crash, storeVars
<1>2. /\ \A c \in Conns : /\ Ended(c) \in ConnType /\ Ended(c).snap = NoPresence
                          /\ Ended(c).pc = "closed"
      /\ NoWatch \in WatchType /\ NoWatch.snap = NoPresence /\ NoWatch.left = {}
  BY DEF Ended, NoConn, NoPresence, NoWatch, ConnType, WatchType, IInv,
         PresenceTypeOK, PresenceSnapshot, Pcs, Leaving
<1>3. /\ conn' \in [Conns -> ConnType]
      /\ \A c \in Conns : conn'[c] = conn[c] \/ conn'[c] = Ended(c)
  BY <1>2 DEF Crash, IInv, PresenceTypeOK
<1>4. /\ watch' \in [Backends -> WatchType]
      /\ \A a \in Backends : watch'[a] = watch[a] \/ watch'[a] = NoWatch
  BY <1>2 DEF Crash, IInv, PresenceTypeOK
<1>5. /\ clients' \in [Backends -> SUBSET Conns]
      /\ \A a \in Backends : clients'[a] \subseteq clients[a]
      /\ due' \in [Conns -> BOOLEAN] /\ \A c \in Conns : due'[c] => due[c]
      /\ down' \subseteq Backends /\ UNCHANGED <<screen, faults>>
  BY DEF Crash, IInv, PresenceTypeOK
<1>6. PresenceTypeOK'
  BY <1>1, <1>3, <1>4, <1>5 DEF IInv, PresenceTypeOK, StoreInv
<1>7. Sourced
  BY <1>2, <1>3, <1>4, <1>5 DEF Sourced
<1>8. Enrolled
  BY <1>1, <1>2, <1>3 DEF Enrolled
<1>9. Unused'
  BY <1>2, <1>3, <1>4, <1>5 DEF Unused, IInv
<1> QED  BY <1>1, <1>6, <1>7, <1>8, <1>9, StepKeeps

LEMMA NextIInv ==
  ASSUME IInv, [Next]_vars
  PROVE  IInv'
<1>1. CASE UNCHANGED vars
  <2>1. StoreInv' /\ Kept /\ \A d \in Conns : Never(d) => Never(d)'
    BY <1>1, SameKeeps DEF vars, storeVars, IInv
  <2> QED  BY <1>1, <2>1, ProcessStepKeeps DEF vars, IInv, PresenceTypeOK
<1>2. ASSUME NEW c \in Conns, NEW b \in Backends, Connect(c, b) PROVE IInv'
  BY <1>2, ConnectInv
<1>3. ASSUME NEW c \in Conns, Serve(c) PROVE IInv'
  BY <1>3, JoinPresenceInv, GetInitialPresenceInv, AnnounceInv, RefusedInv,
     RefuseInv, ConnFailsInv, RemoveClientInv, LeavePresenceInv DEF Serve
<1>4. ASSUME NEW c \in Conns,
             NoteActivity(c) \/ Beat(c) \/ Drop(c) \/ Vanish(c) \/ GiveUp(c)
      PROVE  IInv'
  BY <1>4, NoteActivityInv, RenewPresenceInv, RenewalFailsInv, EndHeartbeatInv,
     DropInv, VanishInv, GiveUpInv DEF Beat
<1>5. ASSUME NEW b \in Backends, Watch(b) PROVE IInv'
  BY <1>5, ReadChangesInv, GetPresenceInv, GetPresenceFailsInv, CopyClientsInv,
     SendPresenceInv DEF Watch
<1>6. ASSUME NEW b \in Backends, Sweep(b) \/ Crash(b) PROVE IInv'
  BY <1>6, SweepInv, CrashInv
<1>7. CASE Elapse
  BY <1>7, ElapseInv
<1> QED  BY <1>1, <1>2, <1>3, <1>4, <1>5, <1>6, <1>7 DEF Next

-----------------------------------------------------------------------------
\* The theorems

(* The conjunction the safety properties follow from is inductive: Redis   *)
(* keeps a history that only grows, and nobody holds a list that is not in *)
(* it.                                                                     *)
THEOREM IInvHolds == Spec => []IInv
<1>1. IInv /\ [Next]_vars => IInv'
  BY NextIInv
<1> QED  BY InitIInv, <1>1, PTL DEF Spec

(* The structs and locals of presence keep their types, for any number of  *)
(* backends, connections and pages.                                        *)
THEOREM PresenceTypeCorrect == Spec => []PresenceTypeOK
<1>1. IInv => PresenceTypeOK
  BY DEF IInv
<1> QED  BY <1>1, IInvHolds, PTL

(* Two lists with the same revision are the same list, whoever read them   *)
(* and however late they are shown (redis_presence.go:68).                 *)
THEOREM RevisionIsTheList == Spec => []RevisionNamesMembers
<1>1. IInv => RevisionNamesMembers
  BY DEF IInv
<1> QED  BY <1>1, IInvHolds, PTL

(* Delayed renewals, sweeps and leaves never bring a removed connection    *)
(* back (docs/presence-leases.md:22).                                      *)
THEOREM RemovedForGood == Spec => []NoResurrection
<1>1. IInv => NoResurrection
  BY DEF IInv, StoreInv
<1> QED  BY <1>1, IInvHolds, PTL
=============================================================================
