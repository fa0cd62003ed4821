--------------------------- MODULE DocStoreProofs ---------------------------
(***************************************************************************)
(* Proofs about the document state in Redis.  The inductive invariant is   *)
(* StoreInv: the log is the document needs that a room that was never      *)
(* created has an empty stream, because CreateRoom resets the keys alone.  *)
(***************************************************************************)
EXTENDS DocStore, TLAPS

StoreInv ==
  /\ StoreTypeOK
  /\ LogIsTheDocument
  /\ NoSilentOverwrite
  /\ ~exists => stream = <<>>

(* The two scripts, each on a room it is run on.                           *)
StoreStep ==
  \/ CreateRoomScript
  \/ exists /\ \E base \in Nat : ApplyOperationScript(base)

LEMMA StoreInitInv == StoreInit => StoreInv
<1>. SUFFICES ASSUME StoreInit PROVE StoreInv
  OBVIOUS
<1>1. exists = FALSE /\ doc = EmptyDoc /\ stream = <<>>
  BY DEF StoreInit
<1>2. Len(stream) = 0 /\ stream \in Seq(StreamEntry)
  BY <1>1
<1>3. StoreTypeOK
  BY <1>1, <1>2 DEF StoreTypeOK, EmptyDoc, Snapshot
<1>4. LogIsTheDocument /\ NoSilentOverwrite
  BY <1>1, <1>2 DEF LogIsTheDocument, NoSilentOverwrite, EmptyDoc
<1>. QED BY <1>1, <1>3, <1>4 DEF StoreInv

LEMMA CreateRoomInv ==
  ASSUME FreshIds, StoreInv, CreateRoomScript
  PROVE  StoreInv'
BY DEF CreateRoomScript, StoreInv, StoreTypeOK, LogIsTheDocument,
       NoSilentOverwrite, EmptyDoc, Snapshot

(* What the script appends is the new last entry; the others stay.         *)
LEMMA ApplyOperationInv ==
  ASSUME StoreInv, exists, NEW base \in Nat, ApplyOperationScript(base)
  PROVE  StoreInv'
<1>1. CASE Refused(base)
  <2>1. UNCHANGED storeVars
    BY <1>1 DEF ApplyOperationScript, storeVars
  <2>. QED BY <2>1 DEF storeVars, StoreInv, StoreTypeOK, LogIsTheDocument,
                       NoSilentOverwrite
<1>2. CASE ~Refused(base)
  <2>. DEFINE n == Len(stream) + 1
              e == [sequence |-> doc.sequence + 1, version |-> doc.version + 1,
                    content |-> n, base |-> base]
  <2>1. /\ doc' = [content |-> n, version |-> doc.version + 1,
                   sequence |-> doc.sequence + 1]
        /\ stream' = Append(stream, e)
        /\ exists' = exists
    BY <1>2 DEF ApplyOperationScript, NewText
  <2>2. /\ stream \in Seq(StreamEntry) /\ n \in Nat
        /\ doc.sequence + 1 = n /\ doc.version + 1 = n
        /\ e \in StreamEntry
    BY DEF StoreInv, StoreTypeOK, LogIsTheDocument, Snapshot, StreamEntry
  <2>3. /\ Len(stream') = n
        /\ stream'[n] = e
        /\ \A i \in 1 .. Len(stream) : stream'[i] = stream[i]
        /\ stream' \in Seq(StreamEntry)
    BY <2>1, <2>2
  <2>4. StoreTypeOK'
    BY <2>1, <2>2, <2>3 DEF StoreInv, StoreTypeOK, Snapshot
  <2>5. LogIsTheDocument'
    BY <2>1, <2>2, <2>3 DEF StoreInv, LogIsTheDocument
  <2>6. NoSilentOverwrite'
    <3>1. Policy = "reject" => base = doc.version
      BY <1>2 DEF Refused, Stale
    <3>. QED BY <2>2, <2>3, <3>1 DEF StoreInv, StoreTypeOK, Snapshot,
                                    NoSilentOverwrite
  <2>. QED BY <2>1, <2>4, <2>5, <2>6 DEF StoreInv
<1>. QED BY <1>1, <1>2

LEMMA StoreStepInv ==
  ASSUME FreshIds, StoreInv, StoreStep \/ UNCHANGED storeVars
  PROVE  StoreInv'
<1>1. CASE CreateRoomScript
  BY <1>1, CreateRoomInv
<1>2. ASSUME exists, NEW base \in Nat, ApplyOperationScript(base)
      PROVE  StoreInv'
  BY <1>2, ApplyOperationInv
<1>3. CASE UNCHANGED storeVars
  BY <1>3 DEF storeVars, StoreInv, StoreTypeOK, LogIsTheDocument,
              NoSilentOverwrite
<1>. QED BY <1>1, <1>2, <1>3 DEF StoreStep

LEMMA StoreAlways == ASSUME FreshIds PROVE StoreSpec => []StoreInv
<1>1. StoreInv /\ [StoreNext]_storeVars => StoreInv'
  <2>1. Bases \subseteq Nat
    BY BoundAssumption DEF Bases
  <2>. QED BY <2>1, StoreStepInv DEF StoreNext, StoreStep
<1>. QED BY <1>1, StoreInitInv, PTL DEF StoreSpec

(* Whatever order scripts run in, the keys and the entries are of their    *)
(* types (redis_store.go).                                                 *)
THEOREM StoreTypeCorrect == ASSUME FreshIds PROVE StoreSpec => []StoreTypeOK
BY StoreAlways, PTL DEF StoreInv

(* The keys that GetSnapshot reads and the stream that replay reads are    *)
(* the same document (applyOperationScript in redis_store.go).             *)
THEOREM StoreLogIsTheDocument ==
  ASSUME FreshIds PROVE StoreSpec => []LogIsTheDocument
BY StoreAlways, PTL DEF StoreInv

(* Under the reject policy every accepted edit was based on the version    *)
(* before it (README.md:63).                                               *)
THEOREM StoreNoSilentOverwrite ==
  ASSUME FreshIds PROVE StoreSpec => []NoSilentOverwrite
BY StoreAlways, PTL DEF StoreInv
=============================================================================
