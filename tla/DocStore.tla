------------------------------ MODULE DocStore ------------------------------
(***************************************************************************)
(* The document state of one room in Redis: the keys exists, content,      *)
(* version and sequence, and the stream of accepted edits                  *)
(* (backend/redis_store.go).  A Lua script runs atomically in Redis, so    *)
(* each script is one action.                                              *)
(*                                                                         *)
(* A text is named by the position in the stream of the edit that wrote    *)
(* it; the empty text of a new room is 0.  The operationId, clientId and   *)
(* username of an edit are represented by the base version it carried.     *)
(***************************************************************************)
EXTENDS Integers, Sequences

CONSTANTS
  Policy,       \* the stale write policy, "reject" or "accept" (config.go)
  MaxCommits,   \* bound: edits accepted in a behaviour
  FreshIds      \* TRUE: generateRoomID never returns the id of a live room

ASSUME PolicyAssumption == Policy \in {"reject", "accept"}
ASSUME BoundAssumption  == MaxCommits \in Nat
ASSUME IdAssumption     == FreshIds \in BOOLEAN

VARIABLES
  exists,       \* the room's exists key is set
  doc,          \* the keys content, version, sequence
  stream        \* the entries of the room's event stream, by stream ID

storeVars == <<exists, doc, stream>>

\* Faulty: an unset version reads as -1.
UnsetDoc == [content |-> 0, version |-> -1, sequence |-> 0]

EmptyDoc == [content |-> 0, version |-> 0, sequence |-> 0]

\* Base versions a client may send: those the server can have told it.
Bases == 0 .. MaxCommits

StreamEntry == [sequence : Nat, version : Nat, content : Nat, base : Nat]
Snapshot    == [content : Nat, version : Nat, sequence : Nat]

\* An absent key reads as the empty string or 0 (redisString, redisInt64).
StoreInit ==
  /\ exists = FALSE
  /\ doc = EmptyDoc
  /\ stream = <<>>

-----------------------------------------------------------------------------

(* CreateRoom sets the four keys and leaves the stream alone.  Nothing in  *)
(* the script tests whether the id is in use: only FreshIds does.          *)
CreateRoomScript ==
  /\ FreshIds => ~exists
  /\ exists' = TRUE
  /\ doc' = EmptyDoc
  /\ UNCHANGED stream

Stale(base) == base # doc.version

\* Faulty: only a base version that is ahead is refused.
RefusedIfAhead(base) == base > doc.version /\ Policy = "reject"

Refused(base) == Stale(base) /\ Policy = "reject"

\* Faulty: the text that was current is stored again.
OldText == Len(stream)

NewText == Len(stream) + 1

(* The reply of applyOperationScript.  *)
ApplyReply(base) ==
  IF Refused(base)
  THEN [accepted |-> FALSE, snap |-> doc]
  ELSE [accepted |-> TRUE,
        snap |-> [content  |-> NewText,
                  version  |-> doc.version + 1,
                  sequence |-> doc.sequence + 1]]

(* The effect of applyOperationScript: a refused edit changes nothing, an  *)
(* accepted one advances version and sequence, stores its text and appends *)
(* the entry that publishes it.                                            *)
ApplyOperationScript(base) ==
  /\ IF Refused(base)
     THEN UNCHANGED <<doc, stream>>
     ELSE /\ Len(stream) < MaxCommits
          /\ doc' = [content  |-> NewText,
                     version  |-> doc.version + 1,
                     sequence |-> doc.sequence + 1]
          /\ stream' = Append(stream,
                         [sequence |-> doc.sequence + 1,
                          version  |-> doc.version + 1,
                          content  |-> NewText,
                          base     |-> base])
  /\ UNCHANGED exists

(* ReplayBoundary: the last entry of the stream, 0 (stream ID "0-0") when   *)
(* there is none.  SequenceAt is the application sequence at a stream ID.  *)
LastStreamID   == Len(stream)
SequenceAt(id) == IF id = 0 THEN 0 ELSE stream[id].sequence

-----------------------------------------------------------------------------

StoreNext ==
  \/ CreateRoomScript
  \/ exists /\ \E base \in Bases : ApplyOperationScript(base)

StoreSpec == StoreInit /\ [][StoreNext]_storeVars

-----------------------------------------------------------------------------

(* The keys and the entries have the types the Go code parses them to.     *)
StoreTypeOK ==
  /\ exists \in BOOLEAN
  /\ doc \in Snapshot
  /\ stream \in Seq(StreamEntry)

(* The log is the document: entry i carries sequence i and version i, and  *)
(* the keys are the last entry.  Snapshots read the keys, replay reads the *)
(* stream; a resumed client and a fresh one see the same document only if  *)
(* applyOperationScript and CreateRoom keep the two together.              *)
LogIsTheDocument ==
  /\ doc.sequence = Len(stream)
  /\ doc.version  = Len(stream)
  /\ doc.content  = Len(stream)
  /\ \A i \in 1 .. Len(stream) :
       /\ stream[i].sequence = i
       /\ stream[i].version  = i
       /\ stream[i].content  = i

(* No silent overwrite (README.md:63): under the reject policy the edit     *)
(* accepted as version i was sent with base i - 1, whatever order the      *)
(* backends' scripts reach Redis in.                                       *)
NoSilentOverwrite ==
  Policy = "reject" =>
    \A i \in 1 .. Len(stream) : stream[i].base = stream[i].version - 1

=============================================================================
