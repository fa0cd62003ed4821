----------------------------- MODULE EditorProofs -----------------------------
(***************************************************************************)
(* What a page shows and sends, for any pages, key strokes, broken         *)
(* connections and failures of Redis, in any order of the frames that      *)
(* serveWS and the watcher write.                                          *)
(*                                                                         *)
(* The invariant is about one page at a time: its refs (p), the edits on   *)
(* the way to Redis (o and l), the frames on the way back (q) and its      *)
(* connection (k), against the history m, which is as long as the log.     *)
(***************************************************************************)
EXTENDS Editor, DocStoreProofs, SequenceTheorems

PageType == [open : BOOLEAN, text : Nat, serverVersion : Nat, lastSequence : Nat,
             operationCounter : Nat, pending : EditType,
             refused : BOOLEAN, torn : BOOLEAN, high : Nat, gap : BOOLEAN]
ConnType == [pc : {"off", "added", "state", "live", "reply"}, fed : Nat, from : Nat,
             accepted : BOOLEAN, snap : Snapshot]

\* Nobody has heard of an event beyond the end of the log.
WithinLog(n, p, q, k) ==
  /\ p.lastSequence <= n /\ p.lastSequence <= p.high /\ p.serverVersion <= n
  /\ k.fed <= n /\ k.snap.sequence <= n /\ k.snap.version <= n
  /\ \A i \in 1 .. Len(q) : q[i].sequence <= n /\ q[i].version <= n
  /\ ~p.open => k.pc = "off" /\ q = <<>>

\* The page had event n, or will have it from one of the frames before i.
HasBefore(high, q, i, n) ==
  \/ high >= n
  \/ \E j \in 1 .. i - 1 : q[j].type # "operation_result" /\ q[j].sequence >= n

(* Every event follows one the page had by then, or is the first it sees:  *)
(* an older room_state, which may stand anywhere, takes the cursor back    *)
(* but not what the page had.                                              *)
NoGaps(last, high, q, k) ==
  /\ \A i \in 1 .. Len(q) : q[i].type = "content_update" =>
       HasBefore(high, q, i, q[i].sequence - 1) \/ (i = 1 /\ last = 0)
  /\ k.pc # "off" =>
       \/ HasBefore(high, q, Len(q) + 1, k.fed)
       \/ /\ k.pc \in {"added", "state"} /\ q = <<>> /\ last = 0
          /\ k.pc = "state" => k.fed <= k.snap.sequence

\* Accepted edit n of the history m is one of page e.
Own(m, e, n) == n \in 1 .. Len(m) /\ m[n].by = e

(* A content_update shows the text of its sequence, a room_state one that  *)
(* may be older; an accepted edit is this page's; and resume_complete ends *)
(* a replay that goes on where the page is.                                *)
FrameTrue(m, e, last, q, i) ==
  LET f == q[i]
  IN  /\ f.type = "content_update" => f.content = f.sequence /\ f.version = f.sequence
      /\ f.type = "room_state" => f.content <= f.version /\ f.version <= f.sequence
      /\ f.type = "operation_result" /\ f.accepted => Own(m, e, f.version)
      /\ f.type = "resume_complete" =>
           /\ f.version = f.sequence /\ f.sequence = last + i - 1
           /\ \A j \in 1 .. i - 1 :
                q[j].type = "content_update" /\ q[j].sequence = last + j

ConnTrue(m, e, k) ==
  /\ k.pc \in {"state", "reply"} =>
       k.snap.content <= k.snap.version /\ k.snap.version <= k.snap.sequence
  /\ k.pc = "reply" /\ k.accepted => Own(m, e, k.snap.version)

(* A page shows the text of its cursor, and holds a version it shows or    *)
(* that of its own edit, or history knows why not.                         *)
PageTrue(m, e, p) ==
  /\ p.text = p.lastSequence \/ p.torn
  /\ p.serverVersion <= p.text \/ p.refused \/ p.torn \/ Own(m, e, p.serverVersion)
  /\ ~p.gap

\* Accepted edits of page e have keys below c.
KeysBelow(m, e, c) == \A i \in 1 .. Len(m) : m[i].by = e => m[i].key < c

(* An edit in flight is dead, its version being history, or newer than all *)
(* the accepted edits of its page: the first that is accepted kills the    *)
(* others, and a key stroke comes after every accepted one.                *)
EditTrue(m, e, c, x) ==
  /\ x.base <= Len(m) /\ x.key <= c
  /\ x.base < Len(m) \/ KeysBelow(m, e, x.key)
  /\ x.base <= x.text \/ x.refused \/ x.torn \/ Own(m, e, x.base)

EditsTrue(m, e, p, o, l) ==
  /\ KeysBelow(m, e, p.operationCounter + 1)
  /\ EditTrue(m, e, p.operationCounter, p.pending)
  /\ \A i \in 1 .. Len(o) : EditTrue(m, e, p.operationCounter, o[i])
  /\ \A x \in l : EditTrue(m, e, p.operationCounter, x)

FramesTrue(m, e, last, q) == \A i \in 1 .. Len(q) : FrameTrue(m, e, last, q, i)

\* What holds of one page.
PageOK(m, e, p, o, l, q, k) ==
  /\ WithinLog(Len(m), p, q, k)
  /\ NoGaps(p.lastSequence, p.high, q, k)
  /\ PageTrue(m, e, p)
  /\ ConnTrue(m, e, k)
  /\ FramesTrue(m, e, p.lastSequence, q)
  /\ EditsTrue(m, e, p, o, l)

(* Accepted edit n is newer than all its page had accepted before, and was *)
(* made from the edit before it, or history knows why not.                 *)
HistoryOK(m) ==
  \A n \in 1 .. Len(m) :
    /\ \A i \in 1 .. n - 1 : m[i].by = m[n].by => m[i].key < m[n].key
    /\ n > 1 => \/ m[n].text >= n - 1 \/ m[n].refused \/ m[n].torn
                \/ m[n - 1].by = m[n].by

EInv ==
  /\ EditorTypeOK
  /\ StoreInv /\ exists /\ Len(made) = Len(stream)
  /\ HistoryOK(made)
  /\ \A e \in Editors :
       PageOK(made, e, page[e], outbox[e], late[e], inbox[e], conn[e])

-----------------------------------------------------------------------------
\* One step, seen from one page

\* A step of page e, or of the backend for it.
Moves(e, p, o, l, q, k) ==
  /\ page'   = [page   EXCEPT ![e] = p]
  /\ outbox' = [outbox EXCEPT ![e] = o]
  /\ late'   = [late   EXCEPT ![e] = l]
  /\ inbox'  = [inbox  EXCEPT ![e] = q]
  /\ conn'   = [conn   EXCEPT ![e] = k]

\* The history only grows, here by edits of page e.
Grows(m, m2, e) ==
  /\ Len(m) <= Len(m2)
  /\ \A i \in 1 .. Len(m) : m2[i] = m[i]
  /\ \A i \in Len(m) + 1 .. Len(m2) : m2[i].by = e

\* What holds of page e, and the types to say it with.
LEMMA Typed ==
  ASSUME EInv, NEW e \in Editors
  PROVE  /\ page \in [Editors -> PageType] /\ page[e] \in PageType
         /\ outbox \in [Editors -> Seq(EditType)] /\ outbox[e] \in Seq(EditType)
         /\ late \in [Editors -> SUBSET EditType] /\ late[e] \in SUBSET EditType
         /\ inbox \in [Editors -> Seq(FrameType)] /\ inbox[e] \in Seq(FrameType)
         /\ conn \in [Editors -> ConnType] /\ conn[e] \in ConnType
         /\ made \in Seq(MadeType) /\ drops \in Nat
         /\ PageOK(made, e, page[e], outbox[e], late[e], inbox[e], conn[e])
BY DEF EInv, EditorTypeOK, PageType, ConnType

LEMMA PageFields ==
  ASSUME NEW p \in PageType
  PROVE  /\ p.lastSequence \in Nat /\ p.serverVersion \in Nat /\ p.text \in Nat
         /\ p.high \in Nat /\ p.operationCounter \in Nat /\ p.pending \in EditType
BY DEF PageType

LEMMA ConnFields ==
  ASSUME NEW k \in ConnType
  PROVE  /\ k.fed \in Nat /\ k.from \in Nat /\ k.snap \in Snapshot
         /\ k.snap.sequence \in Nat /\ k.snap.version \in Nat /\ k.snap.content \in Nat
BY DEF ConnType, Snapshot

LEMMA FrameFields ==
  ASSUME NEW f \in FrameType
  PROVE  /\ f.content \in Nat /\ f.version \in Nat /\ f.sequence \in Nat
         /\ f.type \in {"room_state", "content_update", "operation_result",
                        "resume_complete"}
BY DEF FrameType

LEMMA EditFields ==
  ASSUME NEW x \in EditType
  PROVE  x.key \in Nat /\ x.base \in Nat /\ x.text \in Nat
BY DEF EditType

\* The keys are the last entry of the log, and entry i is number i.
LEMMA Store ==
  ASSUME EInv
  PROVE  /\ Len(stream) \in Nat /\ Len(made) = Len(stream) /\ doc \in Snapshot
         /\ doc.sequence = Len(stream) /\ doc.version = Len(stream)
         /\ doc.content = Len(stream) /\ made \in Seq(MadeType)
         /\ \A i \in 1 .. Len(stream) :
              stream[i].sequence = i /\ stream[i].version = i /\ stream[i].content = i
BY DEF EInv, StoreInv, LogIsTheDocument, StoreTypeOK, EditorTypeOK

\* An edit in flight stays what it was when the history grows.
LEMMA GrowsKeepsEdit ==
  ASSUME NEW m \in Seq(MadeType), NEW m2 \in Seq(MadeType), NEW d, Grows(m, m2, d),
         NEW e, NEW c \in Nat, NEW x \in EditType, EditTrue(m, e, c, x)
  PROVE  EditTrue(m2, e, c, x)
<1>1. Len(m) \in Nat /\ Len(m2) \in Nat /\ Len(m) <= Len(m2) /\ x.base \in Nat
  BY EditFields DEF Grows
<1>2. x.base < Len(m2) \/ KeysBelow(m2, e, x.key)
  <2>1. CASE Len(m2) = Len(m)
    BY <2>1 DEF EditTrue, KeysBelow, Grows
  <2>2. CASE Len(m2) # Len(m)
    BY <1>1, <2>2 DEF EditTrue
  <2> QED  BY <2>1, <2>2
<1>3. Own(m, e, x.base) => Own(m2, e, x.base)
  BY <1>1 DEF Own, Grows
<1> QED  BY <1>1, <1>2, <1>3 DEF EditTrue

\* What a page was promised stays true when others write, and when it does.
LEMMA GrowsKeepsPage ==
  ASSUME NEW m \in Seq(MadeType), NEW m2 \in Seq(MadeType), NEW d, Grows(m, m2, d),
         NEW e \in Editors, NEW p \in PageType, NEW o \in Seq(EditType),
         NEW l \in SUBSET EditType, NEW q \in Seq(FrameType), NEW k \in ConnType,
         PageOK(m, e, p, o, l, q, k),
         d = e => \A i \in Len(m) + 1 .. Len(m2) : m2[i].key < p.operationCounter + 1
  PROVE  PageOK(m2, e, p, o, l, q, k)
<1>1. Len(m) \in Nat /\ Len(m2) \in Nat /\ Len(m) <= Len(m2)
  BY DEF Grows
<1>2. \A i : Own(m, e, i) => Own(m2, e, i)
  BY <1>1 DEF Own, Grows
<1>3. WithinLog(Len(m2), p, q, k)
  <2>1. \A i \in 1 .. Len(q) : q[i].sequence \in Nat /\ q[i].version \in Nat
    BY FrameFields
  <2>2. /\ p.lastSequence \in Nat /\ p.serverVersion \in Nat /\ k.fed \in Nat
        /\ k.snap.sequence \in Nat /\ k.snap.version \in Nat
    BY PageFields, ConnFields
  <2>3. WithinLog(Len(m), p, q, k)
    BY DEF PageOK
  <2>4. \A i \in 1 .. Len(q) : q[i].sequence <= Len(m2) /\ q[i].version <= Len(m2)
    BY <1>1, <2>1, <2>3 DEF WithinLog
  <2> QED  BY <1>1, <2>2, <2>3, <2>4 DEF WithinLog
<1>4. PageTrue(m2, e, p) /\ ConnTrue(m2, e, k)
  BY <1>2 DEF PageOK, PageTrue, ConnTrue
<1>5. FramesTrue(m2, e, p.lastSequence, q)
  BY <1>2 DEF PageOK, FramesTrue, FrameTrue
<1>6. EditsTrue(m2, e, p, o, l)
  <2>1. KeysBelow(m2, e, p.operationCounter + 1)
    <3> SUFFICES ASSUME NEW i \in 1 .. Len(m2), m2[i].by = e
                 PROVE  m2[i].key < p.operationCounter + 1
      BY DEF KeysBelow
    <3>1. CASE i \in 1 .. Len(m)
      BY <3>1 DEF PageOK, EditsTrue, KeysBelow, Grows
    <3>2. CASE i \notin 1 .. Len(m)
      <4>1. i \in Len(m) + 1 .. Len(m2)
        BY <1>1, <3>2
      <4> QED  BY <4>1 DEF Grows
    <3> QED  BY <3>1, <3>2
  <2>2. p.operationCounter \in Nat /\ p.pending \in EditType
    BY PageFields
  <2> QED  BY <2>1, <2>2, GrowsKeepsEdit DEF PageOK, EditsTrue
<1> QED  BY <1>3, <1>4, <1>5, <1>6 DEF PageOK

(* A step of page e keeps the invariant if it keeps it for page e, whatever *)
(* the store accepted meanwhile.                                           *)
LEMMA StepInv ==
  ASSUME EInv, NEW e \in Editors, NEW p \in PageType,
         NEW o \in Seq(EditType), NEW l \in SUBSET EditType,
         NEW q \in Seq(FrameType), NEW k \in ConnType, Moves(e, p, o, l, q, k),
         StoreInv', exists', drops' \in Nat,
         made' \in Seq(MadeType), Len(made') = Len(stream'), Grows(made, made', e),
         HistoryOK(made'), PageOK(made', e, p, o, l, q, k)
  PROVE  EInv'
<1>1. /\ page' \in [Editors -> PageType] /\ page'[e] = p
      /\ outbox' \in [Editors -> Seq(EditType)] /\ outbox'[e] = o
      /\ late' \in [Editors -> SUBSET EditType] /\ late'[e] = l
      /\ inbox' \in [Editors -> Seq(FrameType)] /\ inbox'[e] = q
      /\ conn' \in [Editors -> ConnType] /\ conn'[e] = k
  BY Typed DEF Moves
<1>2. EditorTypeOK'
  BY <1>1 DEF EditorTypeOK, StoreInv, PageType, ConnType
<1>3. ASSUME NEW d \in Editors
      PROVE  PageOK(made', d, page'[d], outbox'[d], late'[d], inbox'[d], conn'[d])
  <2>1. CASE d = e
    BY <1>1, <2>1
  <2>2. CASE d # e
    <3>1. /\ page'[d] = page[d] /\ outbox'[d] = outbox[d] /\ late'[d] = late[d]
          /\ inbox'[d] = inbox[d] /\ conn'[d] = conn[d]
      BY <2>2, Typed DEF Moves
    <3>2. /\ page[d] \in PageType /\ outbox[d] \in Seq(EditType)
          /\ late[d] \in SUBSET EditType /\ inbox[d] \in Seq(FrameType)
          /\ conn[d] \in ConnType /\ made \in Seq(MadeType)
          /\ PageOK(made, d, page[d], outbox[d], late[d], inbox[d], conn[d])
      BY Typed
    <3>3. PageOK(made', d, page[d], outbox[d], late[d], inbox[d], conn[d])
      BY <2>2, <3>2, GrowsKeepsPage
    <3> QED  BY <3>1, <3>3
  <2> QED  BY <2>1, <2>2
<1> QED  BY <1>2, <1>3 DEF EInv

\* The same for a step that runs no script.
LEMMA LocalStepInv ==
  ASSUME EInv, NEW e \in Editors, NEW p \in PageType,
         NEW o \in Seq(EditType), NEW l \in SUBSET EditType,
         NEW q \in Seq(FrameType), NEW k \in ConnType, Moves(e, p, o, l, q, k),
         UNCHANGED <<storeVars, made>>, drops' \in Nat,
         PageOK(made, e, p, o, l, q, k)
  PROVE  EInv'
<1>1. UNCHANGED <<exists, doc, stream, made>>
  BY DEF storeVars
<1>2. StoreInv'
  BY <1>1 DEF EInv, StoreInv, StoreTypeOK, LogIsTheDocument, NoSilentOverwrite
<1>3. Grows(made, made', e)
  BY <1>1, Store DEF Grows
<1> QED  BY <1>1, <1>2, <1>3, StepInv, Typed DEF EInv

-----------------------------------------------------------------------------
\* Frames that are written and frames that are handled

LEMMA AppendFrame ==
  ASSUME NEW q \in Seq(FrameType), NEW f \in FrameType
  PROVE  /\ Append(q, f) \in Seq(FrameType) /\ Len(q) \in Nat
         /\ Len(Append(q, f)) = Len(q) + 1 /\ Append(q, f)[Len(q) + 1] = f
         /\ \A i \in 1 .. Len(q) : Append(q, f)[i] = q[i]
         /\ Append(q, f) # <<>>
OBVIOUS

LEMMA TailFrames ==
  ASSUME NEW q \in Seq(FrameType), q # <<>>
  PROVE  /\ Tail(q) \in Seq(FrameType) /\ Head(q) = q[1] /\ q[1] \in FrameType
         /\ Len(q) \in Nat /\ Len(Tail(q)) = Len(q) - 1 /\ Len(q) >= 1
         /\ \A i \in 1 .. Len(Tail(q)) : Tail(q)[i] = q[i + 1]
OBVIOUS

LEMMA PrefixFrames ==
  ASSUME NEW q \in Seq(FrameType), NEW n \in 0 .. Len(q)
  PROVE  /\ SubSeq(q, 1, n) \in Seq(FrameType) /\ Len(SubSeq(q, 1, n)) = n
         /\ \A i \in 1 .. n : SubSeq(q, 1, n)[i] = q[i]
OBVIOUS

\* A frame that is no event: an answer, or a room_state.
LEMMA AnswerNoGaps ==
  ASSUME NEW q \in Seq(FrameType), NEW f \in FrameType, NEW last \in Nat, NEW high \in Nat,
         NEW k \in ConnType, NEW k2 \in ConnType, NoGaps(last, high, q, k),
         k.pc \in {"state", "reply"}, k2.fed = k.fed, f.type # "content_update",
         k.pc = "state" => f.type # "operation_result" /\ f.sequence = k.snap.sequence
  PROVE  NoGaps(last, high, Append(q, f), k2)
<1> DEFINE r == Append(q, f)
<1>1. /\ Len(q) \in Nat /\ Len(r) = Len(q) + 1 /\ r[Len(q) + 1] = f
      /\ \A i \in 1 .. Len(q) : r[i] = q[i]
  BY AppendFrame
<1> HIDE DEF r
<1>2. \A i \in 1 .. Len(q) + 1, n \in Int :
        HasBefore(high, q, i, n) => HasBefore(high, r, i, n)
  BY <1>1 DEF HasBefore
<1>3. ASSUME NEW i \in 1 .. Len(r), r[i].type = "content_update"
      PROVE  HasBefore(high, r, i, r[i].sequence - 1) \/ (i = 1 /\ last = 0)
  <2>1. i \in 1 .. Len(q) /\ r[i] = q[i]
    BY <1>1, <1>3
  <2>2. q[i].sequence - 1 \in Int
    BY <2>1, FrameFields
  <2> QED  BY <1>1, <1>2, <1>3, <2>1, <2>2 DEF NoGaps
<1>4. HasBefore(high, r, Len(r) + 1, k2.fed)
  <2>1. CASE HasBefore(high, q, Len(q) + 1, k.fed)
    BY <1>1, <2>1 DEF HasBefore
  <2>2. CASE k.pc = "state" /\ k.fed <= k.snap.sequence
    BY <1>1, <2>2 DEF HasBefore
  <2> QED  BY <2>1, <2>2 DEF NoGaps
<1> QED  BY <1>3, <1>4 DEF NoGaps, r

\* The next event of the watcher.
LEMMA FeedNoGaps ==
  ASSUME NEW q \in Seq(FrameType), NEW f \in FrameType, NEW last \in Nat, NEW high \in Nat,
         NEW k \in ConnType, NEW k2 \in ConnType, NoGaps(last, high, q, k),
         k.pc # "off", k2.fed = k.fed + 1,
         f.type = "content_update", f.sequence = k.fed + 1
  PROVE  NoGaps(last, high, Append(q, f), k2)
<1> DEFINE r == Append(q, f)
<1>1. /\ Len(q) \in Nat /\ Len(r) = Len(q) + 1 /\ r[Len(q) + 1] = f
      /\ \A i \in 1 .. Len(q) : r[i] = q[i]
  BY AppendFrame
<1> HIDE DEF r
<1>2. \A i \in 1 .. Len(q) + 1, n \in Int :
        HasBefore(high, q, i, n) => HasBefore(high, r, i, n)
  BY <1>1 DEF HasBefore
<1>3. ASSUME NEW i \in 1 .. Len(r), r[i].type = "content_update"
      PROVE  HasBefore(high, r, i, r[i].sequence - 1) \/ (i = 1 /\ last = 0)
  <2>1. CASE i \in 1 .. Len(q)
    <3>1. q[i].sequence - 1 \in Int
      BY <2>1, FrameFields
    <3> QED  BY <1>1, <1>2, <1>3, <2>1, <3>1 DEF NoGaps
  <2>2. CASE i = Len(q) + 1
    <3>1. k.fed \in Nat /\ r[i].sequence - 1 = k.fed
      BY <1>1, <2>2, ConnFields
    <3>2. CASE HasBefore(high, q, Len(q) + 1, k.fed)
      BY <1>1, <1>2, <2>2, <3>1, <3>2
    <3>3. CASE q = <<>> /\ last = 0
      BY <1>1, <2>2, <3>3
    <3> QED  BY <3>2, <3>3 DEF NoGaps
  <2> QED  BY <1>1, <2>1, <2>2
<1>4. HasBefore(high, r, Len(r) + 1, k2.fed)
  BY <1>1, ConnFields DEF HasBefore
<1> QED  BY <1>3, <1>4 DEF NoGaps, r

LEMMA WriteTrue ==
  ASSUME NEW q \in Seq(FrameType), NEW f \in FrameType, NEW last \in Nat,
         NEW m, NEW e, FramesTrue(m, e, last, q), f.type # "resume_complete",
         f.type = "content_update" => f.content = f.sequence /\ f.version = f.sequence,
         f.type = "room_state" => f.content <= f.version /\ f.version <= f.sequence,
         f.type = "operation_result" /\ f.accepted => Own(m, e, f.version)
  PROVE  FramesTrue(m, e, last, Append(q, f))
<1> DEFINE r == Append(q, f)
<1>1. /\ Len(q) \in Nat /\ Len(r) = Len(q) + 1 /\ r[Len(q) + 1] = f
      /\ \A i \in 1 .. Len(q) : r[i] = q[i]
  BY AppendFrame
<1> HIDE DEF r
<1>2. ASSUME NEW i \in 1 .. Len(q) PROVE FrameTrue(m, e, last, r, i)
  <2>1. FrameTrue(m, e, last, q, i) /\ r[i] = q[i] /\ \A j \in 1 .. i - 1 : r[j] = q[j]
    BY <1>1 DEF FramesTrue
  <2> QED  BY <2>1 DEF FrameTrue
<1>3. FrameTrue(m, e, last, r, Len(q) + 1)
  BY <1>1 DEF FrameTrue
<1> QED  BY <1>1, <1>2, <1>3 DEF FramesTrue, r

(* The first frame is handled: the page has had its sequence since, if it  *)
(* has one.                                                                *)
LEMMA HandledNoGaps ==
  ASSUME NEW q \in Seq(FrameType), q # <<>>, NEW last \in Nat, NEW next \in Nat,
         NEW high \in Nat, NEW higher \in Nat, NEW k \in ConnType,
         NoGaps(last, high, q, k), high <= higher,
         q[1].type # "operation_result" => q[1].sequence <= higher
  PROVE  NoGaps(next, higher, Tail(q), k)
<1> DEFINE r == Tail(q)
<1>1. /\ Len(q) \in Nat /\ Len(q) >= 1 /\ Len(r) = Len(q) - 1
      /\ \A i \in 1 .. Len(r) : r[i] = q[i + 1]
      /\ \A i \in 1 .. Len(q) : q[i].sequence \in Nat
  BY TailFrames, FrameFields
<1> HIDE DEF r
<1>2. \A i \in 1 .. Len(r) + 1, n \in Int :
        HasBefore(high, q, i + 1, n) => HasBefore(higher, r, i, n)
  <2> SUFFICES ASSUME NEW i \in 1 .. Len(r) + 1, NEW n \in Int,
                      HasBefore(high, q, i + 1, n), ~(high >= n)
               PROVE  HasBefore(higher, r, i, n)
    BY DEF HasBefore
  <2> PICK j \in 1 .. (i + 1) - 1 : q[j].type # "operation_result" /\ q[j].sequence >= n
    BY DEF HasBefore
  <2>1. CASE j = 1
    BY <1>1, <2>1 DEF HasBefore
  <2>2. CASE j # 1
    <3>1. j - 1 \in 1 .. i - 1 /\ r[j - 1] = q[j]
      BY <1>1, <2>2
    <3> QED  BY <3>1 DEF HasBefore
  <2> QED  BY <2>1, <2>2
<1>3. ASSUME NEW i \in 1 .. Len(r), r[i].type = "content_update"
      PROVE  HasBefore(higher, r, i, r[i].sequence - 1)
  <2>1. i + 1 \in 1 .. Len(q) /\ i + 1 # 1 /\ r[i] = q[i + 1]
    BY <1>1
  <2>2. q[i + 1].sequence - 1 \in Int /\ i \in 1 .. Len(r) + 1
    BY <1>1, <2>1
  <2> QED  BY <1>2, <1>3, <2>1, <2>2 DEF NoGaps
<1>4. k.pc # "off" => HasBefore(higher, r, Len(r) + 1, k.fed)
  <2>1. Len(r) + 1 \in 1 .. Len(r) + 1 /\ Len(r) + 1 = Len(q) /\ k.fed \in Int
    BY <1>1, ConnFields
  <2> QED  BY <1>2, <2>1 DEF NoGaps
<1> QED  BY <1>3, <1>4 DEF NoGaps, r

LEMMA HandledTrue ==
  ASSUME NEW q \in Seq(FrameType), q # <<>>, NEW last \in Nat, NEW next \in Nat,
         NEW m, NEW e, FramesTrue(m, e, last, q),
         q[1].type = "content_update" /\ q[1].sequence = last + 1 => next = last + 1
  PROVE  FramesTrue(m, e, next, Tail(q))
<1> DEFINE r == Tail(q)
<1>1. /\ Len(q) \in Nat /\ Len(q) >= 1 /\ Len(r) = Len(q) - 1
      /\ \A i \in 1 .. Len(r) : r[i] = q[i + 1]
  BY TailFrames
<1> HIDE DEF r
<1>2. ASSUME NEW i \in 1 .. Len(r) PROVE FrameTrue(m, e, next, r, i)
  <2>1. FrameTrue(m, e, last, q, i + 1) /\ r[i] = q[i + 1]
    BY <1>1 DEF FramesTrue
  <2>2. CASE r[i].type = "resume_complete"
    <3>1. /\ q[i + 1].version = q[i + 1].sequence /\ q[i + 1].sequence = last + i
          /\ \A j \in 1 .. i : q[j].type = "content_update" /\ q[j].sequence = last + j
      BY <2>1, <2>2 DEF FrameTrue
    <3>2. next = last + 1
      BY <3>1
    <3>3. \A j \in 1 .. i - 1 : r[j].type = "content_update" /\ r[j].sequence = next + j
      <4> SUFFICES ASSUME NEW j \in 1 .. i - 1
                   PROVE  r[j].type = "content_update" /\ r[j].sequence = next + j
        OBVIOUS
      <4>1. r[j] = q[j + 1] /\ j + 1 \in 1 .. i
        BY <1>1
      <4> QED  BY <3>1, <3>2, <4>1
    <3> QED  BY <2>1, <2>2, <3>1, <3>2, <3>3 DEF FrameTrue
  <2>3. CASE r[i].type # "resume_complete"
    BY <2>1, <2>3 DEF FrameTrue
  <2> QED  BY <2>2, <2>3
<1> QED  BY <1>2 DEF FramesTrue, r

-----------------------------------------------------------------------------
\* The user

\* What a page holds of its connection and of the document is not disturbed.
LEMMA SamePage ==
  ASSUME NEW m, NEW e, NEW p, NEW p2, NEW o, NEW l, NEW o2, NEW l2, NEW q, NEW k,
         PageOK(m, e, p, o, l, q, k), EditsTrue(m, e, p2, o2, l2),
         p2.open = p.open, p2.lastSequence = p.lastSequence, p2.high = p.high,
         p2.serverVersion = p.serverVersion, p2.text = p.text,
         p2.refused = p.refused, p2.torn = p.torn, p2.gap = p.gap
  PROVE  PageOK(m, e, p2, o2, l2, q, k)
BY DEF PageOK, WithinLog, PageTrue

\* A key stroke gives an edit the version that goes with the text, if any.
LEMMA TypeInv == ASSUME EInv, NEW e \in Editors, Type(e) PROVE EInv'
<1> DEFINE c == page[e].operationCounter + 1
           x == [key |-> c, base |-> page[e].serverVersion, text |-> page[e].text,
                 refused |-> page[e].refused, torn |-> page[e].torn]
           p == [page[e] EXCEPT !.operationCounter = c, !.pending = x]
<1>1. /\ page' = [page EXCEPT ![e] = p]
      /\ UNCHANGED <<storeVars, outbox, late, inbox, conn, made, drops>>
  BY DEF Type
<1>2. page[e] \in PageType /\ c \in Nat /\ page[e].operationCounter \in Nat
  BY Typed, PageFields
<1>3. /\ x \in EditType /\ x.key = c /\ x.base = page[e].serverVersion
      /\ x.text = page[e].text /\ x.refused = page[e].refused /\ x.torn = page[e].torn
  BY <1>2 DEF PageType, EditType
<1> HIDE DEF x
<1>4. /\ p \in PageType /\ p.open = page[e].open /\ p.lastSequence = page[e].lastSequence
      /\ p.high = page[e].high /\ p.serverVersion = page[e].serverVersion
      /\ p.text = page[e].text /\ p.refused = page[e].refused /\ p.torn = page[e].torn
      /\ p.gap = page[e].gap /\ p.pending = x /\ p.operationCounter = c
  BY <1>2, <1>3 DEF PageType
<1> HIDE DEF p
<1>5. Moves(e, p, outbox[e], late[e], inbox[e], conn[e])
  BY <1>1, Typed DEF Moves
<1>6. PageOK(made, e, page[e], outbox[e], late[e], inbox[e], conn[e])
  BY Typed
<1>7. EditsTrue(made, e, p, outbox[e], late[e])
  <2>1. EditsTrue(made, e, page[e], outbox[e], late[e])
    BY <1>6 DEF PageOK
  <2>2. KeysBelow(made, e, c)
    BY <2>1 DEF EditsTrue
  <2>3. KeysBelow(made, e, c + 1)
    <3>1. made \in Seq(MadeType)
      BY Typed
    <3>2. \A i \in 1 .. Len(made) : made[i] \in MadeType
      BY <3>1
    <3>3. \A i \in 1 .. Len(made) : made[i].key \in Nat
      BY <3>2 DEF MadeType
    <3> QED  BY <1>2, <2>2, <3>3 DEF KeysBelow
  <2>4. EditTrue(made, e, c, x)
    BY <1>2, <1>3, <1>6, <2>2, PageFields DEF PageOK, WithinLog, PageTrue, EditTrue
  <2>5. \A y \in EditType : EditTrue(made, e, page[e].operationCounter, y)
                            => EditTrue(made, e, c, y)
    BY <1>2, EditFields DEF EditTrue
  <2>6. /\ \A i \in 1 .. Len(outbox[e]) : outbox[e][i] \in EditType
        /\ \A y \in late[e] : y \in EditType
    BY Typed
  <2> HIDE DEF c
  <2> QED  BY <1>4, <2>1, <2>3, <2>4, <2>5, <2>6 DEF EditsTrue
<1>8. PageOK(made, e, p, outbox[e], late[e], inbox[e], conn[e])
  BY <1>4, <1>6, <1>7, SamePage
<1> QED  BY <1>1, <1>4, <1>5, <1>8, LocalStepInv, Typed

\* No edit: it carries version 0 and shows version 0.
LEMMA NoEditTrue ==
  /\ NoEdit \in EditType
  /\ \A m \in Seq(MadeType), c \in Nat : \A e : EditTrue(m, e, c, NoEdit)
<1>1. NoEdit \in EditType /\ NoEdit.base = 0 /\ NoEdit.text = 0 /\ NoEdit.key = 0
  BY DEF NoEdit, EditType
<1>2. ASSUME NEW m \in Seq(MadeType), NEW e, NEW c \in Nat PROVE EditTrue(m, e, c, NoEdit)
  <2>1. Len(m) \in Nat
    OBVIOUS
  <2>2. Len(m) = 0 => KeysBelow(m, e, NoEdit.key)
    BY DEF KeysBelow
  <2> QED  BY <1>1, <2>1, <2>2 DEF EditTrue
<1> QED  BY <1>1, <1>2

LEMMA FireInv == ASSUME EInv, NEW e \in Editors, Fire(e) PROVE EInv'
<1> DEFINE p == [page[e] EXCEPT !.pending = NoEdit]
           o == IF page[e].open THEN Append(outbox[e], page[e].pending) ELSE outbox[e]
<1>1. /\ page' = [page EXCEPT ![e] = p] /\ outbox' = [outbox EXCEPT ![e] = o]
      /\ UNCHANGED <<storeVars, late, inbox, conn, made, drops>>
  BY Typed DEF Fire
<1>2. page[e] \in PageType /\ page[e].pending \in EditType /\ outbox[e] \in Seq(EditType)
  BY Typed, PageFields
<1>3. /\ p \in PageType /\ p.open = page[e].open /\ p.lastSequence = page[e].lastSequence
      /\ p.high = page[e].high /\ p.serverVersion = page[e].serverVersion
      /\ p.text = page[e].text /\ p.refused = page[e].refused /\ p.torn = page[e].torn
      /\ p.gap = page[e].gap /\ p.pending = NoEdit
      /\ p.operationCounter = page[e].operationCounter
  BY <1>2, NoEditTrue DEF PageType
<1>4. /\ o \in Seq(EditType)
      /\ \A i \in 1 .. Len(o) : o[i] = page[e].pending
                               \/ (i \in 1 .. Len(outbox[e]) /\ o[i] = outbox[e][i])
  BY <1>2
<1> HIDE DEF p, o
<1>5. Moves(e, p, o, late[e], inbox[e], conn[e])
  BY <1>1, Typed DEF Moves
<1>6. PageOK(made, e, page[e], outbox[e], late[e], inbox[e], conn[e])
  BY Typed
<1>7. EditsTrue(made, e, p, o, late[e])
  <2>1. EditTrue(made, e, page[e].operationCounter, NoEdit)
    BY Typed, PageFields, NoEditTrue
  <2> QED  BY <1>3, <1>4, <1>6, <2>1 DEF PageOK, EditsTrue
<1>8. PageOK(made, e, p, o, late[e], inbox[e], conn[e])
  BY <1>3, <1>6, <1>7, SamePage
<1> QED  BY <1>1, <1>3, <1>4, <1>5, <1>8, LocalStepInv, Typed

-----------------------------------------------------------------------------
\* Connections

LEMMA OffConn ==
  /\ NoConn \in ConnType /\ NoConn.pc = "off" /\ NoConn.fed = 0
  /\ NoConn.snap.sequence = 0 /\ NoConn.snap.version = 0
BY DEF NoConn, EmptyDoc, ConnType, Snapshot

LEMMA LiveConn ==
  ASSUME NEW n \in Nat
  PROVE  /\ Live(n) \in ConnType /\ Live(n).pc = "live" /\ Live(n).fed = n
         /\ Live(n).snap.sequence = 0 /\ Live(n).snap.version = 0
BY OffConn DEF Live, ConnType

\* A page that opens its socket stays what it was.
LEMMA OpenPage ==
  ASSUME EInv, NEW e \in Editors, NEW open \in BOOLEAN
  PROVE  LET p == [page[e] EXCEPT !.open = open]
         IN  /\ p \in PageType /\ p.open = open /\ p.lastSequence = page[e].lastSequence
             /\ p.high = page[e].high /\ p.serverVersion = page[e].serverVersion
             /\ p.text = page[e].text /\ p.refused = page[e].refused
             /\ p.torn = page[e].torn /\ p.gap = page[e].gap
             /\ p.pending = page[e].pending
             /\ p.operationCounter = page[e].operationCounter
             /\ PageTrue(made, e, p)
             /\ EditsTrue(made, e, p, outbox[e], late[e])
<1> DEFINE p == [page[e] EXCEPT !.open = open]
<1>1. page[e] \in PageType
  BY Typed
<1>2. /\ p \in PageType /\ p.open = open /\ p.lastSequence = page[e].lastSequence
      /\ p.high = page[e].high /\ p.serverVersion = page[e].serverVersion
      /\ p.text = page[e].text /\ p.refused = page[e].refused
      /\ p.torn = page[e].torn /\ p.gap = page[e].gap
      /\ p.pending = page[e].pending
      /\ p.operationCounter = page[e].operationCounter
  BY <1>1 DEF PageType
<1> HIDE DEF p
<1>3. PageTrue(made, e, p) /\ EditsTrue(made, e, p, outbox[e], late[e])
  BY <1>2, Typed DEF PageOK, PageTrue, EditsTrue
<1> QED  BY <1>2, <1>3 DEF p

\* A page that never saw a text is in the log, and nothing is on its way.
LEMMA ConnectFreshInv == ASSUME EInv, NEW e \in Editors, ConnectFresh(e) PROVE EInv'
<1> DEFINE p == [page[e] EXCEPT !.open = TRUE]
<1>1. PICK fed \in 0 .. Len(stream) :
        conn' = [conn EXCEPT ![e] = [NoConn EXCEPT !.pc = "added", !.fed = fed,
                                                   !.from = Len(stream)]]
  BY DEF ConnectFresh
<1> DEFINE k == [NoConn EXCEPT !.pc = "added", !.fed = fed, !.from = Len(stream)]
<1>2. /\ ~page[e].open /\ page[e].lastSequence = 0 /\ page' = [page EXCEPT ![e] = p]
      /\ UNCHANGED <<storeVars, outbox, late, inbox, made, drops>>
  BY DEF ConnectFresh
<1>3. /\ p \in PageType /\ p.open /\ p.lastSequence = page[e].lastSequence
      /\ p.high = page[e].high /\ p.serverVersion = page[e].serverVersion
      /\ PageTrue(made, e, p) /\ EditsTrue(made, e, p, outbox[e], late[e])
  BY OpenPage
<1>4. /\ k \in ConnType /\ k.pc = "added" /\ k.fed = fed
      /\ k.snap.sequence = 0 /\ k.snap.version = 0
  <2>1. Len(stream) \in Nat /\ fed \in Nat
    BY Store
  <2> QED  BY <2>1, OffConn DEF ConnType
<1> HIDE DEF p, k
<1>5. Moves(e, p, outbox[e], late[e], inbox[e], k)
  BY <1>1, <1>2, Typed DEF Moves, k
<1>6. PageOK(made, e, page[e], outbox[e], late[e], inbox[e], conn[e])
  BY Typed
<1>7. inbox[e] = <<>>
  BY <1>2, <1>6 DEF PageOK, WithinLog
<1>8. WithinLog(Len(made), p, inbox[e], k)
  BY <1>1, <1>3, <1>4, <1>6, Store DEF PageOK, WithinLog
<1>9. NoGaps(p.lastSequence, p.high, inbox[e], k)
  BY <1>2, <1>3, <1>4, <1>7 DEF NoGaps
<1>10. ConnTrue(made, e, k)
  BY <1>4 DEF ConnTrue
<1>11. PageOK(made, e, p, outbox[e], late[e], inbox[e], k)
  BY <1>3, <1>6, <1>8, <1>9, <1>10 DEF PageOK
<1> QED  BY <1>2, <1>3, <1>4, <1>5, <1>11, LocalStepInv, Typed

(* The content and the version of a snapshot may be older than its         *)
(* sequence, which is read last and is the one of this moment.             *)
LEMMA ReadSnapshotInv == ASSUME EInv, NEW e \in Editors, ReadSnapshot(e) PROVE EInv'
<1>1. PICK content, version \in conn[e].from .. doc.sequence :
        /\ content <= version
        /\ conn' = [conn EXCEPT ![e] =
             [conn[e] EXCEPT !.pc = "state", !.from = 0,
                             !.snap = [content |-> content, version |-> version,
                                       sequence |-> doc.sequence]]]
  BY Typed DEF ReadSnapshot
<1> DEFINE s == [content |-> content, version |-> version, sequence |-> doc.sequence]
           k == [conn[e] EXCEPT !.pc = "state", !.from = 0, !.snap = s]
<1>2. /\ conn[e].pc = "added"
      /\ UNCHANGED <<storeVars, page, outbox, late, inbox, made, drops>>
  BY DEF ReadSnapshot
<1>3. /\ s \in Snapshot /\ s.sequence = Len(made)
      /\ s.content <= s.version /\ s.version <= s.sequence
  <2>1. content \in Nat /\ version \in Nat /\ doc.sequence \in Nat
        /\ version <= doc.sequence
    BY <1>1, Typed, ConnFields, Store
  <2> QED  BY <1>1, <2>1, Store DEF Snapshot
<1> HIDE DEF s
<1>4. k \in ConnType /\ k.pc = "state" /\ k.fed = conn[e].fed /\ k.snap = s
  BY <1>3, Typed DEF ConnType
<1> HIDE DEF k
<1>5. Moves(e, page[e], outbox[e], late[e], inbox[e], k)
  BY <1>1, <1>2, Typed DEF Moves, k, s
<1>6. PageOK(made, e, page[e], outbox[e], late[e], inbox[e], conn[e])
  BY Typed
<1>7. WithinLog(Len(made), page[e], inbox[e], k)
  BY <1>2, <1>3, <1>4, <1>6 DEF PageOK, WithinLog
<1>8. NoGaps(page[e].lastSequence, page[e].high, inbox[e], k)
  BY <1>2, <1>3, <1>4, <1>6 DEF PageOK, WithinLog, NoGaps
<1>9. ConnTrue(made, e, k)
  BY <1>3, <1>4 DEF ConnTrue
<1>10. PageOK(made, e, page[e], outbox[e], late[e], inbox[e], k)
  BY <1>6, <1>7, <1>8, <1>9 DEF PageOK
<1> QED  BY <1>2, <1>4, <1>5, <1>10, LocalStepInv, Typed

\* A frame of the backend that waits for nothing but its turn.
LEMMA WriteInv ==
  ASSUME EInv, NEW e \in Editors, NEW f \in FrameType, NEW k \in ConnType,
         inbox' = [inbox EXCEPT ![e] = Append(inbox[e], f)],
         conn' = [conn EXCEPT ![e] = k],
         UNCHANGED <<storeVars, page, outbox, late, made, drops>>,
         conn[e].pc # "off", k.fed <= Len(made),
         k.snap.sequence <= Len(made), k.snap.version <= Len(made),
         f.sequence <= Len(made), f.version <= Len(made), ConnTrue(made, e, k),
         NoGaps(page[e].lastSequence, page[e].high, Append(inbox[e], f), k),
         FramesTrue(made, e, page[e].lastSequence, Append(inbox[e], f))
  PROVE  EInv'
<1> DEFINE q == Append(inbox[e], f)
<1>1. /\ q \in Seq(FrameType) /\ q # <<>> /\ Len(q) = Len(inbox[e]) + 1
      /\ q[Len(inbox[e]) + 1] = f /\ Len(inbox[e]) \in Nat
      /\ \A i \in 1 .. Len(inbox[e]) : q[i] = inbox[e][i]
  BY Typed, AppendFrame
<1>2. PageOK(made, e, page[e], outbox[e], late[e], inbox[e], conn[e])
  BY Typed
<1>3. Moves(e, page[e], outbox[e], late[e], q, k)
  BY Typed DEF Moves
<1>4. WithinLog(Len(made), page[e], q, k)
  <2> HIDE DEF q
  <2> QED  BY <1>1, <1>2 DEF PageOK, WithinLog
<1>5. PageOK(made, e, page[e], outbox[e], late[e], q, k)
  BY <1>2, <1>4 DEF PageOK
<1> QED  BY <1>1, <1>3, <1>5, LocalStepInv, Typed

LEMMA WriteStateInv == ASSUME EInv, NEW e \in Editors, WriteState(e) PROVE EInv'
<1> DEFINE c == conn[e]
           f == RoomState(c.snap)
           k == Live(c.fed)
<1>1. /\ c.pc = "state" /\ inbox' = [inbox EXCEPT ![e] = Append(inbox[e], f)]
      /\ conn' = [conn EXCEPT ![e] = k]
      /\ UNCHANGED <<storeVars, page, outbox, late, made, drops>>
  BY Typed DEF WriteState
<1>2. /\ f \in FrameType /\ f.type = "room_state" /\ f.sequence = c.snap.sequence
      /\ f.content = c.snap.content /\ f.version = c.snap.version
  BY Typed, ConnFields DEF RoomState, FrameType
<1>3. /\ k \in ConnType /\ k.pc = "live" /\ k.fed = c.fed
      /\ k.snap.sequence = 0 /\ k.snap.version = 0
  BY Typed, ConnFields, LiveConn
<1> HIDE DEF f, k
<1>4. PageOK(made, e, page[e], outbox[e], late[e], inbox[e], c)
  BY Typed
<1>5. /\ c \in ConnType /\ inbox[e] \in Seq(FrameType) /\ Len(made) \in Nat
      /\ page[e].lastSequence \in Nat /\ page[e].high \in Nat
  BY Typed, PageFields, Store
<1>6. NoGaps(page[e].lastSequence, page[e].high, Append(inbox[e], f), k)
  <2> HIDE DEF c
  <2> QED  BY <1>1, <1>2, <1>3, <1>4, <1>5, AnswerNoGaps DEF PageOK
<1>7. FramesTrue(made, e, page[e].lastSequence, Append(inbox[e], f))
  <2>1. f.content <= f.version /\ f.version <= f.sequence
    BY <1>1, <1>2, <1>4 DEF PageOK, ConnTrue
  <2> QED  BY <1>2, <1>4, <1>5, <2>1, WriteTrue DEF PageOK
<1>8. ConnTrue(made, e, k)
  BY <1>3 DEF ConnTrue
<1>9. c.fed <= Len(made) /\ c.snap.sequence <= Len(made) /\ c.snap.version <= Len(made)
  BY <1>4 DEF PageOK, WithinLog
<1>10. /\ k.fed <= Len(made) /\ k.snap.sequence <= Len(made)
       /\ k.snap.version <= Len(made)
       /\ f.sequence <= Len(made) /\ f.version <= Len(made)
  BY <1>2, <1>3, <1>5, <1>9
<1>11. c.pc # "off" /\ f \in FrameType /\ k \in ConnType
  BY <1>1, <1>2, <1>3
<1> QED  BY <1>1, <1>6, <1>7, <1>8, <1>10, <1>11, WriteInv


\* A replay goes on where the page is and ends where the watcher goes on.
LEMMA ResumeInv == ASSUME EInv, NEW e \in Editors, Resume(e) PROVE EInv'
<1> DEFINE n == Len(stream)
           last == page[e].lastSequence
           p == [page[e] EXCEPT !.open = TRUE]
           replay == [i \in 1 .. n - last |-> ContentUpdate(last + i)]
           q == replay \o <<ResumeComplete>>
           k == Live(n)
<1>1. /\ ~page[e].open /\ last > 0 /\ last <= doc.sequence
      /\ page' = [page EXCEPT ![e] = p] /\ inbox' = [inbox EXCEPT ![e] = q]
      /\ conn' = [conn EXCEPT ![e] = k]
      /\ UNCHANGED <<storeVars, outbox, late, made, drops>>
  BY Typed DEF Resume
<1>2. n \in Nat /\ last \in Nat /\ n - last \in Nat /\ page[e].high \in Nat
  BY <1>1, Typed, PageFields, Store
<1>3. ASSUME NEW j \in 1 .. n
      PROVE  /\ ContentUpdate(j) \in FrameType /\ ContentUpdate(j).type = "content_update"
             /\ ContentUpdate(j).sequence = j /\ ContentUpdate(j).version = j
             /\ ContentUpdate(j).content = j
  BY Store DEF ContentUpdate, FrameType
<1>4. /\ ResumeComplete \in FrameType /\ ResumeComplete.type = "resume_complete"
      /\ ResumeComplete.sequence = n /\ ResumeComplete.version = n
  BY Store DEF ResumeComplete, FrameType
<1>5. /\ replay \in Seq(FrameType) /\ Len(replay) = n - last
      /\ \A i \in 1 .. n - last : replay[i] = ContentUpdate(last + i)
  <2>1. \A i \in 1 .. n - last : ContentUpdate(last + i) \in FrameType
    BY <1>2, <1>3
  <2> QED  BY <1>2, <2>1
<1>6. /\ q \in Seq(FrameType) /\ Len(q) = n - last + 1
      /\ \A i \in 1 .. n - last : /\ q[i].type = "content_update"
                               /\ q[i].sequence = last + i
                               /\ q[i].version = last + i /\ q[i].content = last + i
      /\ q[n - last + 1] = ResumeComplete
  <2> HIDE DEF replay, n, last
  <2>1. q = Append(replay, ResumeComplete)
    BY <1>4, <1>5, AppendIsConcat
  <2> HIDE DEF q
  <2>2. /\ q \in Seq(FrameType) /\ Len(q) = Len(replay) + 1
        /\ q[Len(replay) + 1] = ResumeComplete
        /\ \A i \in 1 .. Len(replay) : q[i] = replay[i]
    BY <1>4, <1>5, <2>1, AppendFrame
  <2>3. q[n - last + 1] = ResumeComplete /\ q \in Seq(FrameType) /\ Len(q) = n - last + 1
    BY <1>5, <2>2
  <2>4. ASSUME NEW i \in 1 .. n - last
        PROVE  /\ q[i].type = "content_update" /\ q[i].sequence = last + i
               /\ q[i].version = last + i /\ q[i].content = last + i
    <3>1. q[i] = ContentUpdate(last + i) /\ last + i \in 1 .. n
      BY <1>2, <1>5, <2>2
    <3> QED  BY <1>3, <3>1
  <2> QED  BY <2>2, <2>3, <2>4
<1>7. /\ p \in PageType /\ p.open /\ p.lastSequence = last /\ p.high = page[e].high
      /\ p.serverVersion = page[e].serverVersion
      /\ PageTrue(made, e, p) /\ EditsTrue(made, e, p, outbox[e], late[e])
  BY OpenPage
<1>8. /\ k \in ConnType /\ k.pc = "live" /\ k.fed = n
      /\ k.snap.sequence = 0 /\ k.snap.version = 0
  BY <1>2, LiveConn
<1>9. Moves(e, p, outbox[e], late[e], q, k)
  BY <1>1, Typed DEF Moves
<1> HIDE DEF p, k, q, replay, n, last
<1>10. /\ PageOK(made, e, page[e], outbox[e], late[e], inbox[e], conn[e])
       /\ Len(made) = n
  BY Typed, Store DEF n
<1>11. WithinLog(Len(made), p, q, k)
  <2>1. last <= n /\ last <= page[e].high /\ page[e].serverVersion <= n
    BY <1>1, <1>10, Store DEF n, last, PageOK, WithinLog
  <2>2. \A i \in 1 .. Len(q) : q[i].sequence <= n /\ q[i].version <= n
    BY <1>2, <1>4, <1>6
  <2> QED  BY <1>2, <1>7, <1>8, <1>10, <2>1, <2>2 DEF WithinLog
<1>12. NoGaps(last, page[e].high, q, k)
  <2>1. ASSUME NEW i \in 1 .. Len(q), q[i].type = "content_update"
        PROVE  HasBefore(page[e].high, q, i, q[i].sequence - 1)
    <3>1. i \in 1 .. n - last /\ q[i].sequence = last + i
      BY <1>2, <1>4, <1>6, <2>1
    <3>2. CASE i = 1
      <4>1. last <= page[e].high
        BY <1>10 DEF PageOK, WithinLog, last
      <4> QED  BY <1>2, <3>1, <3>2, <4>1 DEF HasBefore
    <3>3. CASE i # 1
      <4>1. i - 1 \in 1 .. n - last /\ i - 1 \in 1 .. i - 1
        BY <1>2, <3>1, <3>3
      <4>2. q[i - 1].type = "content_update" /\ q[i - 1].sequence = last + i - 1
        BY <1>2, <1>6, <4>1
      <4> QED  BY <1>2, <3>1, <4>1, <4>2 DEF HasBefore
    <3> QED  BY <3>2, <3>3
  <2>2. HasBefore(page[e].high, q, Len(q) + 1, k.fed)
    BY <1>2, <1>4, <1>6, <1>8 DEF HasBefore
  <2> QED  BY <2>1, <2>2 DEF NoGaps
<1>13. FramesTrue(made, e, last, q)
  <2>1. \A i \in 1 .. n - last : FrameTrue(made, e, last, q, i)
    BY <1>6 DEF FrameTrue
  <2>2. FrameTrue(made, e, last, q, n - last + 1)
    BY <1>2, <1>4, <1>6 DEF FrameTrue
  <2> QED  BY <1>2, <1>6, <2>1, <2>2 DEF FramesTrue
<1>14. ConnTrue(made, e, k)
  BY <1>8 DEF ConnTrue
<1>15. PageOK(made, e, p, outbox[e], late[e], q, k)
  BY <1>7, <1>11, <1>12, <1>13, <1>14 DEF PageOK
<1> QED  BY <1>1, <1>6, <1>7, <1>8, <1>9, <1>15, LocalStepInv, Typed

\* What was written is cut short, and what was sent may still be read.
LEMMA DropInv == ASSUME EInv, NEW e \in Editors, Drop(e) PROVE EInv'
<1>1. PICK n \in 0 .. Len(inbox[e]) : inbox' = [inbox EXCEPT ![e] = SubSeq(inbox[e], 1, n)]
  BY Typed DEF Drop
<1> DEFINE l == late[e] \cup Range(outbox[e])
           q == SubSeq(inbox[e], 1, n)
           last == page[e].lastSequence
           high == page[e].high
<1>2. /\ conn[e].pc # "off" /\ drops' = drops + 1 /\ conn' = [conn EXCEPT ![e] = NoConn]
      /\ late' = [late EXCEPT ![e] = l] /\ outbox' = [outbox EXCEPT ![e] = <<>>]
      /\ UNCHANGED <<storeVars, page, made>>
  BY Typed DEF Drop
<1>3. /\ l \in SUBSET EditType /\ <<>> \in Seq(EditType)
      /\ \A x \in l : x \in late[e] \/ \E i \in 1 .. Len(outbox[e]) : x = outbox[e][i]
  <2>1. outbox[e] \in Seq(EditType) /\ late[e] \in SUBSET EditType
    BY Typed
  <2>2. \A x \in Range(outbox[e]) : \E i \in 1 .. Len(outbox[e]) : x = outbox[e][i]
    BY <2>1 DEF Range
  <2> QED  BY <2>1, <2>2
<1>4. /\ q \in Seq(FrameType) /\ Len(q) = n /\ n \in Nat /\ n <= Len(inbox[e])
      /\ \A i \in 1 .. n : q[i] = inbox[e][i] /\ i \in 1 .. Len(inbox[e])
  BY <1>1, Typed, PrefixFrames
<1>5. Moves(e, page[e], <<>>, l, q, NoConn)
  BY <1>1, <1>2, Typed DEF Moves
<1>6. PageOK(made, e, page[e], outbox[e], late[e], inbox[e], conn[e])
  BY Typed
<1> HIDE DEF q, l
<1>7. WithinLog(Len(made), page[e], q, NoConn)
  <2>1. /\ last <= Len(made) /\ last <= high /\ page[e].serverVersion <= Len(made)
        /\ page[e].open /\ Len(made) \in Nat
    BY <1>2, <1>6, Store DEF PageOK, WithinLog
  <2>2. \A i \in 1 .. Len(q) : q[i].sequence <= Len(made) /\ q[i].version <= Len(made)
    BY <1>4, <1>6 DEF PageOK, WithinLog
  <2> QED  BY <2>1, <2>2, OffConn DEF WithinLog
<1>8. NoGaps(last, high, q, NoConn)
  <2>1. ASSUME NEW i \in 1 .. n, q[i].type = "content_update"
        PROVE  HasBefore(high, q, i, q[i].sequence - 1) \/ (i = 1 /\ last = 0)
    <3>1. \A j \in 1 .. i - 1 : q[j] = inbox[e][j]
      BY <1>4
    <3>2. HasBefore(high, inbox[e], i, inbox[e][i].sequence - 1) \/ (i = 1 /\ last = 0)
      BY <1>4, <1>6, <2>1 DEF PageOK, NoGaps
    <3> QED  BY <1>4, <3>1, <3>2 DEF HasBefore
  <2> QED  BY <1>4, <2>1, OffConn DEF NoGaps
<1>9. FramesTrue(made, e, last, q)
  <2>1. ASSUME NEW i \in 1 .. Len(q) PROVE FrameTrue(made, e, last, q, i)
    <3>1. /\ FrameTrue(made, e, last, inbox[e], i) /\ q[i] = inbox[e][i]
          /\ \A j \in 1 .. i - 1 : q[j] = inbox[e][j]
      BY <1>4, <1>6 DEF PageOK, FramesTrue
    <3> QED  BY <3>1 DEF FrameTrue
  <2> QED  BY <2>1 DEF FramesTrue
<1>10. ConnTrue(made, e, NoConn)
  BY OffConn DEF ConnTrue
<1>11. EditsTrue(made, e, page[e], <<>>, l)
  BY <1>3, <1>6 DEF PageOK, EditsTrue
<1>12. PageOK(made, e, page[e], <<>>, l, q, NoConn)
  BY <1>6, <1>7, <1>8, <1>9, <1>10, <1>11 DEF PageOK
<1>13. drops' \in Nat
  BY <1>2, Typed
<1> QED  BY <1>2, <1>3, <1>4, <1>5, <1>12, <1>13, LocalStepInv, Typed, OffConn

LEMMA OnCloseInv == ASSUME EInv, NEW e \in Editors, OnClose(e) PROVE EInv'
<1> DEFINE p == [page[e] EXCEPT !.open = FALSE]
<1>1. /\ conn[e].pc = "off" /\ inbox[e] = <<>>
      /\ page' = [page EXCEPT ![e] = p] /\ outbox' = [outbox EXCEPT ![e] = <<>>]
      /\ UNCHANGED <<storeVars, late, inbox, conn, made, drops>>
  BY Typed DEF OnClose
<1>2. /\ p \in PageType /\ p.lastSequence = page[e].lastSequence /\ p.high = page[e].high
      /\ p.serverVersion = page[e].serverVersion
      /\ PageTrue(made, e, p) /\ EditsTrue(made, e, p, outbox[e], late[e])
  BY OpenPage
<1> HIDE DEF p
<1>3. Moves(e, p, <<>>, late[e], inbox[e], conn[e])
  BY <1>1, Typed DEF Moves
<1>4. EditsTrue(made, e, p, <<>>, late[e])
  BY <1>2 DEF EditsTrue
<1>5. PageOK(made, e, p, <<>>, late[e], inbox[e], conn[e])
  BY <1>1, <1>2, <1>4, Typed DEF PageOK, WithinLog
<1>6. <<>> \in Seq(EditType)
  OBVIOUS
<1> QED  BY <1>1, <1>2, <1>3, <1>5, <1>6, LocalStepInv, Typed

-----------------------------------------------------------------------------
\* The script

(* The script appends an accepted edit, which is newer than the others of  *)
(* its page and was made from the text it replaces, or history knows why   *)
(* not; its reply is the document of this moment.                          *)
LEMMA EvaluateStep ==
  ASSUME EInv, NEW e \in Editors, NEW x \in EditType, Evaluate(e, x),
         NEW c \in Nat, EditTrue(made, e, c, x)
  PROVE  /\ StoreInv' /\ exists' /\ made' \in Seq(MadeType)
         /\ Len(made') = Len(stream') /\ Grows(made, made', e)
         /\ HistoryOK(made')
         /\ \A i \in Len(made) + 1 .. Len(made') : made'[i].key < c + 1
         /\ ApplyReply(x.base).snap \in Snapshot
         /\ ApplyReply(x.base).accepted \in BOOLEAN
         /\ ApplyReply(x.base).snap.sequence = Len(stream')
         /\ ApplyReply(x.base).snap.version = Len(stream')
         /\ ApplyReply(x.base).snap.content = Len(stream')
         /\ ApplyReply(x.base).accepted => Own(made', e, Len(stream'))
<1> DEFINE n == Len(stream)
<1>1. /\ x.base \in Nat /\ x.key \in Nat /\ x.text \in Nat
      /\ ApplyOperationScript(x.base) /\ exists /\ StoreInv
  BY EditFields DEF Evaluate, EInv
<1>2. StoreInv' /\ exists'
  BY <1>1, ApplyOperationInv DEF ApplyOperationScript
<1>3. CASE Refused(x.base)
  <2>1. UNCHANGED <<doc, stream, made>>
    BY <1>1, <1>3 DEF Evaluate, ApplyOperationScript
  <2>2. ApplyReply(x.base) = [accepted |-> FALSE, snap |-> doc]
    BY <1>3 DEF ApplyReply
  <2>3. Grows(made, made', e) /\ Len(made) \in Nat
    BY <2>1, Store DEF Grows
  <2> QED  BY <1>2, <2>1, <2>2, <2>3, Store, Typed DEF EInv
<1>4. CASE ~Refused(x.base)
  <2> DEFINE entry == [by |-> e, key |-> x.key, text |-> x.text,
                       refused |-> x.refused, torn |-> x.torn]
             snap == [content |-> NewText, version |-> doc.version + 1,
                      sequence |-> doc.sequence + 1]
  <2>1. /\ made' = Append(made, entry) /\ Len(stream') = n + 1
    BY <1>1, <1>4, Store DEF Evaluate, ApplyOperationScript, EInv, StoreInv, StoreTypeOK
  <2>2. ApplyReply(x.base) = [accepted |-> TRUE, snap |-> snap]
    BY <1>4 DEF ApplyReply
  <2>3. snap \in Snapshot /\ snap.content = n + 1 /\ snap.version = n + 1
        /\ snap.sequence = n + 1
    BY Store DEF NewText, Snapshot
  <2>4. x.base = n
    BY <1>4, Store, EditorAssumption DEF Refused, Stale
  <2>5. entry \in MadeType
    BY <1>1 DEF MadeType, EditType
  <2>6. /\ entry.by = e /\ entry.key = x.key /\ entry.text = x.text
        /\ entry.refused = x.refused /\ entry.torn = x.torn
    OBVIOUS
  <2> HIDE DEF entry, snap
  <2>7. /\ made' \in Seq(MadeType) /\ Len(made') = n + 1 /\ made'[n + 1] = entry
        /\ \A i \in 1 .. n : made'[i] = made[i]
    BY <2>1, <2>5, Store, Typed
  <2>8. Own(made', e, n + 1)
    BY <2>6, <2>7, Store DEF Own
  <2>9. Grows(made, made', e)
    BY <2>6, <2>7, Store DEF Grows
  <2>10. \A i \in Len(made) + 1 .. Len(made') : made'[i].key < c + 1
    BY <1>1, <2>6, <2>7, Store DEF EditTrue
  <2>11. HistoryOK(made')
    <3> SUFFICES ASSUME NEW i \in 1 .. n + 1
                 PROVE  /\ \A j \in 1 .. i - 1 : made'[j].by = made'[i].by
                                                 => made'[j].key < made'[i].key
                        /\ i > 1 => \/ made'[i].text >= i - 1
                                    \/ made'[i].refused \/ made'[i].torn
                                    \/ made'[i - 1].by = made'[i].by
      BY <2>7 DEF HistoryOK
    <3>1. CASE i \in 1 .. n
      <4>1. /\ made'[i] = made[i] /\ \A j \in 1 .. i - 1 : made'[j] = made[j]
            /\ i > 1 => made'[i - 1] = made[i - 1]
        BY <2>7, <3>1, Store
      <4> QED  BY <3>1, <4>1, Store DEF EInv, HistoryOK
    <3>2. CASE i = n + 1
      <4>1. made'[i] = entry /\ i - 1 = n /\ \A j \in 1 .. n : made'[j] = made[j]
        BY <2>7, <3>2, Store
      <4>2. \A j \in 1 .. n : made[j].by = e => made[j].key < x.key
        BY <1>1, <2>4, Store DEF EditTrue, KeysBelow
      <4>3. CASE x.base <= x.text
        BY <1>1, <2>4, <2>6, <4>1, <4>2, <4>3, Store
      <4>4. CASE Own(made, e, x.base)
        <5>1. n \in 1 .. n /\ made[n].by = e
          BY <2>4, <4>4, Store DEF Own
        <5> QED  BY <2>6, <4>1, <4>2, <5>1
      <4>5. CASE x.refused \/ x.torn
        BY <2>6, <4>1, <4>2, <4>5
      <4> QED  BY <4>3, <4>4, <4>5 DEF EditTrue
    <3> QED  BY <3>1, <3>2, Store
  <2> QED  BY <1>2, <2>2, <2>3, <2>7, <2>8, <2>9, <2>10, <2>11, <2>1
<1> QED  BY <1>3, <1>4

LEMMA TailEdits ==
  ASSUME NEW o \in Seq(EditType), o # <<>>
  PROVE  /\ Tail(o) \in Seq(EditType) /\ Head(o) = o[1] /\ o[1] \in EditType
         /\ 1 \in 1 .. Len(o)
         /\ \A i \in 1 .. Len(Tail(o)) : i + 1 \in 1 .. Len(o) /\ Tail(o)[i] = o[i + 1]
<1>1. Len(o) \in Nat /\ Len(o) >= 1 /\ Len(Tail(o)) = Len(o) - 1
  OBVIOUS
<1> QED  BY <1>1

\* What page e was promised holds after its script.
LEMMA EvaluateKeepsPage ==
  ASSUME EInv, NEW e \in Editors, Grows(made, made', e), made' \in Seq(MadeType),
         \A i \in Len(made) + 1 .. Len(made') :
           made'[i].key < page[e].operationCounter + 1
  PROVE  /\ Len(made) \in Nat /\ Len(made') \in Nat /\ Len(made) <= Len(made')
         /\ PageOK(made', e, page[e], outbox[e], late[e], inbox[e], conn[e])
<1>1. Len(made) \in Nat /\ Len(made') \in Nat /\ Len(made) <= Len(made')
  BY Store DEF Grows
<1> QED  BY <1>1, Typed, GrowsKeepsPage

LEMMA ApplyInv == ASSUME EInv, NEW e \in Editors, Apply(e) PROVE EInv'
<1> DEFINE x == outbox[e][1]
           o == Tail(outbox[e])
           c == page[e].operationCounter
           reply == ApplyReply(x.base)
           k == [conn[e] EXCEPT !.pc = "reply", !.snap = reply.snap,
                                !.accepted = reply.accepted]
<1>1. outbox[e] \in Seq(EditType) /\ outbox[e] # <<>>
  BY Typed DEF Apply
<1>2. /\ conn[e].pc = "live" /\ Evaluate(e, x) /\ outbox' = [outbox EXCEPT ![e] = o]
      /\ conn' = [conn EXCEPT ![e] = k] /\ UNCHANGED <<page, late, inbox, drops>>
  BY <1>1, Typed, TailEdits DEF Apply
<1>3. /\ o \in Seq(EditType) /\ x \in EditType /\ 1 \in 1 .. Len(outbox[e])
      /\ \A i \in 1 .. Len(o) : i + 1 \in 1 .. Len(outbox[e]) /\ o[i] = outbox[e][i + 1]
  BY <1>1, TailEdits
<1>4. EditTrue(made, e, c, x) /\ c \in Nat
  BY <1>3, Typed, PageFields DEF PageOK, EditsTrue
<1> HIDE DEF x, o
<1>5. /\ StoreInv' /\ exists' /\ made' \in Seq(MadeType)
      /\ Len(made') = Len(stream') /\ Grows(made, made', e)
      /\ HistoryOK(made')
      /\ \A i \in Len(made) + 1 .. Len(made') : made'[i].key < c + 1
      /\ reply.snap \in Snapshot /\ reply.accepted \in BOOLEAN
      /\ reply.snap.sequence = Len(stream')
      /\ reply.snap.version = Len(stream') /\ reply.snap.content = Len(stream')
      /\ reply.accepted => Own(made', e, Len(stream'))
  BY <1>2, <1>3, <1>4, EvaluateStep
<1> HIDE DEF reply
<1>6. /\ k \in ConnType /\ k.pc = "reply" /\ k.fed = conn[e].fed
      /\ k.snap = reply.snap /\ k.accepted = reply.accepted
  BY <1>5, Typed DEF ConnType
<1> HIDE DEF k
<1>7. Moves(e, page[e], o, late[e], inbox[e], k)
  BY <1>2, Typed DEF Moves
<1>8. /\ Len(made) \in Nat /\ Len(made') \in Nat /\ Len(made) <= Len(made')
      /\ PageOK(made', e, page[e], outbox[e], late[e], inbox[e], conn[e])
  BY <1>5, EvaluateKeepsPage
<1>9. WithinLog(Len(made'), page[e], inbox[e], k)
  BY <1>2, <1>5, <1>6, <1>8 DEF PageOK, WithinLog
<1>10. NoGaps(page[e].lastSequence, page[e].high, inbox[e], k)
  BY <1>2, <1>6, <1>8 DEF PageOK, NoGaps
<1>11. ConnTrue(made', e, k)
  BY <1>5, <1>6, <1>8 DEF ConnTrue
<1>12. EditsTrue(made', e, page[e], o, late[e])
  BY <1>3, <1>8 DEF PageOK, EditsTrue
<1>13. PageOK(made', e, page[e], o, late[e], inbox[e], k)
  BY <1>8, <1>9, <1>10, <1>11, <1>12 DEF PageOK
<1>14. /\ page[e] \in PageType /\ late[e] \in SUBSET EditType
       /\ inbox[e] \in Seq(FrameType) /\ drops' \in Nat
  BY <1>2, Typed
<1> QED  BY <1>3, <1>5, <1>6, <1>7, <1>13, <1>14, StepInv

\* The edit may have been accepted although its page is not told so.
LEMMA ApplyFailsInv == ASSUME EInv, NEW e \in Editors, ApplyFails(e) PROVE EInv'
<1> DEFINE x == outbox[e][1]
           o == Tail(outbox[e])
           c == page[e].operationCounter
<1>1. outbox[e] \in Seq(EditType) /\ outbox[e] # <<>>
  BY Typed DEF ApplyFails
<1>2. /\ Evaluate(e, x) \/ UNCHANGED <<storeVars, made>>
      /\ outbox' = [outbox EXCEPT ![e] = o] /\ UNCHANGED <<page, late, inbox, conn, drops>>
  BY <1>1, Typed, TailEdits DEF ApplyFails
<1>3. /\ o \in Seq(EditType) /\ x \in EditType /\ 1 \in 1 .. Len(outbox[e])
      /\ \A i \in 1 .. Len(o) : i + 1 \in 1 .. Len(outbox[e]) /\ o[i] = outbox[e][i + 1]
  BY <1>1, TailEdits
<1>4. EditTrue(made, e, c, x) /\ c \in Nat
  BY <1>3, Typed, PageFields DEF PageOK, EditsTrue
<1> HIDE DEF x, o
<1>5. Moves(e, page[e], o, late[e], inbox[e], conn[e])
  BY <1>2, Typed DEF Moves
<1>6. ASSUME NEW m,
             PageOK(m, e, page[e], outbox[e], late[e], inbox[e], conn[e])
      PROVE  PageOK(m, e, page[e], o, late[e], inbox[e], conn[e])
  BY <1>3, <1>6 DEF PageOK, EditsTrue
<1>7. /\ page[e] \in PageType /\ late[e] \in SUBSET EditType
      /\ inbox[e] \in Seq(FrameType) /\ conn[e] \in ConnType /\ drops' \in Nat
  BY <1>2, Typed
<1>8. CASE Evaluate(e, x)
  <2>1. /\ StoreInv' /\ exists' /\ made' \in Seq(MadeType)
        /\ Len(made') = Len(stream') /\ Grows(made, made', e)
        /\ HistoryOK(made')
        /\ \A i \in Len(made) + 1 .. Len(made') : made'[i].key < c + 1
    BY <1>3, <1>4, <1>8, EvaluateStep
  <2>2. PageOK(made', e, page[e], o, late[e], inbox[e], conn[e])
    BY <1>6, <2>1, EvaluateKeepsPage
  <2> QED  BY <1>3, <1>5, <1>7, <2>1, <2>2, StepInv
<1>9. CASE UNCHANGED <<storeVars, made>>
  <2>1. PageOK(made, e, page[e], o, late[e], inbox[e], conn[e])
    BY <1>6, Typed
  <2> QED  BY <1>3, <1>5, <1>7, <1>9, <2>1, LocalStepInv
<1> QED  BY <1>2, <1>8, <1>9

LEMMA ApplyLateInv == ASSUME EInv, NEW e \in Editors, ApplyLate(e) PROVE EInv'
<1>1. PICK x \in late[e] :
        /\ Evaluate(e, x) /\ late' = [late EXCEPT ![e] = late[e] \ {x}]
        /\ UNCHANGED <<page, outbox, inbox, conn, drops>>
  BY Typed DEF ApplyLate
<1> DEFINE l == late[e] \ {x}
           c == page[e].operationCounter
<1>2. x \in EditType /\ l \in SUBSET EditType /\ \A y \in l : y \in late[e]
  BY Typed
<1>3. EditTrue(made, e, c, x) /\ c \in Nat
  BY Typed, PageFields DEF PageOK, EditsTrue
<1> HIDE DEF l
<1>4. Moves(e, page[e], outbox[e], l, inbox[e], conn[e])
  BY <1>1, Typed DEF Moves, l
<1>5. /\ StoreInv' /\ exists' /\ made' \in Seq(MadeType)
      /\ Len(made') = Len(stream') /\ Grows(made, made', e)
      /\ HistoryOK(made')
      /\ \A i \in Len(made) + 1 .. Len(made') : made'[i].key < c + 1
  BY <1>1, <1>2, <1>3, EvaluateStep
<1>6. PageOK(made', e, page[e], outbox[e], l, inbox[e], conn[e])
  <2>1. PageOK(made', e, page[e], outbox[e], late[e], inbox[e], conn[e])
    BY <1>5, EvaluateKeepsPage
  <2> QED  BY <1>2, <2>1 DEF PageOK, EditsTrue
<1>7. /\ page[e] \in PageType /\ outbox[e] \in Seq(EditType)
      /\ inbox[e] \in Seq(FrameType) /\ conn[e] \in ConnType /\ drops' \in Nat
  BY <1>1, Typed
<1> QED  BY <1>2, <1>4, <1>5, <1>6, <1>7, StepInv

-----------------------------------------------------------------------------
\* What the backend writes

(* The result, which carries no text, comes before the room_state that     *)
(* shows a refused page what the document was.                             *)
LEMMA ReplyInv == ASSUME EInv, NEW e \in Editors, Reply(e) PROVE EInv'
<1> DEFINE c == conn[e]
           last == page[e].lastSequence
           high == page[e].high
           f == OperationResult(c.snap, c.accepted)
           k == IF c.accepted THEN Live(c.fed) ELSE [c EXCEPT !.pc = "state"]
<1>1. /\ c.pc = "reply" /\ inbox' = [inbox EXCEPT ![e] = Append(inbox[e], f)]
      /\ conn' = [conn EXCEPT ![e] = k]
      /\ UNCHANGED <<storeVars, page, outbox, late, made, drops>>
  BY Typed DEF Reply
<1>2. /\ c \in ConnType /\ c.accepted \in BOOLEAN /\ last \in Nat /\ high \in Nat
      /\ inbox[e] \in Seq(FrameType) /\ Len(made) \in Nat
      /\ PageOK(made, e, page[e], outbox[e], late[e], inbox[e], c)
  BY Typed, PageFields, Store DEF ConnType
<1>3. /\ f \in FrameType /\ f.type = "operation_result" /\ f.sequence = c.snap.sequence
      /\ f.version = c.snap.version /\ f.accepted = c.accepted
  BY <1>2, ConnFields DEF OperationResult, FrameType
<1>4. /\ k \in ConnType /\ k.fed = c.fed /\ k.pc \in {"live", "state"}
      /\ (k.snap.sequence = 0 /\ k.snap.version = 0 /\ k.pc = "live")
         \/ (k.snap = c.snap /\ k.pc = "state")
  <2>1. CASE c.accepted
    BY <1>2, <2>1, ConnFields, LiveConn
  <2>2. CASE ~c.accepted
    BY <1>2, <2>2 DEF ConnType
  <2> QED  BY <2>1, <2>2
<1> HIDE DEF f, k, c, last, high
<1>5. /\ NoGaps(last, high, inbox[e], c) /\ FramesTrue(made, e, last, inbox[e])
      /\ ConnTrue(made, e, c) /\ WithinLog(Len(made), page[e], inbox[e], c)
  BY <1>2 DEF PageOK, last, high
<1>6. NoGaps(last, high, Append(inbox[e], f), k)
  BY <1>1, <1>2, <1>3, <1>4, <1>5, AnswerNoGaps
<1>7. FramesTrue(made, e, last, Append(inbox[e], f))
  <2>1. f.accepted => Own(made, e, f.version)
    BY <1>1, <1>3, <1>5 DEF ConnTrue
  <2> QED  BY <1>2, <1>3, <1>5, <2>1, WriteTrue
<1>8. ConnTrue(made, e, k)
  BY <1>1, <1>4, <1>5 DEF ConnTrue
<1>9. /\ k.fed <= Len(made) /\ k.snap.sequence <= Len(made)
      /\ k.snap.version <= Len(made)
      /\ f.sequence <= Len(made) /\ f.version <= Len(made)
  BY <1>2, <1>3, <1>4, <1>5 DEF WithinLog
<1>10. conn[e].pc # "off"
  BY <1>1 DEF c
<1> QED  BY <1>1, <1>3, <1>4, <1>6, <1>7, <1>8, <1>9, <1>10, WriteInv DEF last, high

LEMMA FeedInv == ASSUME EInv, NEW e \in Editors, Feed(e) PROVE EInv'
<1> DEFINE c == conn[e]
           last == page[e].lastSequence
           high == page[e].high
           f == ContentUpdate(c.fed + 1)
           k == [c EXCEPT !.fed = c.fed + 1]
<1>1. /\ c.pc # "off" /\ c.fed < Len(stream)
      /\ inbox' = [inbox EXCEPT ![e] = Append(inbox[e], f)]
      /\ conn' = [conn EXCEPT ![e] = k]
      /\ UNCHANGED <<storeVars, page, outbox, late, made, drops>>
  BY Typed DEF Feed
<1>2. /\ c \in ConnType /\ c.fed \in Nat /\ last \in Nat /\ high \in Nat
      /\ c.fed + 1 \in 1 .. Len(stream) /\ Len(made) = Len(stream) /\ Len(made) \in Nat
      /\ inbox[e] \in Seq(FrameType)
      /\ PageOK(made, e, page[e], outbox[e], late[e], inbox[e], c)
  BY <1>1, Typed, PageFields, ConnFields, Store
<1>3. /\ f \in FrameType /\ f.type = "content_update" /\ f.sequence = c.fed + 1
      /\ f.content = f.sequence /\ f.version = f.sequence
  BY <1>2, Store DEF ContentUpdate, FrameType
<1>4. /\ k \in ConnType /\ k.pc = c.pc /\ k.fed = c.fed + 1
      /\ k.snap = c.snap /\ k.accepted = c.accepted
  BY <1>2 DEF ConnType
<1> HIDE DEF f, k, c, last, high
<1>5. /\ NoGaps(last, high, inbox[e], c) /\ FramesTrue(made, e, last, inbox[e])
      /\ ConnTrue(made, e, c) /\ WithinLog(Len(made), page[e], inbox[e], c)
  BY <1>2 DEF PageOK, last, high
<1>6. NoGaps(last, high, Append(inbox[e], f), k)
  BY <1>1, <1>2, <1>3, <1>4, <1>5, FeedNoGaps
<1>7. FramesTrue(made, e, last, Append(inbox[e], f))
  BY <1>2, <1>3, <1>5, WriteTrue
<1>8. ConnTrue(made, e, k)
  BY <1>4, <1>5 DEF ConnTrue
<1>9. /\ k.fed <= Len(made) /\ k.snap.sequence <= Len(made)
      /\ k.snap.version <= Len(made)
      /\ f.sequence <= Len(made) /\ f.version <= Len(made)
  BY <1>2, <1>3, <1>4, <1>5 DEF WithinLog
<1>10. conn[e].pc # "off"
  BY <1>1 DEF c
<1> QED  BY <1>1, <1>3, <1>4, <1>6, <1>7, <1>8, <1>9, <1>10, WriteInv DEF last, high

-----------------------------------------------------------------------------
\* onmessage

\* A handler keeps the invariant if the page it leaves fits the frame.
LEMMA HandleInv ==
  ASSUME EInv, NEW e \in Editors, NEW type, NEW p \in PageType, Handle(e, type, p),
         p.open = page[e].open, p.pending = page[e].pending,
         p.operationCounter = page[e].operationCounter,
         \/ p.lastSequence = page[e].lastSequence
         \/ p.lastSequence = inbox[e][1].sequence,
         \/ p.serverVersion = page[e].serverVersion
         \/ p.serverVersion = inbox[e][1].version,
         page[e].high <= p.high, p.lastSequence <= p.high,
         type # "operation_result" => inbox[e][1].sequence <= p.high,
         PageTrue(made, e, p),
         type = "content_update" /\ inbox[e][1].sequence = page[e].lastSequence + 1
           => p.lastSequence = page[e].lastSequence + 1
  PROVE  EInv'
<1> DEFINE q == Tail(inbox[e])
           last == page[e].lastSequence
           high == page[e].high
<1>1. inbox[e] \in Seq(FrameType) /\ inbox[e] # <<>>
  BY Typed DEF Handle
<1>2. /\ q \in Seq(FrameType) /\ Head(inbox[e]) = inbox[e][1] /\ inbox[e][1] \in FrameType
      /\ Len(inbox[e]) \in Nat /\ Len(q) = Len(inbox[e]) - 1 /\ Len(inbox[e]) >= 1
      /\ \A i \in 1 .. Len(q) : q[i] = inbox[e][i + 1]
  BY <1>1, TailFrames
<1>3. /\ inbox[e][1].type = type /\ page' = [page EXCEPT ![e] = p]
      /\ inbox' = [inbox EXCEPT ![e] = q]
      /\ UNCHANGED <<storeVars, outbox, late, conn, made, drops>>
  BY <1>2, Typed DEF Handle
<1>4. /\ PageOK(made, e, page[e], outbox[e], late[e], inbox[e], conn[e])
      /\ conn[e] \in ConnType /\ last \in Nat /\ high \in Nat
      /\ p.lastSequence \in Nat /\ p.high \in Nat
  BY Typed, PageFields
<1>5. Moves(e, p, outbox[e], late[e], q, conn[e])
  BY <1>3, Typed DEF Moves
<1>6. WithinLog(Len(made), p, q, conn[e])
  <2>1. page[e].open
    BY <1>1, <1>4 DEF PageOK, WithinLog
  <2>2. 1 \in 1 .. Len(inbox[e]) /\ \A i \in 1 .. Len(q) : i + 1 \in 1 .. Len(inbox[e])
    BY <1>2
  <2> HIDE DEF q
  <2> QED  BY <1>2, <1>4, <2>1, <2>2 DEF PageOK, WithinLog
<1>7. NoGaps(p.lastSequence, p.high, q, conn[e])
  <2>1. NoGaps(last, high, inbox[e], conn[e])
    BY <1>4 DEF PageOK
  <2>2. inbox[e][1].type # "operation_result" => inbox[e][1].sequence <= p.high
    BY <1>3
  <2> QED  BY <1>1, <1>4, <2>1, <2>2, HandledNoGaps
<1>8. FramesTrue(made, e, p.lastSequence, q)
  <2>1. FramesTrue(made, e, last, inbox[e])
    BY <1>4 DEF PageOK
  <2> QED  BY <1>1, <1>3, <1>4, <2>1, HandledTrue
<1>9. EditsTrue(made, e, p, outbox[e], late[e])
  BY <1>4 DEF PageOK, EditsTrue
<1>10. PageOK(made, e, p, outbox[e], late[e], q, conn[e])
  BY <1>4, <1>6, <1>7, <1>8, <1>9 DEF PageOK
<1>11. /\ outbox[e] \in Seq(EditType) /\ late[e] \in SUBSET EditType /\ drops' \in Nat
  BY <1>3, Typed
<1> QED  BY <1>2, <1>3, <1>4, <1>5, <1>10, <1>11, LocalStepInv

\* What the page may rely on when it takes the next frame.
LEMMA FirstFrame ==
  ASSUME EInv, NEW e \in Editors, inbox[e] # <<>>
  PROVE  LET f == inbox[e][1]
             last == page[e].lastSequence
             high == page[e].high
         IN  /\ f \in FrameType /\ Head(inbox[e]) = f
             /\ f.content \in Nat /\ f.version \in Nat /\ f.sequence \in Nat
             /\ page[e] \in PageType /\ last \in Nat /\ high \in Nat /\ last <= high
             /\ f.type = "content_update" => f.sequence <= high + 1 \/ last = 0
             /\ FrameTrue(made, e, last, inbox[e], 1) /\ PageTrue(made, e, page[e])
             /\ Higher(e, f.sequence) \in Nat /\ high <= Higher(e, f.sequence)
             /\ f.sequence <= Higher(e, f.sequence)
<1>1. /\ inbox[e] \in Seq(FrameType) /\ 1 \in 1 .. Len(inbox[e])
      /\ inbox[e][1] \in FrameType /\ Head(inbox[e]) = inbox[e][1]
  BY Typed, TailFrames
<1>2. /\ PageOK(made, e, page[e], outbox[e], late[e], inbox[e], conn[e])
      /\ page[e] \in PageType
  BY Typed
<1>3. /\ inbox[e][1].sequence \in Nat /\ inbox[e][1].content \in Nat
      /\ inbox[e][1].version \in Nat
      /\ page[e].lastSequence \in Nat /\ page[e].high \in Nat
  BY <1>1, <1>2, FrameFields, PageFields
<1>4. page[e].lastSequence <= page[e].high
  BY <1>2 DEF PageOK, WithinLog
<1>5. inbox[e][1].type = "content_update" =>
        inbox[e][1].sequence <= page[e].high + 1 \/ page[e].lastSequence = 0
  BY <1>1, <1>2, <1>3 DEF PageOK, NoGaps, HasBefore
<1>6. FrameTrue(made, e, page[e].lastSequence, inbox[e], 1) /\ PageTrue(made, e, page[e])
  BY <1>1, <1>2 DEF PageOK, FramesTrue
<1>7. /\ Higher(e, inbox[e][1].sequence) \in Nat
      /\ page[e].high <= Higher(e, inbox[e][1].sequence)
      /\ inbox[e][1].sequence <= Higher(e, inbox[e][1].sequence)
  BY <1>3 DEF Higher
<1> QED  BY <1>1, <1>2, <1>3, <1>4, <1>5, <1>6, <1>7

\* A room_state, however old, is taken over as it is.
LEMMA OnRoomStateInv == ASSUME EInv, NEW e \in Editors, OnRoomState(e) PROVE EInv'
<1> DEFINE f == inbox[e][1]
           torn == f.content < f.sequence
           p == [page[e] EXCEPT !.text = f.content, !.serverVersion = f.version,
                                !.lastSequence = f.sequence,
                                !.high = Higher(e, f.sequence), !.refused = FALSE,
                                !.torn = torn]
<1>1. inbox[e] # <<>> /\ f.type = "room_state" /\ Handle(e, "room_state", p)
  BY FirstFrame DEF OnRoomState, Handle
<1>2. /\ f.content \in Nat /\ f.version \in Nat /\ f.sequence \in Nat
      /\ page[e] \in PageType
      /\ Higher(e, f.sequence) \in Nat /\ page[e].high <= Higher(e, f.sequence)
      /\ f.sequence <= Higher(e, f.sequence)
      /\ FrameTrue(made, e, page[e].lastSequence, inbox[e], 1)
      /\ PageTrue(made, e, page[e])
  BY <1>1, FirstFrame
<1>3. /\ p \in PageType /\ p.open = page[e].open /\ p.pending = page[e].pending
      /\ p.operationCounter = page[e].operationCounter
      /\ p.gap = page[e].gap /\ p.lastSequence = f.sequence
      /\ p.high = Higher(e, f.sequence)
      /\ p.serverVersion = f.version /\ p.text = f.content
      /\ p.torn = torn
  <2>1. torn \in BOOLEAN
    OBVIOUS
  <2> HIDE DEF torn
  <2> QED  BY <1>2, <2>1 DEF PageType
<1> HIDE DEF p
<1>4. f.content <= f.version /\ f.version <= f.sequence
  BY <1>1, <1>2 DEF FrameTrue
<1>5. PageTrue(made, e, p)
  <2>1. ~p.gap
    BY <1>2, <1>3 DEF PageTrue
  <2>2. torn \/ (p.text = p.lastSequence /\ p.serverVersion <= p.text)
    BY <1>2, <1>3, <1>4
  <2> HIDE DEF torn
  <2> QED  BY <1>3, <2>1, <2>2, Zenon DEF PageTrue
<1> QED  BY <1>1, <1>2, <1>3, <1>5, HandleInv

\* An event that is not a duplicate is the next one, or the page was behind.
LEMMA OnContentUpdateInv == ASSUME EInv, NEW e \in Editors, OnContentUpdate(e) PROVE EInv'
<1> DEFINE f == inbox[e][1]
           last == page[e].lastSequence
           high == page[e].high
           gap == page[e].gap
                  \/ (last > 0 /\ f.sequence > last + 1 /\ ~TakenBack(e))
           p == [page[e] EXCEPT !.text = f.content, !.serverVersion = f.version,
                   !.lastSequence = f.sequence, !.high = Higher(e, f.sequence),
                   !.refused = FALSE, !.torn = FALSE, !.gap = gap]
<1>1. /\ inbox[e] # <<>> /\ f.type = "content_update"
      /\ Handle(e, "content_update", IF f.sequence <= last THEN page[e] ELSE p)
  BY FirstFrame DEF OnContentUpdate, Handle
<1>2. /\ f.content \in Nat /\ f.version \in Nat /\ f.sequence \in Nat
      /\ last \in Nat /\ high \in Nat /\ last <= high
      /\ f.sequence <= high + 1 \/ last = 0
      /\ page[e] \in PageType
      /\ Higher(e, f.sequence) \in Nat /\ high <= Higher(e, f.sequence)
      /\ f.sequence <= Higher(e, f.sequence)
      /\ f.content = f.sequence /\ f.version = f.sequence
      /\ PageTrue(made, e, page[e])
  BY <1>1, FirstFrame DEF FrameTrue
<1>3. CASE f.sequence <= last
  <2>1. Handle(e, "content_update", page[e])
    BY <1>1, <1>3
  <2>2. f.sequence # last + 1 /\ f.sequence <= high /\ high <= high
    BY <1>2, <1>3
  <2> QED  BY <1>2, <2>1, <2>2, HandleInv
<1>4. CASE ~(f.sequence <= last)
  <2>1. gap = FALSE
    BY <1>2 DEF TakenBack, PageTrue
  <2>2. /\ p \in PageType /\ p.open = page[e].open /\ p.pending = page[e].pending
        /\ p.operationCounter = page[e].operationCounter
        /\ p.gap = FALSE /\ p.lastSequence = f.sequence
        /\ p.high = Higher(e, f.sequence)
        /\ p.serverVersion = f.version /\ p.text = f.content
    <3> HIDE DEF gap
    <3> QED  BY <1>2, <2>1 DEF PageType
  <2>3. Handle(e, "content_update", p)
    BY <1>1, <1>4
  <2> HIDE DEF p
  <2>4. PageTrue(made, e, p)
    BY <1>2, <2>2 DEF PageTrue
  <2> QED  BY <1>2, <2>2, <2>3, <2>4, HandleInv
<1> QED  BY <1>3, <1>4

LEMMA OnOperationResultInv ==
  ASSUME EInv, NEW e \in Editors, OnOperationResult(e) PROVE EInv'
<1> DEFINE f == inbox[e][1]
           p == [page[e] EXCEPT !.serverVersion = f.version, !.refused = ~f.accepted]
<1>1. /\ inbox[e] # <<>> /\ f.type = "operation_result"
      /\ Handle(e, "operation_result", p)
  BY FirstFrame DEF OnOperationResult, Handle
<1>2. /\ f.version \in Nat /\ page[e] \in PageType
      /\ page[e].lastSequence \in Nat /\ page[e].high \in Nat
      /\ page[e].lastSequence <= page[e].high
      /\ FrameTrue(made, e, page[e].lastSequence, inbox[e], 1)
      /\ PageTrue(made, e, page[e])
  BY <1>1, FirstFrame
<1>3. /\ p \in PageType /\ p.open = page[e].open /\ p.pending = page[e].pending
      /\ p.operationCounter = page[e].operationCounter
      /\ p.gap = page[e].gap /\ p.lastSequence = page[e].lastSequence
      /\ p.high = page[e].high /\ p.torn = page[e].torn
      /\ p.serverVersion = f.version /\ p.text = page[e].text /\ p.refused = ~f.accepted
  BY <1>2 DEF PageType
<1> HIDE DEF p
<1>4. PageTrue(made, e, p)
  BY <1>1, <1>2, <1>3 DEF FrameTrue, PageTrue
<1>5. page[e].high <= p.high /\ p.lastSequence <= p.high
  BY <1>2, <1>3
<1> QED  BY <1>1, <1>3, <1>4, <1>5, HandleInv

\* The replay has shown the page everything up to here.
LEMMA OnResumeCompleteInv ==
  ASSUME EInv, NEW e \in Editors, OnResumeComplete(e) PROVE EInv'
<1> DEFINE f == inbox[e][1]
           p == [page[e] EXCEPT !.serverVersion = f.version, !.lastSequence = f.sequence,
                                !.high = Higher(e, f.sequence), !.refused = FALSE]
<1>1. /\ inbox[e] # <<>> /\ f.type = "resume_complete"
      /\ Handle(e, "resume_complete", p)
  BY FirstFrame DEF OnResumeComplete, Handle
<1>2. /\ f.version \in Nat /\ f.sequence \in Nat /\ page[e] \in PageType
      /\ page[e].lastSequence \in Nat /\ page[e].text \in Nat
      /\ Higher(e, f.sequence) \in Nat /\ page[e].high <= Higher(e, f.sequence)
      /\ f.sequence <= Higher(e, f.sequence)
      /\ FrameTrue(made, e, page[e].lastSequence, inbox[e], 1)
      /\ PageTrue(made, e, page[e])
  BY <1>1, FirstFrame, PageFields
<1>3. /\ p \in PageType /\ p.open = page[e].open /\ p.pending = page[e].pending
      /\ p.operationCounter = page[e].operationCounter
      /\ p.gap = page[e].gap /\ p.lastSequence = f.sequence
      /\ p.high = Higher(e, f.sequence) /\ p.torn = page[e].torn
      /\ p.serverVersion = f.version /\ p.text = page[e].text
  BY <1>2 DEF PageType
<1> HIDE DEF p
<1>4. f.sequence = page[e].lastSequence /\ f.version = f.sequence
  BY <1>1, <1>2 DEF FrameTrue
<1>5. PageTrue(made, e, p)
  BY <1>2, <1>3, <1>4 DEF PageTrue
<1> QED  BY <1>1, <1>2, <1>3, <1>5, HandleInv

-----------------------------------------------------------------------------
LEMMA InitEInv == Init => EInv
<1> SUFFICES ASSUME Init PROVE EInv
  OBVIOUS
<1> DEFINE p == [open |-> FALSE, text |-> 0, serverVersion |-> 0,
                 lastSequence |-> 0, operationCounter |-> 0, pending |-> NoEdit,
                 refused |-> FALSE, torn |-> FALSE, high |-> 0, gap |-> FALSE]
<1>1. /\ exists = TRUE /\ doc = EmptyDoc /\ stream = <<>> /\ made = <<>> /\ drops = 0
      /\ page = [e \in Editors |-> p] /\ outbox = [e \in Editors |-> <<>>]
      /\ late = [e \in Editors |-> {}] /\ inbox = [e \in Editors |-> <<>>]
      /\ conn = [e \in Editors |-> NoConn]
  BY DEF Init
<1>2. /\ StoreInv /\ Len(made) = 0 /\ Len(stream) = 0
  BY <1>1 DEF StoreInv, StoreTypeOK, LogIsTheDocument, NoSilentOverwrite, EmptyDoc, Snapshot
<1>3. /\ p \in PageType /\ ~p.open /\ p.lastSequence = 0 /\ p.serverVersion = 0
      /\ p.text = 0 /\ p.high = 0 /\ p.pending = NoEdit /\ p.gap = FALSE
      /\ p.operationCounter = 0
  BY NoEditTrue DEF PageType
<1> HIDE DEF p
<1>4. EditorTypeOK
  BY <1>1, <1>2, <1>3, OffConn DEF EditorTypeOK, StoreInv, PageType, ConnType
<1>5. ASSUME NEW e \in Editors PROVE PageOK(made, e, p, <<>>, {}, <<>>, NoConn)
  <2>1. WithinLog(Len(made), p, <<>>, NoConn)
    BY <1>2, <1>3, OffConn DEF WithinLog
  <2>2. NoGaps(0, 0, <<>>, NoConn) /\ ConnTrue(made, e, NoConn)
        /\ FramesTrue(made, e, 0, <<>>)
    <3>1. Len(<<>>) = 0
      OBVIOUS
    <3>2. NoConn.pc \notin {"state", "reply"}
      BY OffConn
    <3> QED  BY <3>1, <3>2, OffConn DEF NoGaps, ConnTrue, FramesTrue
  <2>3. PageTrue(made, e, p)
    BY <1>3 DEF PageTrue
  <2>4. EditsTrue(made, e, p, <<>>, {})
    <3>1. EditTrue(made, e, 0, NoEdit)
      <4>1. made \in Seq(MadeType) /\ 0 \in Nat
        BY <1>1
      <4> QED  BY <4>1, NoEditTrue, Zenon
    <3>2. KeysBelow(made, e, 0 + 1)
      BY <1>2 DEF KeysBelow
    <3> QED  BY <1>3, <3>1, <3>2 DEF EditsTrue
  <2> QED  BY <1>3, <2>1, <2>2, <2>3, <2>4 DEF PageOK
<1>6. HistoryOK(made)
  BY <1>2 DEF HistoryOK
<1> QED  BY <1>1, <1>2, <1>4, <1>5, <1>6 DEF EInv

LEMMA StutterEInv == ASSUME EInv, UNCHANGED vars PROVE EInv'
<1>1. UNCHANGED <<exists, doc, stream, page, outbox, late, inbox, conn, made, drops>>
  BY DEF vars
<1>2. EditorTypeOK' /\ StoreInv'
  BY <1>1 DEF EInv, EditorTypeOK, StoreInv, StoreTypeOK, LogIsTheDocument, NoSilentOverwrite
<1> QED  BY <1>1, <1>2 DEF EInv

LEMMA NextEInv == EInv /\ [Next]_vars => EInv'
<1> SUFFICES ASSUME EInv, [Next]_vars PROVE EInv'
  OBVIOUS
<1>1. CASE UNCHANGED vars
  BY <1>1, StutterEInv
<1>2. ASSUME NEW e \in Editors, Type(e) \/ Feed(e) \/ Drop(e) \/ ApplyLate(e) PROVE EInv'
  BY <1>2, TypeInv, FeedInv, DropInv, ApplyLateInv
<1>3. ASSUME NEW e \in Editors, Serve(e) PROVE EInv'
  BY <1>3, ReadSnapshotInv, WriteStateInv, ApplyInv, ApplyFailsInv, ReplyInv DEF Serve
<1>4. ASSUME NEW e \in Editors, Run(e) PROVE EInv'
  <2>1. CASE OnMessage(e)
    BY <2>1, OnRoomStateInv, OnContentUpdateInv, OnOperationResultInv,
       OnResumeCompleteInv DEF OnMessage
  <2> QED  BY <1>4, <2>1, FireInv, ConnectFreshInv, ResumeInv, OnCloseInv DEF Run
<1> QED  BY <1>1, <1>2, <1>3, <1>4 DEF Next

(* The refs of the page, the frames and the edits in flight fit the log of *)
(* Redis, after any sequence of key strokes, frames, broken connections    *)
(* and failures.                                                           *)
THEOREM EditorInvariant == Spec => []EInv
<1>1. Init => EInv
  BY InitEInv
<1>2. EInv /\ [Next]_vars => EInv'
  BY NextEInv
<1> QED  BY <1>1, <1>2, PTL DEF Spec

(* The refs of RoomPage.tsx and the locals of serveWS keep their types.    *)
THEOREM EditorTypeCorrect == Spec => []EditorTypeOK
<1>1. EInv => EditorTypeOK
  BY DEF EInv
<1> QED  BY <1>1, EditorInvariant, PTL

(* No page holds a cursor beyond the log, so no reconnect is refused for   *)
(* it (ws.go:172): whichever of room_state, content_update and             *)
(* resume_complete set lastSequenceRef, and in whatever order.             *)
THEOREM CursorsAreInLog == Spec => []CursorInLog
<1>1. EInv => CursorInLog
  BY Typed, Store DEF CursorInLog, PageOK, WithinLog
<1> QED  BY <1>1, EditorInvariant, PTL

(* The edits of a page are accepted in the order of its key strokes and    *)
(* none twice (docs/phase2.md:36), whoever reads them from its broken      *)
(* connections: the first that is accepted makes the version of the others *)
(* stale.                                                                  *)
THEOREM EditsAreAcceptedInOrder == Spec => []AcceptedInOrder
<1>1. ASSUME EInv PROVE AcceptedInOrder
  <2> SUFFICES ASSUME NEW m \in 1 .. Len(made), NEW n \in 1 .. Len(made),
                      m < n, made[m].by = made[n].by
               PROVE  made[m].key < made[n].key
    BY DEF AcceptedInOrder
  <2>1. HistoryOK(made) /\ Len(made) \in Nat
    BY <1>1, Store DEF EInv
  <2>2. m \in 1 .. n - 1
    BY <2>1
  <2> QED  BY <2>1, <2>2 DEF HistoryOK
<1> QED  BY <1>1, EditorInvariant, PTL

(* An edit that replaces one of another page its text was not made from    *)
(* was typed before the resync of a refusal, or on a snapshot whose three  *)
(* GETs are of different documents: whatever else the frames and the key   *)
(* strokes do, the version that travels with an edit gives it away.        *)
THEOREM OverwritesHaveCauses == Spec => []OverwriteHasCause
<1>1. ASSUME EInv PROVE OverwriteHasCause
  <2> SUFFICES ASSUME NEW n \in 2 .. Len(made), Overwrites(n)
               PROVE  made[n].refused \/ made[n].torn
    BY DEF OverwriteHasCause
  <2>1. /\ HistoryOK(made) /\ Len(made) \in Nat
        /\ \A i \in 1 .. Len(made) : made[i] \in MadeType
    <3>1. made \in Seq(MadeType) /\ HistoryOK(made) /\ Len(made) \in Nat
      BY <1>1, Store DEF EInv
    <3> QED  BY <3>1
  <2>2. n \in 1 .. Len(made) /\ n > 1 /\ made[n].text \in Nat
    BY <2>1 DEF MadeType
  <2> QED  BY <2>1, <2>2 DEF HistoryOK, Overwrites
<1> QED  BY <1>1, EditorInvariant, PTL

(* The user is told of an event gap (RoomPage.tsx:185) only on a page that *)
(* a room_state took back: every content_update follows a frame that       *)
(* brought the page at least to the event before it, reconnects included.  *)
THEOREM NoGapIsShown == Spec => []NoGapShown
<1>1. EInv => NoGapShown
  BY Typed DEF NoGapShown, PageOK, PageTrue
<1> QED  BY <1>1, EditorInvariant, PTL

(* A page that has handled all that its connection wrote shows the newest  *)
(* document, unless a room_state took it back or gave it a torn text.      *)
THEOREM SettledPagesAreNewest == Spec => []SettledIsNewest
<1>1. ASSUME EInv PROVE SettledIsNewest
  <2> SUFFICES ASSUME NEW e \in Editors, Settled(e), ~TakenBack(e), ~page[e].torn
               PROVE  Newest(e)
    BY DEF SettledIsNewest
  <2> DEFINE last == page[e].lastSequence
             high == page[e].high
             n == Len(stream)
  <2>1. /\ PageOK(made, e, page[e], outbox[e], late[e], inbox[e], conn[e])
        /\ n \in Nat /\ Len(made) = n /\ last \in Nat /\ high \in Nat
    BY <1>1, Typed, Store, PageFields
  <2>2. last <= n /\ last <= high /\ ~(last < high) /\ page[e].text = last
    BY <2>1 DEF PageOK, WithinLog, PageTrue, TakenBack
  <2>3. NoGaps(last, high, <<>>, conn[e]) /\ conn[e].pc = "live" /\ conn[e].fed = n
    BY <2>1 DEF PageOK, Settled
  <2>4. HasBefore(high, <<>>, 1, n)
    BY <2>3 DEF NoGaps
  <2>5. high >= n
    BY <2>4 DEF HasBefore
  <2> QED  BY <2>1, <2>2, <2>5 DEF Newest
<1> QED  BY <1>1, EditorInvariant, PTL
=============================================================================
