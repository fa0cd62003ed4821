------------------------------- MODULE Editor -------------------------------
(***************************************************************************)
(* The page that edits a room (frontend/src/pages/RoomPage.tsx), against   *)
(* the connection that serves it (backend/ws.go) in Redis mode.  The page  *)
(* keeps three refs, serverVersion, lastSequence and the pending debounce, *)
(* that frames of different kinds move, and an edit is judged by the       *)
(* version the page held at the key stroke.                                *)
(*                                                                         *)
(* What Delivery shows is used here: a connection is fed the events in     *)
(* order without gaps, and a replay is one step.  Nothing orders serveWS   *)
(* and the watcher, which write to the same socket, nor a key stroke and   *)
(* the frames that are on their way.                                       *)
(*                                                                         *)
(* A text is the newest document it was made from.  The fields refused,    *)
(* torn, high and gap of a page, the first two of an edit and the variable *)
(* made are history: no guard reads them.                                  *)
(***************************************************************************)
EXTENDS DocStore, Functions

CONSTANTS
  Editors,      \* pages
  MaxEdits,     \* bound: key strokes, of all pages together
  MaxDrops,     \* bound: connections that break
  MayFail       \* whether Redis may fail an edit (storage_error)

ASSUME EditorAssumption ==
  /\ Policy = "reject" /\ FreshIds
  /\ MaxEdits \in Nat /\ MaxDrops \in Nat /\ MayFail \in BOOLEAN

VARIABLES
  page,         \* per page: the refs and the text on the screen
  outbox,       \* per page: edits sent on the socket and not read yet
  late,         \* per page: edits a broken connection may still deliver
  inbox,        \* per page: frames written to the socket and not handled yet
  conn,         \* per page: serveWS, its Client and what it is about to write
  made,         \* history: for each accepted edit, its page, key and text
  drops         \* connections broken so far

vars == <<exists, doc, stream, page, outbox, late, inbox, conn, made, drops>>

\* Faulty: no base version is -1.
UnsetEdit ==
  [key |-> 0, base |-> -1, text |-> 0, refused |-> FALSE, torn |-> FALSE]

NoEdit ==
  [key |-> 0, base |-> 0, text |-> 0, refused |-> FALSE, torn |-> FALSE]

(* A connection, with its locals set where they are in scope.              *)
NoConn == [pc |-> "off", fed |-> 0, from |-> 0, accepted |-> FALSE,
           snap |-> EmptyDoc]

Live(fed) == [NoConn EXCEPT !.pc = "live", !.fed = fed]

(* The room has just been created; the pages load.                         *)
Init ==
  /\ exists = TRUE /\ doc = EmptyDoc /\ stream = <<>>
  /\ page = [e \in Editors |->
       [open |-> FALSE, text |-> 0, serverVersion |-> 0,
        lastSequence |-> 0, operationCounter |-> 0, pending |-> NoEdit,
        refused |-> FALSE, torn |-> FALSE, high |-> 0, gap |-> FALSE]]
  /\ outbox = [e \in Editors |-> <<>>]
  /\ late   = [e \in Editors |-> {}]
  /\ inbox  = [e \in Editors |-> <<>>]
  /\ conn   = [e \in Editors |-> NoConn]
  /\ made   = <<>>
  /\ drops  = 0

RoomState(snap) ==
  [type |-> "room_state", content |-> snap.content, version |-> snap.version,
   sequence |-> snap.sequence, accepted |-> FALSE]

ContentUpdate(n) ==
  [type |-> "content_update", content |-> stream[n].content,
   version |-> stream[n].version, sequence |-> stream[n].sequence, accepted |-> TRUE]

OperationResult(snap, accepted) ==
  [type |-> "operation_result", content |-> 0, version |-> snap.version,
   sequence |-> snap.sequence, accepted |-> accepted]

\* Faulty: the sequence that is due next, not the last one.
ResumeCompleteNext ==
  [type |-> "resume_complete", content |-> 0, version |-> doc.version,
   sequence |-> doc.sequence + 1, accepted |-> FALSE]

ResumeComplete ==
  [type |-> "resume_complete", content |-> 0, version |-> doc.version,
   sequence |-> doc.sequence, accepted |-> FALSE]

-----------------------------------------------------------------------------
\* The user

(* A room_state has replaced what a newer content_update had shown.        *)
TakenBack(e) == page[e].lastSequence < page[e].high

Strokes == FoldFunction(+, 0, [e \in Editors |-> page[e].operationCounter])

(* handleContentChange: a key stroke replaces the pending timer by one     *)
(* that holds the new text and the version of this moment.  History notes  *)
(* whether an edit is refused whose resync has not come, and whether the   *)
(* text is of a snapshot that was read while the document changed.         *)
Type(e) ==
  LET k == page[e].operationCounter + 1
  IN  /\ Strokes < MaxEdits
      /\ page' = [page EXCEPT ![e] =
           [@ EXCEPT !.operationCounter = k,
                     !.pending = [key |-> k, base |-> page[e].serverVersion,
                                  text |-> page[e].text,
                                  refused |-> page[e].refused,
                                  torn |-> page[e].torn]]]
      /\ UNCHANGED <<storeVars, outbox, late, inbox, conn, made, drops>>

\* Faulty: the base version is read when the timer fires.
FireWithVersion(e) ==
  /\ page[e].pending # NoEdit
  /\ outbox' = IF page[e].open
               THEN [outbox EXCEPT ![e] = Append(@,
                      [page[e].pending EXCEPT !.base = page[e].serverVersion])]
               ELSE outbox
  /\ page' = [page EXCEPT ![e].pending = NoEdit]
  /\ UNCHANGED <<storeVars, late, inbox, conn, made, drops>>

(* The timer fires: the edit is sent, or given up when there is no socket. *)
Fire(e) ==
  /\ page[e].pending # NoEdit
  /\ outbox' = IF page[e].open
               THEN [outbox EXCEPT ![e] = Append(@, page[e].pending)] ELSE outbox
  /\ page' = [page EXCEPT ![e].pending = NoEdit]
  /\ UNCHANGED <<storeVars, late, inbox, conn, made, drops>>

-----------------------------------------------------------------------------
\* Connections

(* A new page connects: it is added to the room, whose watcher has fed     *)
(* some of the events to the clients before it.                            *)
ConnectFresh(e) ==
  /\ ~page[e].open /\ page[e].lastSequence = 0
  /\ page' = [page EXCEPT ![e].open = TRUE]
  /\ \E fed \in 0 .. Len(stream) :
       conn' = [conn EXCEPT ![e] =
         [NoConn EXCEPT !.pc = "added", !.fed = fed, !.from = Len(stream)]]
  /\ UNCHANGED <<storeVars, outbox, late, inbox, made, drops>>

(* GetSnapshot: commits may come between its three GETs, of the content,   *)
(* the version and the sequence in this order.                             *)
ReadSnapshot(e) ==
  /\ conn[e].pc = "added"
  /\ \E content, version \in conn[e].from .. doc.sequence :
       /\ content <= version
       /\ conn' = [conn EXCEPT ![e] =
            [@ EXCEPT !.pc = "state", !.from = 0,
                      !.snap = [content |-> content, version |-> version,
                                sequence |-> doc.sequence]]]
  /\ UNCHANGED <<storeVars, page, outbox, late, inbox, made, drops>>

WriteState(e) ==
  /\ conn[e].pc = "state"
  /\ inbox' = [inbox EXCEPT ![e] = Append(@, RoomState(conn[e].snap))]
  /\ conn' = [conn EXCEPT ![e] = Live(conn[e].fed)]
  /\ UNCHANGED <<storeVars, page, outbox, late, made, drops>>

\* Faulty: the replay starts one event after the one that is due.
ResumeLate(e) ==
  LET k == page[e].lastSequence
  IN  /\ ~page[e].open /\ k > 0 /\ k <= doc.sequence
      /\ page' = [page EXCEPT ![e].open = TRUE]
      /\ inbox' = [inbox EXCEPT ![e] =
           [i \in 1 .. Len(stream) - k - 1 |-> ContentUpdate(k + i + 1)]
             \o <<ResumeComplete>>]
      /\ conn' = [conn EXCEPT ![e] = Live(Len(stream))]
      /\ UNCHANGED <<storeVars, outbox, late, made, drops>>

(* The page reconnects with its lastSequence; the replay up to the         *)
(* boundary and resume_complete.  A cursor beyond it is refused.           *)
Resume(e) ==
  LET k == page[e].lastSequence
  IN  /\ ~page[e].open /\ k > 0 /\ k <= doc.sequence
      /\ page' = [page EXCEPT ![e].open = TRUE]
      /\ inbox' = [inbox EXCEPT ![e] =
           [i \in 1 .. Len(stream) - k |-> ContentUpdate(k + i)]
             \o <<ResumeComplete>>]
      /\ conn' = [conn EXCEPT ![e] = Live(Len(stream))]
      /\ UNCHANGED <<storeVars, outbox, late, made, drops>>

(* The connection breaks: some of the frames written to it are delivered,  *)
(* and of the edits sent on it some may be read later, or never.           *)
Drop(e) ==
  /\ drops < MaxDrops /\ conn[e].pc # "off"
  /\ drops' = drops + 1
  /\ conn' = [conn EXCEPT ![e] = NoConn]
  /\ late' = [late EXCEPT ![e] = @ \cup Range(outbox[e])]
  /\ outbox' = [outbox EXCEPT ![e] = <<>>]
  /\ \E n \in 0 .. Len(inbox[e]) :
       inbox' = [inbox EXCEPT ![e] = SubSeq(@, 1, n)]
  /\ UNCHANGED <<storeVars, page, made>>

(* onclose, after the frames that were delivered; what was sent since the  *)
(* connection broke is lost.                                               *)
OnClose(e) ==
  /\ page[e].open /\ conn[e].pc = "off" /\ inbox[e] = <<>>
  /\ page' = [page EXCEPT ![e].open = FALSE]
  /\ outbox' = [outbox EXCEPT ![e] = <<>>]
  /\ UNCHANGED <<storeVars, late, inbox, conn, made, drops>>
-----------------------------------------------------------------------------
\* serveWS and watchRoom

(* The script runs for an edit, and an accepted one is history.            *)
Evaluate(e, edit) ==
  /\ ApplyOperationScript(edit.base)
  /\ made' = IF Refused(edit.base) THEN made
             ELSE Append(made,
                    [by |-> e, key |-> edit.key, text |-> edit.text,
                     refused |-> edit.refused, torn |-> edit.torn])

(* handleContentUpdate up to the reply of the script.                      *)
Apply(e) ==
  /\ conn[e].pc = "live" /\ outbox[e] # <<>>
  /\ Evaluate(e, Head(outbox[e]))
  /\ outbox' = [outbox EXCEPT ![e] = Tail(@)]
  /\ LET reply == ApplyReply(Head(outbox[e]).base)
     IN  conn' = [conn EXCEPT ![e] =
           [@ EXCEPT !.pc = "reply", !.snap = reply.snap,
                     !.accepted = reply.accepted]]
  /\ UNCHANGED <<page, late, inbox, drops>>

(* Redis fails, before or after the script; storage_error carries no       *)
(* version, and the page only shows it.                                    *)
ApplyFails(e) ==
  /\ MayFail
  /\ conn[e].pc = "live" /\ outbox[e] # <<>>
  /\ Evaluate(e, Head(outbox[e])) \/ UNCHANGED <<storeVars, made>>
  /\ outbox' = [outbox EXCEPT ![e] = Tail(@)]
  /\ UNCHANGED <<page, late, inbox, conn, drops>>

(* The handler of a connection that is no longer there still reads an edit *)
(* that was sent on it; nothing orders it and the next connection.         *)
ApplyLate(e) ==
  \E edit \in late[e] :
    /\ Evaluate(e, edit)
    /\ late' = [late EXCEPT ![e] = @ \ {edit}]
    /\ UNCHANGED <<page, outbox, inbox, conn, drops>>

(* operation_result; after a refusal the room_state that resyncs is next.  *)
Reply(e) ==
  /\ conn[e].pc = "reply"
  /\ inbox' = [inbox EXCEPT ![e] =
       Append(@, OperationResult(conn[e].snap, conn[e].accepted))]
  /\ conn' = [conn EXCEPT ![e] =
       IF conn[e].accepted THEN Live(conn[e].fed) ELSE [@ EXCEPT !.pc = "state"]]
  /\ UNCHANGED <<storeVars, page, outbox, late, made, drops>>

(* The watcher writes the next event, whatever serveWS is about to write.  *)
Feed(e) ==
  /\ conn[e].pc # "off" /\ conn[e].fed < Len(stream)
  /\ inbox' = [inbox EXCEPT ![e] = Append(@, ContentUpdate(conn[e].fed + 1))]
  /\ conn' = [conn EXCEPT ![e].fed = @ + 1]
  /\ UNCHANGED <<storeVars, page, outbox, late, made, drops>>

-----------------------------------------------------------------------------
\* onmessage

\* The next frame is of this type, and the page becomes p.
Handle(e, type, p) ==
  /\ inbox[e] # <<>> /\ Head(inbox[e]).type = type
  /\ page' = [page EXCEPT ![e] = p]
  /\ inbox' = [inbox EXCEPT ![e] = Tail(@)]
  /\ UNCHANGED <<storeVars, outbox, late, conn, made, drops>>

Higher(e, sequence) ==
  IF sequence > page[e].high THEN sequence ELSE page[e].high

(* room_state replaces text, version and sequence, whatever they were.     *)
OnRoomState(e) ==
  LET frame == Head(inbox[e])
  IN  Handle(e, "room_state",
        [page[e] EXCEPT !.text = frame.content,
                        !.serverVersion = frame.version,
                        !.lastSequence = frame.sequence,
                        !.high = Higher(e, frame.sequence),
                        !.refused = FALSE,
                        !.torn = frame.content < frame.sequence])

\* Faulty: a content_update moves the version and not the sequence.
OnUpdateKeepsSequence(e) ==
  LET frame == Head(inbox[e])
      last  == page[e].lastSequence
  IN  Handle(e, "content_update",
        IF frame.sequence <= last THEN page[e]
        ELSE [page[e] EXCEPT !.text = frame.content,
                             !.serverVersion = frame.version,
                             !.refused = FALSE, !.torn = FALSE,
                             !.gap = \/ @
                                     \/ /\ last > 0 /\ frame.sequence > last + 1
                                        /\ ~TakenBack(e)])

(* content_update: a sequence already seen is suppressed; a jump is shown  *)
(* to the user as an event gap, and taken over all the same.  History      *)
(* notes the gaps shown to a page that was not taken back before.          *)
OnContentUpdate(e) ==
  LET frame == Head(inbox[e])
      last  == page[e].lastSequence
  IN  Handle(e, "content_update",
        IF frame.sequence <= last THEN page[e]
        ELSE [page[e] EXCEPT !.text = frame.content,
                             !.serverVersion = frame.version,
                             !.lastSequence = frame.sequence,
                             !.high = Higher(e, frame.sequence),
                             !.refused = FALSE, !.torn = FALSE,
                             !.gap = \/ @
                                     \/ /\ last > 0 /\ frame.sequence > last + 1
                                        /\ ~TakenBack(e)])

(* operation_result moves the version alone.                               *)
OnOperationResult(e) ==
  LET frame == Head(inbox[e])
  IN  Handle(e, "operation_result",
        [page[e] EXCEPT !.serverVersion = frame.version,
                        !.refused = ~frame.accepted])

(* resume_complete moves version and sequence; the text came before it.    *)
OnResumeComplete(e) ==
  LET frame == Head(inbox[e])
  IN  Handle(e, "resume_complete",
        [page[e] EXCEPT !.serverVersion = frame.version,
                        !.lastSequence = frame.sequence,
                        !.high = Higher(e, frame.sequence), !.refused = FALSE])

OnMessage(e) ==
  \/ OnRoomState(e) \/ OnContentUpdate(e) \/ OnOperationResult(e)
  \/ OnResumeComplete(e)

-----------------------------------------------------------------------------
Serve(e) == ReadSnapshot(e) \/ WriteState(e) \/ Apply(e) \/ ApplyFails(e) \/ Reply(e)

Run(e) ==
  \/ Fire(e) \/ ConnectFresh(e) \/ Resume(e) \/ OnClose(e) \/ OnMessage(e)

Next ==
  \E e \in Editors :
    Type(e) \/ Run(e) \/ Serve(e) \/ Feed(e) \/ Drop(e) \/ ApplyLate(e)

Spec == Init /\ [][Next]_vars

(* Browsers and backends run; users type and connections break at will.    *)
FairSpec ==
  /\ Spec
  /\ \A e \in Editors : WF_vars(Run(e)) /\ WF_vars(Serve(e)) /\ WF_vars(Feed(e))

-----------------------------------------------------------------------------
\* Properties

EditType  == [key : Nat, base : Nat, text : Nat, refused : BOOLEAN, torn : BOOLEAN]
MadeType  == [by : Editors, key : Nat, text : Nat, refused : BOOLEAN, torn : BOOLEAN]
FrameType == [type : {"room_state", "content_update", "operation_result",
                      "resume_complete"},
              content : Nat, version : Nat, sequence : Nat, accepted : BOOLEAN]

(* The refs, the frames and the locals have their types.                   *)
EditorTypeOK ==
  /\ StoreTypeOK
  /\ page \in [Editors ->
       [open : BOOLEAN, text : Nat, serverVersion : Nat, lastSequence : Nat,
        operationCounter : Nat, pending : EditType,
        refused : BOOLEAN, torn : BOOLEAN, high : Nat, gap : BOOLEAN]]
  /\ outbox \in [Editors -> Seq(EditType)]
  /\ late \in [Editors -> SUBSET EditType]
  /\ inbox \in [Editors -> Seq(FrameType)]
  /\ conn \in [Editors ->
       [pc : {"off", "added", "state", "live", "reply"}, fed : Nat, from : Nat,
        accepted : BOOLEAN, snap : Snapshot]]
  /\ made \in Seq(MadeType)
  /\ drops \in Nat

(* The edits of a page that are accepted are accepted in the order typed,  *)
(* and none twice (docs/phase2.md:36), although the handler of a broken    *)
(* connection and that of the next read them in any order and the version  *)
(* a page holds goes up and down.                                          *)
AcceptedInOrder ==
  \A m, n \in 1 .. Len(made) :
    m < n /\ made[m].by = made[n].by => made[m].key < made[n].key

\* Accepted edit n replaces an edit of another page that its page had not shown.
Overwrites(n) == made[n - 1].by # made[n].by /\ made[n].text < n - 1

(* An edit that replaces one of another page, unshown, was typed after a   *)
(* refusal and before the resync, or on a text whose snapshot was read     *)
(* while the document changed: never because of the debounce, of an        *)
(* acknowledgement, of a replay or of frames in any order (README.md:63).  *)
OverwriteHasCause ==
  \A n \in 2 .. Len(made) : Overwrites(n) => made[n].refused \/ made[n].torn

(* No silent overwrite (README.md:63), for edits typed on a text that is   *)
(* of one document: such an edit is accepted only if its text was made     *)
(* from the edit it replaces, not merely if it carries its version.        *)
OthersNotOverwritten ==
  \A n \in 2 .. Len(made) : Overwrites(n) => made[n].torn

(* The user is shown an event gap (RoomPage.tsx:185) only on a page that   *)
(* an older room_state has taken back: events, acks and resyncs of one     *)
(* connection, and the replay of the next, fit.                            *)
NoGapShown == \A e \in Editors : ~page[e].gap

(* A reconnect is never refused for its cursor (ws.go:172), after any      *)
(* sequence of frames: the page would reconnect with it forever.           *)
CursorInLog == \A e \in Editors : page[e].lastSequence <= doc.sequence

Newest(e) == page[e].text = Len(stream)

\* The connection has written everything, and the page has handled it.
Settled(e) ==
  /\ page[e].open /\ conn[e].pc = "live" /\ conn[e].fed = Len(stream)
  /\ inbox[e] = <<>>

(* A page that has handled all its frames shows the newest document, or a  *)
(* room_state left it behind: one read before what the page had shown, or  *)
(* while the document changed.  No suppressed duplicate, acknowledgement,  *)
(* broken connection or replay leaves a page behind.                       *)
SettledIsNewest ==
  \A e \in Editors :
    Settled(e) => Newest(e) \/ TakenBack(e) \/ page[e].torn

(* After a replay completes the text, version and sequence of the page are *)
(* those of the same, final edit (docs/phase2.md:52).                      *)
ReplayShowsFinal ==
  [][\A e \in Editors :
       OnResumeComplete(e) =>
         /\ page'[e].text = page'[e].serverVersion
         /\ page'[e].text = page'[e].lastSequence]_vars

(* When users and network have calmed down every page comes to show the    *)
(* newest document, after refusals, reconnects and edits that were lost,   *)
(* unless a room_state left it behind.                                     *)
Converges ==
  <>[](\A e \in Editors : Newest(e) \/ TakenBack(e) \/ page[e].torn)
=============================================================================
