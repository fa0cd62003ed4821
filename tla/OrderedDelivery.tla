--------------------------- MODULE OrderedDelivery ---------------------------
(***************************************************************************)
(* What LiveCollab promises of one room (README.md:65-79), without saying  *)
(* how: there is one log of accepted edits, an edit enters it against its  *)
(* last version, and every connection is sent a consecutive piece of it    *)
(* that starts after the cursor the connection presented.  Nothing is said *)
(* of backends, caches, watchers, replays and buffers, nor of crashes.     *)
(***************************************************************************)
EXTENDS Integers, Sequences

CONSTANTS
  Conns,        \* connections
  Policy,       \* the stale write policy
  Bases,        \* the base versions an edit may carry
  Cursors       \* the cursors a page may present

VARIABLES
  log,          \* the accepted edits, by version: the base each was sent with
  cursor,       \* per connection: the last sequence its page has seen, or 0
  sent          \* per connection: the sequences it has been sent

vars == <<log, cursor, sent>>

Init ==
  /\ log = <<>>
  /\ cursor = [c \in Conns |-> 0]
  /\ sent = [c \in Conns |-> <<>>]

(* An edit is accepted; under the policy "reject" it was made from the     *)
(* version it replaces.                                                    *)
Accept(base) ==
  /\ Policy = "reject" => base = Len(log)
  /\ log' = Append(log, base)
  /\ UNCHANGED <<cursor, sent>>

(* A page connects and says what it has seen.                              *)
Connect(c, k) ==
  /\ sent[c] = <<>>
  /\ cursor' = [cursor EXCEPT ![c] = k]
  /\ UNCHANGED <<log, sent>>

(* The next event follows the one that was sent last; the first follows    *)
(* the cursor, and may be any for a page that has seen nothing.            *)
FollowsOn(c, n) ==
  IF sent[c] # <<>> THEN n = sent[c][Len(sent[c])] + 1
  ELSE cursor[c] > 0 => n = cursor[c] + 1

(* A connection is sent the next event of the log.                         *)
Deliver(c) ==
  /\ \E n \in 1 .. Len(log) :
       /\ FollowsOn(c, n)
       /\ sent' = [sent EXCEPT ![c] = Append(@, n)]
  /\ UNCHANGED <<log, cursor>>

Next ==
  \/ \E base \in Bases : Accept(base)
  \/ \E c \in Conns : Deliver(c) \/ \E k \in Cursors : Connect(c, k)

Spec == Init /\ [][Next]_vars
=============================================================================
