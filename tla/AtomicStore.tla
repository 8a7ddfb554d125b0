---------------------------- MODULE AtomicStore -----------------------------
(***************************************************************************)
(* What a database file promises to the connections that use it, without   *)
(* pages, journals or locks: transactions that are atomic, isolated and,   *)
(* but for the last one, durable.                                          *)
(***************************************************************************)
CONSTANTS Conn,          \* connections
          Image,         \* the possible contents of the database
          NoView         \* what an idle connection sees

VARIABLES committed,     \* the content every new reader sees
          durable,       \* the content a power failure can fall back to
          view,          \* view[c]: what connection c sees
          writing        \* the connections inside a write transaction

vars == <<committed, durable, view, writing>>

Init ==
  /\ committed \in Image
  /\ durable = committed
  /\ view = [c \in Conn |-> NoView]
  /\ writing = {}

BeginRead(c) ==
  /\ view[c] = NoView
  /\ view' = [view EXCEPT ![c] = committed]
  /\ UNCHANGED <<committed, durable, writing>>

EndRead(c) ==
  /\ c \notin writing
  /\ view' = [view EXCEPT ![c] = NoView]
  /\ UNCHANGED <<committed, durable, writing>>

(* One writer at a time, and it starts from the committed content. *)
BeginWrite(c) ==
  /\ writing = {} /\ view[c] = committed
  /\ writing' = {c}
  /\ UNCHANGED <<committed, durable, view>>

Write(c) ==
  /\ c \in writing
  /\ view'[c] \in Image
  /\ view' = [view EXCEPT ![c] = view'[c]]
  /\ UNCHANGED <<committed, durable, writing>>

(* The writer's content replaces the committed one in one step, while      *)
(* nobody reads and while no older transaction is still at risk.           *)
Commit(c) ==
  /\ c \in writing
  /\ durable = committed
  /\ \A d \in Conn \ {c} : view[d] = NoView
  /\ committed' = view[c]
  /\ durable' \in {durable, view[c]}
  /\ writing' = {}
  /\ UNCHANGED view

(* The writer gives up, or fails and loses its view. *)
Abort(c) ==
  /\ c \in writing
  /\ writing' = {}
  /\ \E v \in {committed, NoView} : view' = [view EXCEPT ![c] = v]
  /\ UNCHANGED <<committed, durable>>

Sync ==
  /\ UNCHANGED <<writing, view, committed>>
  /\ durable' = committed

PowerLoss ==
  /\ writing' = {}
  /\ view' = [c \in Conn |-> NoView]
  /\ committed' \in {committed, durable}
  /\ durable' = committed'

Next ==
  \/ Sync
  \/ \E c \in Conn : \/ BeginRead(c) \/ EndRead(c) \/ BeginWrite(c)
                     \/ Write(c) \/ Commit(c) \/ Abort(c)
  \/ PowerLoss

Spec == Init /\ [][Next]_vars
=============================================================================
