------------------------------ MODULE WorkDeque ------------------------------
(***************************************************************************)
(* What an m_queue promises (lib/m_queue.h): a list of items, added at the *)
(* tail, pushed back at the head and taken from the head; "empty" is only  *)
(* answered when it is.  WorkQueue implements this specification.          *)
(***************************************************************************)
EXTENDS Sequences

CONSTANTS Items, Nothing

VARIABLES items,    (* the queued items, first to leave first              *)
          held,     (* the items in the hands of callers                   *)
          ret       (* what queue_get last returned                        *)

Init ==
  /\ items = <<>>
  /\ held = Items
  /\ ret = Nothing

Add(x) ==
  /\ x \in held
  /\ items' = Append(items, x)
  /\ held' = held \ {x}
  /\ UNCHANGED ret

Push(x) ==
  /\ x \in held
  /\ items' = <<x>> \o items
  /\ held' = held \ {x}
  /\ UNCHANGED ret

Get ==
  /\ items # <<>>
  /\ items' = Tail(items)
  /\ held' = held \cup {Head(items)}
  /\ ret' = Head(items)

GetNothing ==
  /\ items = <<>>
  /\ ret' = Nothing
  /\ UNCHANGED <<items, held>>

Next ==
  \/ \E x \in Items : Add(x) \/ Push(x)
  \/ Get \/ GetNothing

Spec == Init /\ [][Next]_<<items, held, ret>>
=============================================================================
