---------------------------- MODULE TransportCalls ----------------------------
(***************************************************************************)
(* What infrastructure/transport.h promises whoever calls it: each call is *)
(* one step, after which the handle has a connection or has none.  A write *)
(* or a read may have replaced the connection behind its caller's back.    *)
(***************************************************************************)
EXTENDS Naturals

VARIABLES
  open,         (* the handle has a connection, as far as the device knows   *)
  connections,  (* connections made so far                                   *)
  returned      (* the last call and its result                              *)

(* The outcomes of a call, from a handle that had a connection or not (was)  *)
(* to one that has one or not (is): no connection appears but one made by    *)
(* the call itself, a success leaves one, and transport_connect replaces     *)
(* whatever there was and says whether it did.                               *)
CallOutcome(op, was, is, replaced, ok) ==
  /\ replaced => is
  /\ is => was \/ replaced
  /\ ok => is
  /\ op = "connect" => (is <=> replaced) /\ (ok <=> is)

Init ==
  /\ open = FALSE
  /\ connections = 0
  /\ returned = [operation |-> "none", ok |-> FALSE]

Call(op) ==
  \E is, replaced, ok \in BOOLEAN :
    /\ CallOutcome(op, open, is, replaced, ok)
    /\ open' = is
    /\ connections' = IF replaced THEN connections + 1 ELSE connections
    /\ returned' = [operation |-> op, ok |-> ok]

(* transport_disconnect, transport_free                                      *)
Close ==
  /\ open' = FALSE
  /\ UNCHANGED <<connections, returned>>

Next == Close \/ \E op \in {"connect", "write", "read"} : Call(op)

Spec == Init /\ [][Next]_<<open, connections, returned>>
=============================================================================
