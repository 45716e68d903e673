------------------------------ MODULE OnceOnly ------------------------------
(***************************************************************************)
(* What a call of a tool of the knowledge sidecar promises, whatever happens  *)
(* to the connection and to the session: it is carried out at most once, and   *)
(* an answer other than null means that it was.                              *)
(***************************************************************************)
CONSTANT Caller

VARIABLES
  open,     \* the callers whose call is under way
  carried,  \* those among all callers whose last call was carried out
  told      \* those whose last call ended with a result

vars == <<open, carried, told>>

Init == open = {} /\ carried = {} /\ told = {}

Call(c) ==
  /\ c \notin open
  /\ open' = open \cup {c}
  /\ carried' = carried \ {c}
  /\ told' = told \ {c}

CarryOut(c) ==
  /\ c \in open \ carried
  /\ carried' = carried \cup {c}
  /\ UNCHANGED <<open, told>>

Return(c) ==
  /\ c \in open
  /\ open' = open \ {c}
  /\ \/ told' = told
     \/ c \in carried /\ told' = told \cup {c}
  /\ UNCHANGED carried

Next == \E c \in Caller : Call(c) \/ CarryOut(c) \/ Return(c)

Spec == Init /\ [][Next]_vars
=============================================================================
