----------------------------- MODULE BtAdapter -----------------------------
(***************************************************************************)
(* What include/bluedroid/bluetooth.h promises of the three calls, as far  *)
(* as callers in several threads can rely on it: each answer is true at    *)
(* some moment of the call that gives it.  The adapter is on or off; only  *)
(* a bt_enable in progress turns it on.  A bt_enable that times out ends   *)
(* the promise: it may have closed the descriptor of another call.         *)
(***************************************************************************)
EXTENDS Integers

CONSTANT Caller

VARIABLES
  on,       \* is the adapter usable
  calling,  \* the function each caller is inside, or "none"
  answer,   \* what the last call of each caller returned
  seen,     \* the values on has had during the call
  broken    \* a bt_enable has timed out

adapterVars == <<on, calling, answer, seen, broken>>

Function == {"enable", "disable", "is_enabled"}
Inside(c) == calling[c] # "none"

AdapterInit ==
  /\ on \in BOOLEAN
  /\ calling = [c \in Caller |-> "none"]
  /\ answer = [c \in Caller |-> -1]
  /\ seen = [c \in Caller |-> {}]
  /\ broken = FALSE

AdapterCall(c, f) ==
  /\ ~Inside(c)
  /\ calling' = [calling EXCEPT ![c] = f]
  /\ answer' = [answer EXCEPT ![c] = -1]
  /\ seen' = [seen EXCEPT ![c] = {on}]
  /\ UNCHANGED <<on, broken>>

Becomes(b) ==
  /\ on = ~b
  /\ on' = b
  /\ seen' = [c \in Caller |-> IF Inside(c) THEN seen[c] \cup {b} ELSE {}]
  /\ UNCHANGED <<calling, answer, broken>>

TurnOn == Becomes(TRUE) /\ \E c \in Caller : calling[c] = "enable"
TurnOff == Becomes(FALSE)

TimeOut ==
  /\ \E c \in Caller : calling[c] = "enable"
  /\ broken' = TRUE
  /\ UNCHANGED <<on, calling, answer, seen>>

(* An error may be reported at any time. *)
Justified(f, r, values) ==
  \/ r = -1
  \/ f = "enable" /\ r = 0 /\ TRUE \in values
  \/ f = "disable" /\ r = 0 /\ FALSE \in values
  \/ f = "is_enabled" /\ r = 1 /\ TRUE \in values
  \/ f = "is_enabled" /\ r = 0 /\ FALSE \in values

AdapterReply(c) ==
  /\ Inside(c)
  /\ \E r \in {-1, 0, 1} :
       /\ broken \/ Justified(calling[c], r, seen[c])
       /\ answer' = [answer EXCEPT ![c] = r]
  /\ calling' = [calling EXCEPT ![c] = "none"]
  /\ seen' = [seen EXCEPT ![c] = {}]
  /\ UNCHANGED <<on, broken>>

AdapterNext ==
  \/ \E c \in Caller : (\E f \in Function : AdapterCall(c, f)) \/ AdapterReply(c)
  \/ TurnOn \/ TurnOff \/ TimeOut

AdapterSpec == AdapterInit /\ [][AdapterNext]_adapterVars
=============================================================================
