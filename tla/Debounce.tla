------------------------------- MODULE Debounce -------------------------------
(***************************************************************************)
(* What the comments of createMailThrottle promise of the notifications of *)
(* the verify-email chain: one send per key and window, unless a flood of  *)
(* other keys has come in between.  There is no map here and nothing is    *)
(* ever evicted.                                                           *)
(***************************************************************************)
EXTENDS Integers, FiniteSets

CONSTANTS
  Keys,       \* a template and an address: "<method>:<address>"
  windowMs, maxKeys,
  Never

VARIABLES
  now,
  last,    \* when a key was last sent, or Never
  since,   \* the other keys sent after that
  answer   \* what the mailer answered last

Results == {"ok", "rejected", "thrown"}

Init ==
  /\ now = 0
  /\ last = [k \in Keys |-> Never]
  /\ since = [k \in Keys |-> {}]
  /\ answer = "none"

Due(k) == last[k] = Never \/ now - last[k] >= windowMs
Flooded(k) == Cardinality(since[k]) >= maxKeys

Send(k) ==
  /\ Due(k) \/ Flooded(k)
  /\ last' = [last EXCEPT ![k] = now]
  /\ since' = [x \in Keys |-> IF x = k THEN {} ELSE since[x] \cup {k}]
  /\ answer' \in Results
  /\ UNCHANGED now

\* A notification is dropped only when the key was sent inside the window.
Drop(k) ==
  /\ ~Due(k)
  /\ answer' = "dropped"
  /\ UNCHANGED <<now, last, since>>

\* sendWelcome is not asked of the throttle.
Welcome ==
  /\ answer' \in Results
  /\ UNCHANGED <<now, last, since>>

Tick ==
  /\ now' > now
  /\ UNCHANGED <<last, since, answer>>

Next == (\E k \in Keys : Send(k) \/ Drop(k)) \/ Welcome \/ Tick

Spec == Init /\ [][Next]_<<now, last, since, answer>>

==============================================================================
