--------------------------- MODULE ReadersWriters ---------------------------
(***************************************************************************)
(* What a lock with shared and exclusive sections promises: an exclusive   *)
(* section is alone.                                                       *)
(***************************************************************************)
CONSTANTS
  Call,    \* the calls that may hold the lock
  NoCall   \* nobody

VARIABLES
  readers,  \* the calls in a shared section
  writer    \* the call in an exclusive section, or NoCall

Init == readers = {} /\ writer = NoCall

Share(c) ==
  /\ writer = NoCall
  /\ readers' = readers \cup {c}
  /\ UNCHANGED writer

Unshare(c) ==
  /\ c \in readers
  /\ readers' = readers \ {c}
  /\ UNCHANGED writer

Take(c) ==
  /\ readers = {} /\ writer = NoCall
  /\ writer' = c
  /\ UNCHANGED readers

Release ==
  /\ writer # NoCall
  /\ writer' = NoCall
  /\ UNCHANGED readers

Next == Release \/ \E c \in Call : Share(c) \/ Unshare(c) \/ Take(c)

Spec == Init /\ [][Next]_<<readers, writer>>
=============================================================================
