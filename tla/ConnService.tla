---------------------------- MODULE ConnService ----------------------------
(***************************************************************************)
(* What the connection pool promises, without threads' program counters,   *)
(* locks, the list of connections or the shutdown's steps: connections     *)
(* wait in one line in the order they were accepted, an attendant serves   *)
(* one connection at a time, a connection is served by one attendant and   *)
(* only once, and after the line is closed nobody joins it.  CommManager   *)
(* implements this specification (CommManager!Promise).                    *)
(***************************************************************************)
EXTENDS Sequences

CONSTANTS
  Threads,   \* the attendants
  Conns,     \* the connections that may arrive
  NULL       \* the mark that closes the line, and "nobody"

VARIABLES
  line,      \* accepted connections that nobody serves yet, in order
  serves,    \* the connection each attendant serves
  left       \* connections whose service is over

lineVars == <<line, serves, left>>

Init ==
  /\ line = <<>>
  /\ serves = [t \in Threads |-> NULL]
  /\ left = {}

InLine(c) == \E i \in DOMAIN line : line[i] = c
Known(c) == InLine(c) \/ c \in left \/ \E t \in Threads : serves[t] = c

Arrive(c) ==
  /\ ~InLine(NULL)
  /\ ~Known(c)
  /\ line' = Append(line, c)
  /\ UNCHANGED <<serves, left>>

Close ==
  /\ ~InLine(NULL)
  /\ line' = Append(line, NULL)
  /\ UNCHANGED <<serves, left>>

Serve(t) ==
  /\ line # <<>>
  /\ Head(line) # NULL
  /\ serves[t] = NULL
  /\ serves' = [serves EXCEPT ![t] = Head(line)]
  /\ line' = Tail(line)
  /\ UNCHANGED left

Finish(t) ==
  /\ serves[t] # NULL
  /\ left' = left \cup {serves[t]}
  /\ serves' = [serves EXCEPT ![t] = NULL]
  /\ UNCHANGED line

Next ==
  \/ \E c \in Conns : Arrive(c)
  \/ Close
  \/ \E t \in Threads : Serve(t) \/ Finish(t)

Spec == Init /\ [][Next]_lineVars

=============================================================================
