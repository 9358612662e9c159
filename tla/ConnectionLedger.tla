-------------------------- MODULE ConnectionLedger --------------------------
(***************************************************************************)
(* What the TELNET server promises its application about connections,      *)
(* without sockets, timers or threads: connections are opened and closed   *)
(* one at a time; each is announced by new_connection, later followed by   *)
(* its own connection_end, and the number of open connections follows.     *)
(* The counter is written first, the callback comes second.                *)
(***************************************************************************)
EXTENDS Naturals, FiniteSets

CONSTANTS
  Connections,   \* the logical connections of the server
  None           \* no change is under way

ASSUME LedgerConstantsOK ==
  /\ IsFiniteSet(Connections)
  /\ None \notin {"opened", "closed"} \X Connections

VARIABLES
  open,     \* announced, and not ended yet
  count,    \* nx_telnet_server_open_connections
  change    \* the change that is counted and not announced yet

vars == <<open, count, change>>

Init == open = {} /\ count = 0 /\ change = None

\* As a bug: the change is counted although the connection is open already.
CountOpenedAgain(c) ==
  /\ change = None
  /\ count' = count + 1
  /\ change' = <<"opened", c>>
  /\ UNCHANGED open

CountOpened(c) ==
  /\ change = None /\ c \notin open
  /\ count' = count + 1
  /\ change' = <<"opened", c>>
  /\ UNCHANGED open

NewConnection(c) ==
  /\ change = <<"opened", c>>
  /\ open' = open \cup {c}
  /\ change' = None
  /\ UNCHANGED count

CountClosed(c) ==
  /\ change = None /\ c \in open
  /\ count' = count - 1
  /\ change' = <<"closed", c>>
  /\ UNCHANGED open

\* As a bug: the end is counted a second time.
ConnectionEndCounted(c) ==
  /\ change = <<"closed", c>>
  /\ open' = open \ {c}
  /\ change' = None
  /\ count' = count - 1

ConnectionEnd(c) ==
  /\ change = <<"closed", c>>
  /\ open' = open \ {c}
  /\ change' = None
  /\ UNCHANGED count

Next == \E c \in Connections :
  CountOpened(c) \/ NewConnection(c) \/ CountClosed(c) \/ ConnectionEnd(c)

Spec == Init /\ [][Next]_vars

-----------------------------------------------------------------------------
LedgerTypeOK ==
  /\ open \in SUBSET Connections
  /\ count \in Nat
  /\ change \in ({"opened", "closed"} \X Connections) \cup {None}

\* The connections that are counted: an opened one before its callback, a
\* closed one no more.
Counted ==
  (open \cup {c \in Connections : change = <<"opened", c>>})
     \ {c \in Connections : change = <<"closed", c>>}

\* The counter is the number of connections, at every moment of every history
\* of callbacks: what nx_telnet_server_get_open_connection_count returns.
Balanced == count = Cardinality(Counted)
=============================================================================
