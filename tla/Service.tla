------------------------------ MODULE Service ------------------------------
(***************************************************************************)
(* What the acceptor and the workers promise to connections, without       *)
(* descriptors, tables and session maps: connections are accepted in the   *)
(* order they arrive, unless they are aborted while they wait for it; each *)
(* is turned away or put in the line of one worker, and that worker takes  *)
(* them out of its line in order, to serve them or to close them.  Nothing *)
(* that happens to one connection, not even the reuse of its descriptor's  *)
(* number, touches another.  Dispatch is shown to implement this module.   *)
(***************************************************************************)
EXTENDS Integers, Sequences

CONSTANTS Worker,   \* the workers
          Bound,    \* how many connections fit in a line
          MaxConn   \* bound on the connections that clients make

VARIABLES arrived,  \* connections 1 .. arrived have been made
          taken,    \* connections 1 .. taken have been accepted or aborted
          held,     \* the connections the acceptor has in its hands
          line,     \* line[w]: the connections that wait for w, oldest first
          serving   \* serving[w]: the connections that w serves

serviceVars == <<arrived, taken, held, line, serving>>

ServiceInit ==
    /\ arrived = 0
    /\ taken = 0
    /\ held = {}
    /\ line = [w \in Worker |-> <<>>]
    /\ serving = [w \in Worker |-> {}]

Arrive ==
    /\ arrived < MaxConn
    /\ arrived' = arrived + 1
    /\ UNCHANGED <<taken, held, line, serving>>

\* The oldest connection is accepted, when the one before it has been placed.
Take ==
    /\ taken < arrived
    /\ held = {}
    /\ taken' = taken + 1
    /\ held' = {taken + 1}
    /\ UNCHANGED <<arrived, line, serving>>

\* The oldest connection was aborted while it waited to be accepted.
Abort ==
    /\ taken < arrived
    /\ held = {}
    /\ taken' = taken + 1
    /\ UNCHANGED <<arrived, held, line, serving>>

Assign(c, w) ==
    /\ c \in held
    /\ Len(line[w]) < Bound
    /\ held' = {}
    /\ line' = [line EXCEPT ![w] = Append(@, c)]
    /\ UNCHANGED <<arrived, taken, serving>>

TurnAway ==
    /\ held # {}
    /\ held' = {}
    /\ UNCHANGED <<arrived, taken, line, serving>>

\* A worker takes the oldest connection of its line, and serves it ...
Begin(w) ==
    /\ line[w] # <<>>
    /\ line' = [line EXCEPT ![w] = Tail(@)]
    /\ serving' = [serving EXCEPT ![w] = @ \cup {Head(line[w])}]
    /\ UNCHANGED <<arrived, taken, held>>

\* ... or closes it.
Drop(w) ==
    /\ line[w] # <<>>
    /\ line' = [line EXCEPT ![w] = Tail(@)]
    /\ UNCHANGED <<arrived, taken, held, serving>>

End(c, w) ==
    /\ c \in serving[w]
    /\ serving' = [serving EXCEPT ![w] = @ \ {c}]
    /\ UNCHANGED <<arrived, taken, held, line>>

ServiceNext ==
    \/ Arrive
    \/ Take
    \/ Abort
    \/ TurnAway
    \/ \E w \in Worker :
         \/ Begin(w)
         \/ Drop(w)
         \/ \E c \in 1 .. MaxConn : Assign(c, w) \/ End(c, w)

ServiceSpec == ServiceInit /\ [][ServiceNext]_serviceVars
=============================================================================
