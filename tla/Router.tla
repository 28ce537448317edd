-------------------------------- MODULE Router --------------------------------
(***************************************************************************)
(* The Router (router.cc): a tree whose node at depth d stands for d       *)
(* segments of a path, each a literal or the node's one parameter.  A node *)
(* is named by the sequence of segments that leads to it, with Param for   *)
(* any parameter, so the tree is a function on such sequences.             *)
(*                                                                         *)
(* A uri is the sequence of the strings between its slashes, where two     *)
(* slashes in a row have "" between them.                                  *)
(***************************************************************************)
EXTENDS Integers, Sequences

CONSTANTS Methods,     \* METHOD
          Parameters,  \* segments like {name}, as routes have them
          Param        \* names the parameter child of a node

NoHandler == "none"
NoParameter == "{}"

Empty == [m \in Methods |-> NoHandler]

\* root_node
NewRouter == [node \in {<<>>} |-> Empty]

split_path_segments(uri) ==
    LET segs[n \in 0 .. Len(uri)] ==
          IF n = 0 THEN <<>>
          ELSE IF uri[n] = "" THEN segs[n - 1]
          ELSE Append(segs[n - 1], uri[n]) IN
    segs[Len(uri)]

IsParameter(segment) == segment \in Parameters \cup {NoParameter}

\* The node that the first n segments of a route lead to.
NodeOf(segs, n) == [i \in 1 .. n |-> IF IsParameter(segs[i]) THEN Param ELSE segs[i]]

\* Where insert_recursive gives up: at a parameter without a name, and at one
\* whose node exists, even under the same name.
Refusals(tree, segs) ==
    {i \in DOMAIN segs : /\ IsParameter(segs[i])
                         /\ segs[i] = NoParameter \/ NodeOf(segs, i) \in DOMAIN tree}

Accepts(tree, uri) == Refusals(tree, split_path_segments(uri)) = {}

\* Router::add: the tree with the nodes that insert_recursive makes, up to the
\* segment it gives up at, and with the handler when it does not.
add(tree, method, uri, handler) ==
    LET segs == split_path_segments(uri)
        refusals == Refusals(tree, segs)
        depth == IF refusals = {} THEN Len(segs)
                 ELSE (CHOOSE i \in refusals : \A j \in refusals : i <= j) - 1
        nodes == DOMAIN tree \cup {NodeOf(segs, n) : n \in 0 .. depth}
        At(node) == IF node \in DOMAIN tree THEN tree[node] ELSE Empty IN
    [node \in nodes |->
        IF refusals = {} /\ node = NodeOf(segs, Len(segs))
        THEN [At(node) EXCEPT ![method] = handler]
        ELSE At(node)]

NotResolved == [handler |-> NoHandler, param |-> ""]

\* Mutant of find_handler_recursive: a literal that matches is not given up.
find_without_fallback(tree, method, segs) ==
    LET find[node \in {n \in DOMAIN tree : Len(n) <= Len(segs)}] ==
          LET literal == Append(node, segs[Len(node) + 1])
              param == Append(node, Param) IN
          IF Len(node) = Len(segs) THEN [handler |-> tree[node][method], param |-> ""]
          ELSE IF literal \in DOMAIN tree THEN find[literal]
          ELSE IF param \in DOMAIN tree THEN find[param]
          ELSE NotResolved IN
    find[<<>>]

\* Literal before parameter at every node, and back to the parameter when the
\* literal leads to no handler.  The parameter that is returned is the last
\* one on the way to the handler.
find_handler_recursive(tree, method, segs) ==
    LET find[node \in {n \in DOMAIN tree : Len(n) <= Len(segs)}] ==
          LET segment == segs[Len(node) + 1]
              Child(child) ==
                IF child \in DOMAIN tree THEN find[child] ELSE NotResolved
              literal == Child(Append(node, segment))
              param == Child(Append(node, Param)) IN
          IF Len(node) = Len(segs) THEN [handler |-> tree[node][method], param |-> ""]
          ELSE IF literal.handler # NoHandler THEN literal
          ELSE IF param.handler = NoHandler THEN NotResolved
          ELSE IF param.param # "" THEN param
          ELSE [param EXCEPT !.param = segment] IN
    find[<<>>]

resolve(tree, method, uri) ==
    find_handler_recursive(tree, method, split_path_segments(uri))
-----------------------------------------------------------------------------
(***************************************************************************)
(* What resolve should return, from the routes that were accepted.         *)
(***************************************************************************)

\* The routes that match, literally or with a parameter for a segment.
Matches(routes, method, segs) ==
    {r \in routes :
        /\ r.method = method
        /\ Len(r.node) = Len(segs)
        /\ \A i \in DOMAIN segs : r.node[i] \in {segs[i], Param}}

\* r is preferred to q: where they first differ it has the literal.
Preferred(r, q) ==
    \A i \in DOMAIN r.node :
        r.node[i] = Param /\ q.node[i] # Param =>
            \E j \in 1 .. i - 1 : r.node[j] # Param /\ q.node[j] = Param

BestMatch(routes, method, uri) ==
    LET segs == split_path_segments(uri)
        matches == Matches(routes, method, segs)
        best == CHOOSE r \in matches : \A q \in matches : Preferred(r, q)
        params == {i \in DOMAIN segs : best.node[i] = Param} IN
    IF matches = {} THEN NotResolved
    ELSE [handler |-> best.handler,
          param |-> IF params = {} THEN ""
                    ELSE segs[CHOOSE i \in params : \A j \in params : j <= i]]
=============================================================================
