------------------------------- MODULE Startup -------------------------------
(***************************************************************************)
(* From the command line to the first connection: ConfigOption, main, the  *)
(* registration of routes, Server::listen_and_serve up to its loop, and    *)
(* the workers' construction and first steps.  System calls may fail where *)
(* the code looks.  Options are narrowed to the widths of their fields;    *)
(* worker objects live in a vector, whose elements move when it grows,     *)
(* while their callbacks hold the address they were constructed at.        *)
(***************************************************************************)
EXTENDS Router, FiniteSets

CONSTANTS Programs,     \* command lines, with the routes that are registered
          Uris,         \* paths that are asked for
          RegularFile,  \* paths of regular files
          UsableFile,   \* those OpenSSL finds a key or a certificate in
          PortValues,   \* 2^16
          ThreadValues, \* 2^8
          CountValues,  \* 2^32, the values of a uint32_t
          QueueSize,    \* 4096
          TableSize     \* 1024

ASSUME StartupAssumption ==
    /\ {PortValues, ThreadValues, CountValues, TableSize} \subseteq Nat \ {0}
    /\ UsableFile \subseteq RegularFile
    /\ \A p \in Programs :
         /\ p.args \in Seq({p.args[i] : i \in DOMAIN p.args})
         /\ \A i \in DOMAIN p.args : p.args[i].number \in Int

\* A uri is text, and Param is none; a registered handler can be called.
IsText(uri) == uri \in Seq({uri[i] : i \in DOMAIN uri} \ {Param})

ASSUME RoutesAssumption ==
    /\ \A uri \in Uris : IsText(uri)
    /\ \A p \in Programs :
         /\ p.routes \in Seq({p.routes[i] : i \in DOMAIN p.routes})
         /\ \A i \in DOMAIN p.routes :
              /\ p.routes[i].method \in Methods
              /\ p.routes[i].handler # NoHandler
              /\ IsText(p.routes[i].uri)

VARIABLES
    program,   \* the Program that runs
    done,      \* options parsed, then routes registered
    config,    \* ConfigOption
    tree,      \* the router's tree
    accepted,  \* the routes add accepted, for the properties
    server_sock,
    listening, \* the port the kernel listens at; 0 stands for one it chooses
    indirect_table,
    workers,   \* the vector: where each Worker is, what its callbacks hold
    capacity,  \* of the vector
    storage,   \* number of allocations of the vector
    threads,   \* threads started
    ssl_ctx,   \* ssl_ctx[i]: of worker i, once it runs
    pc

routeVars == <<tree, accepted>>
sockVars == <<server_sock, listening>>
workerVars == <<indirect_table, workers, capacity, storage, threads, ssl_ctx>>
vars == <<program, done, config, routeVars, sockVars, workerVars, pc>>

DefaultPort == 443 % PortValues

Init ==
    /\ program \in Programs
    /\ done = 0
    /\ config = [help |-> FALSE, use_tls |-> TRUE, port |-> DefaultPort,
                 num_threads |-> 1, key |-> "server.key", cert |-> "server.crt"]
    /\ tree = NewRouter
    /\ accepted = {}
    /\ server_sock = -1
    /\ listening = -1
    /\ indirect_table = [i \in 0 .. TableSize - 1 |-> 0]
    /\ workers = <<>>
    /\ capacity = 0
    /\ storage = 0
    /\ threads = 0
    /\ ssl_ctx = <<>>
    /\ pc = "options"

Goto(label) == pc' = label
-----------------------------------------------------------------------------
(***************************************************************************)
(* main                                                                    *)
(***************************************************************************)

\* One turn of getopt_long's loop.  An option that is not known (--threads and
\* --num-threads are not) is reported and skipped.
parse_command_line ==
    /\ pc = "options"
    /\ done < Len(program.args)
    /\ LET o == program.args[done + 1] IN
       config' =
         CASE o.opt = "port" -> [config EXCEPT !.port = o.number % PortValues]
           [] o.opt = "thread" -> [config EXCEPT !.num_threads = o.number % ThreadValues]
           [] o.opt = "key" -> [config EXCEPT !.key = o.path]
           [] o.opt = "cert" -> [config EXCEPT !.cert = o.path]
           [] o.opt = "h2c" -> [config EXCEPT !.use_tls = FALSE]
           [] o.opt = "help" -> [config EXCEPT !.help = TRUE]
           [] OTHER -> config
    /\ done' = done + 1
    /\ UNCHANGED <<program, routeVars, sockVars, workerVars, pc>>

OptionsParsed ==
    /\ pc = "options"
    /\ done = Len(program.args)
    /\ done' = 0
    /\ Goto(IF config.help THEN "returned" ELSE "routes")
    /\ UNCHANGED <<program, config, routeVars, sockVars, workerVars>>

\* The result of add is not looked at.  A route replaces one of the same
\* method and node.
add_handler ==
    /\ pc = "routes"
    /\ done < Len(program.routes)
    /\ LET r == program.routes[done + 1]
           segs == split_path_segments(r.uri)
           node == NodeOf(segs, Len(segs)) IN
       /\ tree' = add(tree, r.method, r.uri, r.handler)
       /\ accepted' =
            IF Accepts(tree, r.uri)
            THEN {q \in accepted : q.method # r.method \/ q.node # node}
                 \cup {[method |-> r.method, node |-> node, handler |-> r.handler]}
            ELSE accepted
    /\ done' = done + 1
    /\ UNCHANGED <<program, config, sockVars, workerVars, pc>>

is_runnable ==
    config.use_tls => {config.key, config.cert} \subseteq RegularFile

listen_and_serve ==
    /\ pc = "routes"
    /\ done = Len(program.routes)
    /\ Goto(IF is_runnable THEN "socket" ELSE "returned")
    /\ UNCHANGED <<program, done, config, routeVars, sockVars, workerVars>>
-----------------------------------------------------------------------------
(***************************************************************************)
(* Server::startup: an exception ends the process.                         *)
(***************************************************************************)

\* socket may fail, and return 0 when descriptor 0 is closed: then the socket
\* is returned as it is, without bind.
create_listening_socket ==
    /\ pc = "socket"
    /\ \/ /\ server_sock' \in {-1, 0}
          /\ Goto("listen")
          /\ UNCHANGED listening
       \/ /\ server_sock' = 3
          /\ listening' = config.port
          /\ Goto("listen")
       \/ /\ server_sock' = 3
          /\ Goto("exited")
          /\ UNCHANGED listening
    /\ UNCHANGED <<program, done, config, routeVars, workerVars>>

\* The kernel binds a socket that listen finds unbound.
Listen ==
    /\ pc = "listen"
    /\ \/ /\ server_sock >= 0
          /\ listening' = IF listening = -1 THEN 0 ELSE listening
          /\ Goto("epoll")
       \/ /\ Goto("exited")
          /\ UNCHANGED listening
    /\ UNCHANGED <<program, done, config, routeVars, server_sock, workerVars>>

create_epoll ==
    /\ pc = "epoll"
    /\ Goto("table") \/ Goto("exited")
    /\ UNCHANGED <<program, done, config, routeVars, sockVars, workerVars>>

\* Mutant of reset: the table stays as LoadBalancer's constructor filled it.
reset_forgotten ==
    /\ pc = "table"
    /\ Goto(IF config.num_threads = 0 THEN "crashed" ELSE "reserve")
    /\ UNCHANGED <<program, done, config, routeVars, sockVars, workerVars>>

\* LoadBalancer::reset divides by the number of workers, which on x86 ends the
\* process when there are none.
reset ==
    /\ pc = "table"
    /\ IF config.num_threads = 0
         THEN Goto("crashed") /\ UNCHANGED indirect_table
         ELSE /\ indirect_table' = [i \in 0 .. TableSize - 1 |-> i % config.num_threads]
              /\ Goto("reserve")
    /\ UNCHANGED <<program, done, config, routeVars, sockVars, workers, capacity,
                   storage, threads, ssl_ctx>>
-----------------------------------------------------------------------------
(***************************************************************************)
(* Server::spawn_workers                                                   *)
(***************************************************************************)

\* Mutant of reserve: the vector grows as it goes.
reserve_nothing ==
    /\ pc = "reserve"
    /\ Goto("workers")
    /\ UNCHANGED <<program, done, config, routeVars, sockVars, workerVars>>

reserve ==
    /\ pc = "reserve"
    /\ capacity' = config.num_threads
    /\ storage' = storage + 1
    /\ Goto("workers")
    /\ UNCHANGED <<program, done, config, routeVars, sockVars, indirect_table,
                   workers, threads, ssl_ctx>>

\* The powers of two, as far as 32-bit arithmetic goes.
Power2 ==
    {1, 2, 4, 8, 16, 32, 64, 128, 256, 512, 1024, 2048, 4096, 8192, 16384, 32768, 65536,
     131072, 262144, 524288, 1048576, 2097152, 4194304, 8388608, 16777216, 33554432,
     67108864, 134217728, 268435456, 536870912, 1073741824}

\* The size is rounded within a uint32_t.
ASSUME QueueAssumption ==
    /\ QueueSize \in Nat \ {0, 1}
    /\ \E p \in Power2 : QueueSize <= p /\ p < CountValues

\* The loop of round_to_pow2: all bits below the highest one set.
Smeared(value) ==
    (CHOOSE p \in Power2 : value < p /\ \A q \in Power2 : value < q => p <= q) - 1

\* upper and lower are uint32_t; the differences are of size_t.
round_to_pow2(size) ==
    LET upper == (Smeared((size - 1) % CountValues) + 1) % CountValues
        lower == upper \div 2 IN
    IF upper = 0 \/ size - lower <= upper - size THEN lower ELSE upper

\* Worker::Worker binds the callbacks to this.
NewWorker(at) == [at |-> at, bound |-> at, queue |-> round_to_pow2(QueueSize)]

\* Worker::Worker(Worker&&) copies the callbacks.
Moved(worker, at) == [worker EXCEPT !.at = at]

\* emplace_back; a vector that is full moves to a larger storage first.
emplace_back ==
    /\ pc = "workers"
    /\ Len(workers) < config.num_threads
    /\ LET full == Len(workers) = capacity
           where == IF full THEN storage + 1 ELSE storage
           kept == [i \in DOMAIN workers |-> IF full THEN Moved(workers[i], <<where, i>>)
                                             ELSE workers[i]] IN
       /\ workers' = Append(kept, NewWorker(<<where, Len(workers) + 1>>))
       /\ storage' = where
       /\ capacity' = IF full THEN 2 * capacity + (IF capacity = 0 THEN 1 ELSE 0)
                      ELSE capacity
    /\ UNCHANGED <<program, done, config, routeVars, sockVars, indirect_table,
                   threads, ssl_ctx, pc>>

WorkersMade ==
    /\ pc = "workers"
    /\ Len(workers) = config.num_threads
    /\ Goto("threads")
    /\ UNCHANGED <<program, done, config, routeVars, sockVars, workerVars>>

\* A thread that cannot be created is an exception that nothing catches.
StartThread ==
    /\ pc = "threads"
    /\ threads < config.num_threads
    /\ \/ /\ threads' = threads + 1
          /\ ssl_ctx' = Append(ssl_ctx, "unset")
          /\ UNCHANGED pc
       \/ /\ Goto("terminated")
          /\ UNCHANGED <<threads, ssl_ctx>>
    /\ UNCHANGED <<program, done, config, routeVars, sockVars, indirect_table,
                   workers, capacity, storage>>

\* create_ssl_ctx returns nullptr when any of its steps fails.
create_ssl_ctx ==
    {"null"} \cup
    (IF {config.key, config.cert} \subseteq UsableFile THEN {"ctx"} ELSE {})

\* The beginning of Worker::run, on the worker's thread.  When Worker::startup
\* fails the thread ends; without a context it goes on.
RunWorker(i) ==
    /\ i \in DOMAIN ssl_ctx
    /\ ssl_ctx[i] = "unset"
    /\ \E ctx \in {"ended"} \cup (IF config.use_tls THEN create_ssl_ctx ELSE {"none"}) :
         ssl_ctx' = [ssl_ctx EXCEPT ![i] = ctx]
    /\ UNCHANGED <<program, done, config, routeVars, sockVars, indirect_table,
                   workers, capacity, storage, threads, pc>>

Serve ==
    /\ pc = "threads"
    /\ threads = config.num_threads
    /\ Goto("serving")
    /\ UNCHANGED <<program, done, config, routeVars, sockVars, workerVars>>
-----------------------------------------------------------------------------
Next ==
    \/ parse_command_line \/ OptionsParsed
    \/ add_handler \/ listen_and_serve
    \/ create_listening_socket \/ Listen \/ create_epoll
    \/ reset \/ reserve \/ emplace_back \/ WorkersMade
    \/ StartThread \/ Serve
    \/ \E i \in DOMAIN ssl_ctx : RunWorker(i)

Spec == Init /\ [][Next]_vars
-----------------------------------------------------------------------------
\* What resolve finds is the best match among the routes that were accepted:
\* "exact > parameter", from left to right, with the last parameter's value.
\* Nodes that a refused add has left behind, and nodes without a handler for
\* the method, hide nothing.
ResolveIsBestMatch ==
    \A method \in Methods, uri \in Uris :
        resolve(tree, method, uri) = BestMatch(accepted, method, uri)

IsGiven(opts) == \E i \in DOMAIN program.args : program.args[i].opt \in opts

\* The number last given for an option, under any of its names, or its default.
Asked(opts, default) ==
    LET given == {i \in DOMAIN program.args : program.args[i].opt \in opts} IN
    IF given = {} THEN default
    ELSE program.args[CHOOSE i \in given : \A j \in given : j <= i].number

\* The names for the number of threads in the README and in the usage message,
\* which getopt_long's table does not have.
DocumentedOnly == {"threads", "num-threads"}

\* A server that serves is the one asked for by the options the code knows: as
\* many workers, each with its thread, as -n or --thread said, the port that -p
\* or --port said, and no table entry without a worker, provided the numbers
\* fit their fields and descriptor 0 was not free; its workers are without TLS
\* exactly when --h2c was given; and a crash takes a number of threads that is 0
\* in eight bits.  Nothing is said of the number of workers when it was asked for
\* under a name that is only documented.
StartsAsAsked ==
    LET asked_threads == Asked({"thread"}, 1)
        asked_port == Asked({"port"}, DefaultPort) IN
    /\ pc = "serving" =>
         /\ asked_threads \in 1 .. ThreadValues - 1 /\ ~IsGiven(DocumentedOnly) =>
              Len(workers) = asked_threads /\ threads = asked_threads
         /\ asked_port \in 1 .. PortValues - 1 /\ server_sock # 0 =>
              listening = asked_port
         /\ \A i \in DOMAIN indirect_table : indirect_table[i] + 1 \in DOMAIN workers
         /\ \A i \in DOMAIN workers :
              \E j \in DOMAIN indirect_table : indirect_table[j] + 1 = i \/ i > TableSize
    /\ \A i \in DOMAIN ssl_ctx :
         /\ ssl_ctx[i] = "none" => IsGiven({"h2c"})
         /\ ssl_ctx[i] \in {"null", "ctx"} => ~IsGiven({"h2c"})
    /\ pc = "crashed" => asked_threads % ThreadValues = 0

\* As the README and the usage message have it: a server that serves has the
\* number of workers that -n, --threads or --num-threads said.
ThreadsAsDocumented ==
    LET asked_threads == Asked({"thread"} \cup DocumentedOnly, 1) IN
    pc = "serving" /\ asked_threads \in 1 .. ThreadValues - 1 =>
        Len(workers) = asked_threads

\* No worker runs callbacks that are bound to a Worker that has moved, or has
\* a queue whose capacity is not the power of two nearest to the size it was
\* constructed with, and room for an element.
WorkersAreSound ==
    \A i \in DOMAIN workers :
        LET w == workers[i]
            Distance(p) == IF p <= QueueSize THEN QueueSize - p ELSE p - QueueSize IN
        /\ w.bound = w.at
        /\ w.queue \in Power2 \ {1}
        /\ \A p \in Power2 : Distance(w.queue) <= Distance(p)
=============================================================================
