------------------------------- MODULE Session -------------------------------
(***************************************************************************)
(* The streams of one HTTP/2 session (session.cc): the StreamData objects  *)
(* that the nghttp2 callbacks create, fill and delete, the request they    *)
(* hand to a handler, and the body that nghttp2 pulls out of them while    *)
(* the response is sent.  Frames of different streams interleave, frames   *)
(* are received and sent in any order, and the client may reset a stream   *)
(* or the worker drop the session at any point.                            *)
(*                                                                         *)
(* nghttp2 is external: it keeps a pointer per stream (user data) and one  *)
(* per response body (the data source), calls the callbacks in the order   *)
(* of the protocol, and forgets both pointers when the stream closes.      *)
(* What the handlers find in the file cache is Files' matter: here a file  *)
(* is a size and whether it could be mapped.  Bodies are counted in units. *)
(***************************************************************************)
EXTENDS Integers

CONSTANTS Streams,     \* number of streams that may be open at a time
          Addresses,   \* number of addresses of StreamData
          Requests,    \* what the client may ask for
          Size,        \* sizes of files
          IntMax,      \* largest value of FileContext::offset, 2^31 - 1
          MaxLength,   \* most that nghttp2 asks a read callback for
          ErrorLength, \* length of ERROR_HTML
          MaxChunks    \* bound on the DATA chunks of a request

\* A stream that has ended makes room for the next one, which takes its number.
Stream == 1 .. Streams
Addr == 1 .. Addresses
Null == 0

\* With main's routes a path is /files/{file_name}, /files, the root, whose
\* node has no handlers, or one that leads to no node of the router.
Path == {"file", "files", "root", "none"}
Request == [method : {"GET", "POST", "other"}, path : Path, multipart : BOOLEAN]
Unknown == [method |-> "", path |-> "", multipart |-> FALSE]

ASSUME SessionAssumption ==
    /\ {Streams, Addresses, MaxChunks} \subseteq Nat
    /\ Requests \subseteq Request
    /\ Size \subseteq Nat
    /\ {IntMax, MaxLength, ErrorLength} \subseteq Nat \ {0}
    /\ ErrorLength <= IntMax

VARIABLES
    \* nghttp2
    nstate,     \* nstate[s]: the stream's state
    user_data,  \* nghttp2_session_set_stream_user_data
    source,     \* data_prd.source.ptr of the response under way
    response,   \* what is to be sent: "none", "ok", "file", "error"
    \* SessionData and its StreamData
    streams,    \* addresses of the list's elements: the live objects
    mem,        \* mem[a]: the StreamData at a
    phase,      \* "serving"; a callback "failed"; the destructor has deleted
                \* the nghttp2 session ("deleting"), then the list ("gone");
                \* "crashed" by undefined behaviour
    \* what happened, for the properties
    asked,      \* asked[s]: the client's Request
    chunks,     \* chunks[s]: DATA chunks the client sent
    handled,    \* handled[s]: handlers called, with the chunks and the parser
                \* they saw
    answers,    \* answers[s]: responses submitted
    want,       \* want[s]: size of the file that answers the request
    out         \* out[s]: units of body given to nghttp2

h2Vars == <<nstate, user_data, source, response>>
ghosts == <<asked, chunks, handled, answers, want, out>>
vars == <<h2Vars, streams, mem, phase, ghosts>>

\* StreamData as its constructor leaves it: method has no initial value.
NewStreamData(s) ==
    [stream_id |-> s, method |-> "uninitialised", path |-> "", mime_parser |-> "none",
     upload_file_buffer |-> 0, size |-> 0, offset |-> 0, data |-> "nullptr"]

Freed == NewStreamData(0)

Init ==
    /\ nstate = [s \in Stream |-> "idle"]
    /\ user_data = [s \in Stream |-> Null]
    /\ source = [s \in Stream |-> Null]
    /\ response = [s \in Stream |-> "none"]
    /\ streams = {}
    /\ mem = [a \in Addr |-> Freed]
    /\ phase = "serving"
    /\ asked = [s \in Stream |-> Unknown]
    /\ chunks = [s \in Stream |-> 0]
    /\ handled = [s \in Stream |-> {}]
    /\ answers = [s \in Stream |-> 0]
    /\ want = [s \in Stream |-> 0]
    /\ out = [s \in Stream |-> 0]

StreamDataOf(s) == mem[user_data[s]]

\* The properties ask nothing about the streams in S any more.
Forget(S) ==
    /\ asked' = [s \in Stream |-> IF s \in S THEN Unknown ELSE asked[s]]
    /\ handled' = [s \in Stream |-> IF s \in S THEN {} ELSE handled[s]]
    /\ chunks' = [s \in Stream |-> IF s \in S THEN 0 ELSE chunks[s]]
    /\ answers' = [s \in Stream |-> IF s \in S THEN 0 ELSE answers[s]]
    /\ want' = [s \in Stream |-> IF s \in S THEN 0 ELSE want[s]]
    /\ out' = [s \in Stream |-> IF s \in S THEN 0 ELSE out[s]]
-----------------------------------------------------------------------------
(***************************************************************************)
(* nghttp2_session_mem_recv2: the callbacks.                               *)
(***************************************************************************)

\* MAX_CONCURRENT_STREAMS permitting; header blocks do not interleave.  The
\* new object's pointer becomes the stream's user data.
on_begin_headers_callback(s) ==
    /\ phase = "serving"
    /\ nstate[s] \in {"idle", "done", "reset"}
    /\ \A t \in Stream : nstate[t] # "headers"
    /\ \E a \in Addr \ streams :
         /\ mem' = [mem EXCEPT ![a] = NewStreamData(s)]
         /\ streams' = streams \cup {a}
         /\ user_data' = [user_data EXCEPT ![s] = a]
    /\ nstate' = [nstate EXCEPT ![s] = "headers"]
    /\ Forget({s})
    /\ UNCHANGED <<source, response, phase>>

\* Mutant of Filled: the method is stored without a look whether it is one of
\* the enumeration.
FilledWithAny(d, r) ==
    [d EXCEPT !.path = r.path,
              !.method = r.method,
              !.mime_parser = IF r.method # "POST" THEN @
                              ELSE IF r.multipart THEN "boundary"
                              ELSE "no boundary"]

\* What the fields of request r's header block, pseudo-header fields first,
\* make of StreamData d.
Filled(d, r) ==
    [d EXCEPT !.path = r.path,
              !.method = IF r.method = "other" THEN @ ELSE r.method,
              !.mime_parser = IF r.method # "POST" THEN @
                              ELSE IF r.multipart THEN "boundary"
                              ELSE "no boundary"]

on_header_callback(s) ==
    /\ phase = "serving"
    /\ nstate[s] = "headers"
    /\ \E r \in Requests :
         /\ asked' = [asked EXCEPT ![s] = r]
         /\ mem' = [mem EXCEPT ![user_data[s]] = Filled(@, r)]
    /\ nstate' = [nstate EXCEPT ![s] = "open"]
    /\ UNCHANGED <<user_data, source, response, streams, phase, chunks, handled,
                   answers, want, out>>

\* Mutant of on_data_chunk_recv_callback: a chunk replaces the one before it.
assign_chunk(s) ==
    /\ phase = "serving"
    /\ nstate[s] = "open"
    /\ chunks[s] < MaxChunks
    /\ chunks' = [chunks EXCEPT ![s] = @ + 1]
    /\ mem' = [mem EXCEPT ![user_data[s]].upload_file_buffer = 1]
    /\ UNCHANGED <<h2Vars, streams, phase, asked, handled, answers, want, out>>

on_data_chunk_recv_callback(s) ==
    /\ phase = "serving"
    /\ nstate[s] = "open"
    /\ chunks[s] < MaxChunks
    /\ chunks' = [chunks EXCEPT ![s] = @ + 1]
    /\ mem' = [mem EXCEPT ![user_data[s]].upload_file_buffer = @ + 1]
    /\ UNCHANGED <<h2Vars, streams, phase, asked, handled, answers, want, out>>

\* Router::resolve with main's two routes (Router has it in general).
Handler(method, path) ==
    IF method = "GET" /\ path = "file" THEN "downloader"
    ELSE IF method = "POST" /\ path = "files" THEN "uploader"
    ELSE "reply_404"

\* What a read of method may find: a value of the enumeration or another byte.
MethodRead(method) ==
    IF method = "uninitialised" THEN {"GET", "POST", "garbage"} ELSE {method}

\* The router indexes an array of two handlers with the method, at the node
\* that a path leads to.
IndexesOutside(method, path) == method = "garbage" /\ path # "none"

\* What the handlers submit, and the size and the address that the downloader
\* puts into file_ctx.  MappedFile::is_mapped takes MAP_FAILED for a mapping: a
\* cache entry whose mmap failed once is served, with the size that fstat found.
\* An empty file is never mapped.
Reply(handler) ==
    [response : {"error"}, size : {0}, data : {"nullptr"}]
    \cup (IF handler # "downloader" THEN {}
          ELSE [response : {"file"}, size : Size \ {0}, data : {"mapped"}]
               \cup [response : {"file"}, size : Size, data : {"MAP_FAILED"}])
    \cup (IF handler # "uploader" THEN {}
          ELSE [response : {"ok"}, size : {0}, data : {"nullptr"}])

\* A handler submits its response; ~Request clears the upload buffer.
Answer(s, reply) ==
    LET a == user_data[s] IN
    /\ mem' = [mem EXCEPT ![a].upload_file_buffer = 0, ![a].size = reply.size,
                          ![a].data = reply.data]
    /\ response' = [response EXCEPT ![s] = reply.response]
    /\ source' = [source EXCEPT ![s] = IF reply.response = "file" THEN a ELSE Null]
    /\ answers' = [answers EXCEPT ![s] = @ + 1]
    /\ want' = [want EXCEPT ![s] = reply.size]
    /\ UNCHANGED phase

\* nghttp2_submit_response2 fails, and the callback with it.
AnswerFails(s) ==
    /\ mem' = [mem EXCEPT ![user_data[s]].upload_file_buffer = 0]
    /\ phase' = "failed"
    /\ UNCHANGED <<source, response, answers, want>>

on_request_recv(s) ==
    LET d == StreamDataOf(s) IN
    \E method \in MethodRead(d.method) :
        LET handler == Handler(method, d.path) IN
        /\ handled' = [handled EXCEPT
                   ![s] = @ \cup {<<handler, d.upload_file_buffer, d.mime_parser>>}]
        /\ \/ \E reply \in Reply(handler) : Answer(s, reply)
           \/ AnswerFails(s)
           \/ /\ IndexesOutside(method, d.path)
              /\ phase' = "crashed"
              /\ UNCHANGED <<mem, response, source, answers, want>>

\* Mutant of on_frame_recv_callback: every DATA frame is taken for the end of
\* the request.
on_every_frame_recv(s) ==
    /\ phase = "serving"
    /\ nstate[s] = "open"
    /\ answers[s] < 2
    /\ on_request_recv(s)
    /\ UNCHANGED <<nstate, user_data, streams, asked, chunks, out>>

\* A HEADERS or DATA frame with END_STREAM.
on_frame_recv_callback(s) ==
    /\ phase = "serving"
    /\ nstate[s] = "open"
    /\ nstate' = [nstate EXCEPT ![s] = "half_closed"]
    /\ on_request_recv(s)
    /\ UNCHANGED <<user_data, streams, asked, chunks, out>>
-----------------------------------------------------------------------------
(***************************************************************************)
(* A stream closes: nghttp2 calls the callback and drops the stream and    *)
(* what it queued for it.                                                  *)
(***************************************************************************)
delete_stream_data(a, m) ==
    /\ streams' = streams \ {a}
    /\ mem' = [m EXCEPT ![a] = Freed]

on_stream_close_callback(s, end, m) ==
    /\ delete_stream_data(user_data[s], m)
    /\ nstate' = [nstate EXCEPT ![s] = end]
    /\ user_data' = [user_data EXCEPT ![s] = Null]
    /\ source' = [source EXCEPT ![s] = Null]
    /\ response' = [response EXCEPT ![s] = "none"]

\* RST_STREAM from the client, or nghttp2 resets a malformed request.
Reset(s) ==
    /\ phase = "serving"
    /\ nstate[s] \in {"headers", "open", "half_closed"}
    /\ on_stream_close_callback(s, "reset", mem)
    /\ Forget({s})
    /\ UNCHANGED phase
-----------------------------------------------------------------------------
(***************************************************************************)
(* nghttp2_session_mem_send2.                                              *)
(***************************************************************************)
Shorter(x, y) == IF x <= y THEN x ELSE y

\* Bound on out: a body that never ends is told by one turn of offset.
MaxOut == 2 * (IntMax + 1)

\* reply_ok: HEADERS with END_STREAM.
SendHeadersOnly(s) ==
    /\ phase = "serving"
    /\ response[s] = "ok"
    /\ on_stream_close_callback(s, "done", mem)
    /\ UNCHANGED <<phase, ghosts>>

\* The whole error page, or as much of it as nghttp2 has room for, is the end.
error_read_callback(s, length) ==
    /\ phase = "serving"
    /\ response[s] = "error"
    /\ out' = [out EXCEPT ![s] = Shorter(length, ErrorLength)]
    /\ on_stream_close_callback(s, "done", mem)
    /\ UNCHANGED <<phase, asked, chunks, handled, answers, want>>

\* Conversion of offset + copy_len back to int.
ToInt(n) == ((n + IntMax + 1) % (2 * (IntMax + 1))) - (IntMax + 1)

Advanced(d, copy_len) == [d EXCEPT !.offset = ToInt(@ + copy_len)]

\* copy_len units go out, which leaves d; at the end of the file the stream
\* closes.
Copy(s, copy_len, d, eof) ==
    LET m == [mem EXCEPT ![source[s]] = d] IN
    /\ out' = [out EXCEPT ![s] = Shorter(@ + copy_len, MaxOut)]
    /\ IF eof THEN on_stream_close_callback(s, "done", m)
       ELSE mem' = m /\ UNCHANGED <<h2Vars, streams>>
    /\ UNCHANGED <<phase, asked, chunks, handled, answers, want>>

\* memcpy cannot read from MAP_FAILED, unless it is to copy nothing.
Unreadable(ctx, copy_len) == ctx.data = "MAP_FAILED" /\ copy_len > 0

\* Mutant of file_read_callback: as much as nghttp2 asks for is copied.
read_without_min(s, length) ==
    LET d == Advanced(mem[source[s]], length) IN
    /\ phase = "serving"
    /\ response[s] = "file"
    /\ ~Unreadable(d, length)
    /\ Copy(s, length, d, d.offset >= d.size)

\* Mutant of file_read_callback: the end is looked for after a copy only.
eof_after_copy(s, length) ==
    LET ctx == mem[source[s]]
        copy_len == Shorter(length, ctx.size - ctx.offset)
        d == Advanced(ctx, copy_len) IN
    /\ phase = "serving"
    /\ response[s] = "file"
    /\ ~Unreadable(ctx, copy_len)
    /\ Copy(s, copy_len, d, copy_len > 0 /\ d.offset = d.size)

\* A negative offset makes size - offset larger than the size and data +
\* offset a place in front of the mapping: what is there goes out, or the
\* process ends.
file_read_callback(s, length) ==
    LET ctx == mem[source[s]]
        copy_len == Shorter(length, ctx.size - ctx.offset)
        d == Advanced(ctx, copy_len) IN
    /\ phase = "serving"
    /\ response[s] = "file"
    /\ \/ /\ ~Unreadable(ctx, copy_len)
          /\ Copy(s, copy_len, d, d.offset = d.size)
       \/ /\ Unreadable(ctx, copy_len) \/ ctx.offset < 0
          /\ phase' = "crashed"
          /\ UNCHANGED <<h2Vars, streams, mem, ghosts>>

mem_send2(s) ==
    \/ SendHeadersOnly(s)
    \/ \E length \in 1 .. MaxLength :
         error_read_callback(s, length) \/ file_read_callback(s, length)
-----------------------------------------------------------------------------
(***************************************************************************)
(* The worker drops the session: ~SessionData deletes the nghttp2 session, *)
(* which calls no callback, and then the members are destroyed.            *)
(***************************************************************************)

\* Mutant of SessionDel: the list goes first.
StreamsGoFirst ==
    /\ phase \in {"serving", "failed"}
    /\ phase' = "deleting"
    /\ streams' = {}
    /\ UNCHANGED <<h2Vars, mem, ghosts>>

SessionDel ==
    /\ phase \in {"serving", "failed"}
    /\ phase' = "deleting"
    /\ nstate' = [s \in Stream |-> "reset"]
    /\ user_data' = [s \in Stream |-> Null]
    /\ source' = [s \in Stream |-> Null]
    /\ response' = [s \in Stream |-> "none"]
    /\ Forget(Stream)
    /\ UNCHANGED <<streams, mem>>

DestroyStreams ==
    /\ phase = "deleting"
    /\ phase' = "gone"
    /\ streams' = {}
    /\ mem' = [a \in Addr |-> Freed]
    /\ UNCHANGED <<h2Vars, ghosts>>
-----------------------------------------------------------------------------
Receive(s) ==
    \/ on_begin_headers_callback(s)
    \/ on_header_callback(s)
    \/ on_data_chunk_recv_callback(s)
    \/ on_frame_recv_callback(s)
    \/ Reset(s)

Next ==
    \/ \E s \in Stream : Receive(s) \/ mem_send2(s)
    \/ SessionDel
    \/ DestroyStreams

Spec == Init /\ [][Next]_vars

\* The worker goes on serialising what can be sent.
FairSpec == Spec /\ \A s \in Stream : WF_vars(mem_send2(s))
-----------------------------------------------------------------------------
StreamData ==
    [stream_id : Stream \cup {0}, method : {"GET", "POST", "uninitialised"},
     path : {""} \cup Path,
     mime_parser : {"none", "no boundary", "boundary"},
     upload_file_buffer : 0 .. MaxChunks, size : Size \cup {0},
     offset : -(IntMax + 1) .. IntMax, data : {"nullptr", "mapped", "MAP_FAILED"}]

\* The type of the state; the method of a StreamData is one of the enumeration
\* or has never been set, and the offset of a file stays within an int.
TypeOK ==
    /\ nstate \in [Stream -> {"idle", "headers", "open", "half_closed", "done",
                              "reset"}]
    /\ user_data \in [Stream -> Addr \cup {Null}]
    /\ source \in [Stream -> Addr \cup {Null}]
    /\ response \in [Stream -> {"none", "ok", "file", "error"}]
    /\ streams \subseteq Addr
    /\ mem \in [Addr -> StreamData]
    /\ phase \in {"serving", "failed", "deleting", "gone", "crashed"}
    /\ asked \in [Stream -> Requests \cup {Unknown}]
    /\ chunks \in [Stream -> 0 .. MaxChunks]
    /\ handled \in [Stream -> SUBSET ({"downloader", "uploader", "reply_404"}
                       \X (0 .. MaxChunks) \X {"none", "no boundary", "boundary"})]
    /\ answers \in [Stream -> Nat]
    /\ want \in [Stream -> Size \cup {0}]
    /\ out \in [Stream -> 0 .. MaxOut]

\* Every pointer nghttp2 holds, as user data or as the source of a body, is to
\* the live StreamData of that very stream, although addresses are reused;
\* as long as nghttp2 runs, no StreamData outlives its stream; and none is
\* left when the session is gone.
PointersMatchOwners ==
    /\ \A s \in Stream :
         /\ user_data[s] # Null =>
              user_data[s] \in streams /\ StreamDataOf(s).stream_id = s
         /\ source[s] \in {Null, user_data[s]}
    /\ phase = "serving" =>
         streams = {user_data[s] : s \in {t \in Stream :
                        nstate[t] \in {"headers", "open", "half_closed"}}}
    /\ phase = "gone" => streams = {}

\* A request is answered when it is complete, then and only then, and once,
\* whatever frames it came in.
AnsweredOnce ==
    phase = "serving" =>
        \A s \in Stream :
            /\ nstate[s] \in {"idle", "headers", "open"} => answers[s] = 0
            /\ nstate[s] \in {"half_closed", "done"} => answers[s] = 1
            /\ answers[s] <= 1

\* The handler that on_request_recv runs is the one of the client's method and
\* path, and it sees the whole body and the parser that the header fields call
\* for: for a method that is neither GET nor POST nothing of the kind holds,
\* since method keeps whatever the memory held.
HandlerSeesRequest ==
    \A s \in Stream :
        LET r == asked[s]
            parser == IF r.method # "POST" THEN "none"
                      ELSE IF r.multipart THEN "boundary" ELSE "no boundary" IN
        r.method # "other" =>
            handled[s] \subseteq {<<Handler(r.method, r.path), chunks[s], parser>>}

\* The body of a file is sent from its first unit to its last, each once and
\* none from outside, whatever lengths nghttp2 asks for, as long as the size
\* fits FileContext::offset, and nothing of a file that could not be mapped; and
\* what ends the process is a file that does not fit, a file of some size whose
\* mapping failed, or an uninitialised method at a path of the router.
BodyIsFile ==
    /\ \A s \in Stream :
         want[s] <= IntMax =>
             /\ source[s] # Null =>
                  /\ mem[source[s]].offset = out[s] /\ out[s] <= want[s]
                  /\ mem[source[s]].data = "MAP_FAILED" => out[s] = 0
             /\ nstate[s] = "done" /\ <<"downloader", chunks[s], "none">> \in handled[s] =>
                  out[s] \in {want[s]} \cup (IF want[s] = 0 THEN 1 .. ErrorLength ELSE {})
    /\ phase = "crashed" =>
         \E s \in Stream :
             \/ want[s] > IntMax
             \/ source[s] # Null /\ want[s] > 0 /\ mem[source[s]].data = "MAP_FAILED"
             \/ asked[s].method = "other" /\ asked[s].path # "none"

\* A complete request comes to an end: its response is sent to the last unit,
\* an empty file included, unless the session ends first, with the process where
\* the file could not be mapped, or the file does not fit the offset, which then
\* never equals the size.
ResponsesEnd ==
    \A s \in Stream :
        (nstate[s] = "half_closed") ~>
            (nstate[s] \in {"done", "reset"} \/ phase # "serving" \/ want[s] > IntMax)
=============================================================================
