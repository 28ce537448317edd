----------------------------- MODULE Connection -----------------------------
(***************************************************************************)
(* One connection in a worker's event loop (worker.cc), from the socket's  *)
(* arrival in handle_new_connections to disconnect_from_client, in TLS and *)
(* in cleartext mode, one step per system call.  Between two steps the     *)
(* client may send, read, close or reset.                                  *)
(*                                                                         *)
(* External, modelled from how worker.cc uses them:                        *)
(*  - epoll, edge-triggered: an arrival the registration asks for puts the *)
(*    socket on the ready list, and so does a registration that finds the  *)
(*    socket ready; epoll_wait takes it off and reports what is ready then;*)
(*  - the socket: received frames, free space of the send buffer, and      *)
(*    SOCK_NOSPACE, set by a write or a poll that finds no space, without  *)
(*    which space that becomes free makes no event;                        *)
(*  - OpenSSL: a handshake of two client flights with one reply between,   *)
(*    what the last call wanted, and the rule that an SSL_write that could *)
(*    not finish is repeated with the same buffer;                         *)
(*  - nghttp2: control frames (SETTINGS, HEADERS, GOAWAY) that can always  *)
(*    be sent, body data that flow control may hold back, and termination  *)
(*    after a protocol violation: its GOAWAY is the last thing it sends,   *)
(*    and it ignores what it is fed.                                       *)
(* Output is counted in units of one frame.                                *)
(***************************************************************************)
EXTENDS Integers, FiniteSets, SequencesExt

CONSTANTS Scripts,   \* what clients send: sequences of Frame
          Offers,    \* the protocols clients offer in ALPN: sequences of
                     \* names, a name a sequence of bytes
          SendBuf,   \* units the send buffer of the socket holds
          Body,      \* units of body data in a response
          Window     \* initial flow-control window, and what one
                     \* WINDOW_UPDATE adds to it

\* A complete request, a WINDOW_UPDATE, a GOAWAY, a violation of HTTP/2 that
\* nghttp2 answers itself, and one that nghttp2_session_mem_recv2 fails on.
Frame == {"request", "window", "goaway", "violation", "garbage"}
Flight == {"hello", "finished"}

Byte == 0 .. 255

ASSUME ConnectionAssumption ==
    /\ \A s \in Scripts : s \in Seq(Frame)
    /\ \A o \in Offers : /\ o \in Seq(Seq(Byte))
                         /\ \A i \in DOMAIN o : Len(o[i]) \in 1 .. 255
    /\ SendBuf \in Nat \ {0}
    /\ Body \in Nat
    /\ Window \in Nat

VARIABLES
    tls,       \* use_tls
    offer,     \* the client's ALPN list
    \* the client and the kernel
    script,    \* what the client has yet to send
    rcv,       \* frames in the receive buffer
    fin,       \* the client has closed its side
    reset,     \* the client has reset the connection
    space,     \* free units of the send buffer
    nospace,   \* SOCK_NOSPACE
    interest,  \* the registered events; {} before EPOLL_CTL_ADD
    ready,     \* the socket is on epoll's ready list
    \* OpenSSL
    hstate,    \* what SSL_accept does next
    want,      \* "read" or "write" when the last call wanted it
    sent,      \* units of the unfinished SSL_write the socket has taken
    moved,     \* output_buffer has moved since SSL_write could not finish
    \* nghttp2
    control,   \* control frames to send
    body,      \* units of body data to send
    window,    \* units flow control allows
    term,      \* nghttp2 has terminated the session
    \* SessionData and the worker
    state,     \* SessionState
    events,    \* SessionData::events
    input,     \* input_buffer
    output,    \* units in output_buffer
    ev,        \* the events epoll_wait reported
    pc,        \* where the worker is
    cause,     \* why it disconnects
    owed,      \* units ever submitted to nghttp2
    delivered  \* units of them the socket has taken

modeVars == <<tls, offer>>
kernelVars == <<script, rcv, fin, reset, space, nospace, interest, ready>>
sslVars == <<hstate, want, sent, moved>>
h2Vars == <<control, body, window, term, owed>>
sessionVars == <<state, events, input, output, delivered>>
vars == <<tls, offer, script, rcv, fin, reset, space, nospace, interest, ready,
          hstate, want, sent, moved, control, body, window, term,
          state, events, input, output, ev, pc, cause, owed, delivered>>

CloseEvents == {"RDHUP", "ERR"}

Init ==
    /\ tls \in BOOLEAN
    /\ offer \in IF tls THEN Offers ELSE {<<>>}
    /\ \E s \in Scripts : script = IF tls THEN <<"hello", "finished">> \o s ELSE s
    /\ rcv = <<>>
    /\ fin = FALSE
    /\ reset = FALSE
    /\ space = SendBuf
    /\ nospace = FALSE
    /\ interest = {}
    /\ ready = FALSE
    /\ hstate = "hello"
    /\ want = "nothing"
    /\ sent = 0
    /\ moved = FALSE
    /\ control = 0
    /\ body = 0
    /\ window = Window
    /\ term = FALSE
    /\ state = "CONNECTING"
    /\ events = {}
    /\ input = <<>>
    /\ output = 0
    /\ ev = {}
    /\ pc = "new"
    /\ cause = "none"
    /\ owed = 0
    /\ delivered = 0
-----------------------------------------------------------------------------
(***************************************************************************)
(* The kernel's side of epoll.                                             *)
(***************************************************************************)
Registered == interest # {}

\* What polling the socket reports.
Poll ==
    (IF rcv # <<>> \/ fin \/ reset THEN {"IN"} ELSE {})
    \cup (IF space > 0 \/ reset THEN {"OUT"} ELSE {})
    \cup (IF fin \/ reset THEN {"RDHUP"} ELSE {})
    \cup (IF reset THEN {"ERR"} ELSE {})

\* Polling notes that somebody waits for space.
Polled == nospace' = (nospace \/ space = 0)

\* An arrival of the given events.
Arrival(bits) ==
    ready' = (ready \/ (Registered /\ bits \cap interest # {}))

(***************************************************************************)
(* The client.                                                             *)
(***************************************************************************)
ClientSends ==
    /\ script # <<>>
    /\ ~fin /\ ~reset
    /\ Head(script) = "finished" => hstate = "finished"
    /\ rcv' = Append(rcv, Head(script))
    /\ script' = Tail(script)
    /\ Arrival({"IN"})
    /\ UNCHANGED <<modeVars, fin, reset, space, nospace, interest, sslVars, h2Vars,
                   sessionVars, ev, pc, cause>>

ClientReads ==
    /\ space < SendBuf
    /\ space' = space + 1
    /\ nospace' = FALSE
    /\ IF nospace THEN Arrival({"OUT"}) ELSE UNCHANGED ready
    /\ UNCHANGED <<modeVars, script, rcv, fin, reset, interest, sslVars, h2Vars,
                   sessionVars, ev, pc, cause>>

ClientCloses ==
    /\ ~fin /\ ~reset
    /\ fin' = TRUE
    /\ Arrival({"IN", "RDHUP"})
    /\ UNCHANGED <<modeVars, script, rcv, reset, space, nospace, interest, sslVars,
                   h2Vars, sessionVars, ev, pc, cause>>

ClientResets ==
    /\ ~reset
    /\ reset' = TRUE
    /\ rcv' = <<>>
    /\ Arrival({"IN", "OUT", "RDHUP", "ERR"})
    /\ UNCHANGED <<modeVars, script, fin, space, nospace, interest, sslVars, h2Vars,
                   sessionVars, ev, pc, cause>>
-----------------------------------------------------------------------------
(***************************************************************************)
(* The worker: registration.                                               *)
(***************************************************************************)
Disconnecting == state = "DISCONNECTING"

want_read == ~term /\ (body > 0 \/ ~Disconnecting)
want_write == control > 0 \/ (body > 0 /\ window > 0 /\ ~term)

\* Mutant of WriteEvents: no EPOLLOUT for output left in the buffer.
WriteEventsOfSession ==
    IF (tls /\ want = "write") \/ want_write THEN {"OUT"} ELSE {}

WriteEvents ==
    IF (tls /\ want = "write") \/ want_write \/ output > 0 THEN {"OUT"} ELSE {}

ReadEvents ==
    IF Disconnecting THEN {}
    ELSE IF (tls /\ want = "read") \/ want_read \/ WriteEvents = {} THEN {"IN"} ELSE {}

\* Mutant of update_event: the kernel is told of the first registration only.
update_event_once(e) ==
    /\ events' = e
    /\ IF Registered
         THEN UNCHANGED <<interest, ready, nospace>>
         ELSE /\ interest' = e \cup CloseEvents
              /\ ready' = (ready \/ Poll \cap interest' # {})
              /\ Polled

\* update_event and set_event: a registration that changes nothing is skipped,
\* any other one puts a socket that is ready on the ready list.
update_event(e) ==
    IF events = e
      THEN UNCHANGED <<events, interest, ready, nospace>>
      ELSE /\ events' = e
           /\ interest' = e \cup CloseEvents
           /\ ready' = (ready \/ Poll \cap interest' # {})
           /\ Polled

\* update_events_h2c and update_events_tls
update_events == update_event(ReadEvents \cup WriteEvents)

should_close_after_disconnect == Disconnecting /\ ~want_write /\ output = 0

Disconnect(why) == pc' = "disconnect" /\ cause' = why
-----------------------------------------------------------------------------
(***************************************************************************)
(* The worker: a new connection, and the TLS handshake.                    *)
(***************************************************************************)
H2 == <<104, 50>>

\* The list as OpenSSL hands it to the callback: every name after its length.
Wire(names) == FlattenSeq([i \in DOMAIN names |-> <<Len(names[i])>> \o names[i]])

\* Mutant of select_next_proto: the scan goes on at the next byte.
select_by_byte(in) ==
    LET key == <<2>> \o H2
        scan[i \in Nat \ {0}] ==
          IF i + Len(key) - 1 > Len(in) THEN <<>>
          ELSE IF SubSeq(in, i, i + Len(key) - 1) = key THEN SubSeq(in, i + 1, i + in[i])
          ELSE scan[i + 1] IN
    scan[1]

\* The name that is selected; <<>> when alpn_select_proto_cb declines, and the
\* handshake goes on without a protocol.
select_next_proto(in) ==
    LET key == <<2>> \o H2
        scan[i \in Nat \ {0}] ==
          IF i + Len(key) - 1 > Len(in) THEN <<>>
          ELSE IF SubSeq(in, i, i + Len(key) - 1) = key THEN SubSeq(in, i + 1, i + in[i])
          ELSE scan[i + in[i] + 1] IN
    scan[1]

validate_alpn == select_next_proto(Wire(offer)) = H2

NewConnection ==
    /\ pc = "new"
    /\ pc' = IF tls THEN "ssl_accept" ELSE "establish"
    /\ UNCHANGED <<modeVars, kernelVars, sslVars, h2Vars, sessionVars, ev, cause>>

\* SSL_accept reads the client's next flight.
SslAcceptReads ==
    /\ pc = "ssl_accept"
    /\ hstate \in Flight
    /\ rcv # <<>>
    /\ rcv' = Tail(rcv)
    /\ IF Head(rcv) = hstate
         THEN /\ hstate' = IF hstate = "hello" THEN "reply" ELSE "done"
              /\ UNCHANGED <<pc, cause>>
         ELSE /\ Disconnect("error")
              /\ UNCHANGED hstate
    /\ UNCHANGED <<modeVars, script, fin, reset, space, nospace, interest, ready,
                   want, sent, moved, h2Vars, sessionVars, ev>>

SslAcceptWrites ==
    /\ pc = "ssl_accept"
    /\ hstate = "reply"
    /\ ~reset
    /\ space > 0
    /\ space' = space - 1
    /\ hstate' = "finished"
    /\ UNCHANGED <<modeVars, script, rcv, fin, reset, nospace, interest, ready,
                   want, sent, moved, h2Vars, sessionVars, ev, pc, cause>>

\* SSL_ERROR_WANT_READ or SSL_ERROR_WANT_WRITE
SslAcceptWaits ==
    /\ pc = "ssl_accept"
    /\ ~reset
    /\ \/ /\ hstate \in Flight
          /\ rcv = <<>> /\ ~fin
          /\ want' = "read"
          /\ UNCHANGED nospace
       \/ /\ hstate = "reply"
          /\ space = 0
          /\ want' = "write"
          /\ nospace' = TRUE
    /\ pc' = "update_handshake"
    /\ UNCHANGED <<modeVars, script, rcv, fin, reset, space, interest, ready,
                   hstate, sent, moved, h2Vars, sessionVars, ev, cause>>

\* The client is gone, or ALPN did not select h2.
SslAcceptFails ==
    /\ pc = "ssl_accept"
    /\ \/ reset /\ rcv = <<>> /\ hstate # "done"
       \/ fin /\ rcv = <<>> /\ hstate \in Flight
       \/ hstate = "done" /\ ~validate_alpn
    /\ Disconnect("error")
    /\ UNCHANGED <<modeVars, kernelVars, sslVars, h2Vars, sessionVars, ev>>

SslAcceptDone ==
    /\ pc = "ssl_accept"
    /\ hstate = "done"
    /\ validate_alpn
    /\ want' = "nothing"
    /\ pc' = "establish"
    /\ UNCHANGED <<modeVars, kernelVars, hstate, sent, moved, h2Vars, sessionVars,
                   ev, cause>>

\* update_ssl_handshake_events; the caller waits in TLS_HANDSHAKING.
update_ssl_handshake_events ==
    /\ pc = "update_handshake"
    /\ update_event(IF want = "write" THEN {"OUT"} ELSE {"IN"})
    /\ state' = "TLS_HANDSHAKING"
    /\ pc' = "epoll_wait"
    /\ UNCHANGED <<modeVars, script, rcv, fin, reset, space, sslVars,
                   h2Vars, input, output, delivered, ev, cause>>

\* Mutant of establish_connection: the server's SETTINGS are not submitted.
establish_silently ==
    /\ pc = "establish"
    /\ state' = "ESTABLISHED"
    /\ pc' = "update_new"
    /\ UNCHANGED <<modeVars, kernelVars, sslVars, h2Vars, events, input, output,
                   delivered, ev, cause>>

\* send_server_connection_header submits SETTINGS, or fails.
establish_connection ==
    /\ pc = "establish"
    /\ \/ /\ control' = control + 1
          /\ owed' = owed + 1
          /\ state' = "ESTABLISHED"
          /\ pc' = "update_new"
          /\ UNCHANGED cause
       \/ /\ Disconnect("error")
          /\ UNCHANGED <<control, owed, state>>
    /\ UNCHANGED <<modeVars, kernelVars, sslVars, body, window, term, events, input,
                   output, delivered, ev>>

UpdateNew ==
    /\ pc = "update_new"
    /\ update_events
    /\ pc' = "epoll_wait"
    /\ UNCHANGED <<modeVars, script, rcv, fin, reset, space, sslVars,
                   h2Vars, state, input, output, delivered, ev, cause>>
-----------------------------------------------------------------------------
(***************************************************************************)
(* The worker: events.                                                     *)
(***************************************************************************)
has_close_event == ev \cap CloseEvents # {}

\* Mutant of EpollWait: run does not look for a handshake in progress.
EpollWaitForgetsHandshake ==
    LET reported == Poll \cap interest IN
    /\ pc = "epoll_wait"
    /\ ready
    /\ ready' = FALSE
    /\ Polled
    /\ ev' = reported
    /\ pc' = IF reported = {} THEN "epoll_wait"
             ELSE IF reported \cap ({"IN"} \cup CloseEvents) # {} THEN "read"
             ELSE "fill"
    /\ UNCHANGED <<modeVars, script, rcv, fin, reset, space, interest,
                   sslVars, h2Vars, sessionVars, cause>>

\* epoll_wait reports what is ready now.  An item that is not ready any more
\* is dropped from the list without a report.
EpollWait ==
    LET reported == Poll \cap interest IN
    /\ pc = "epoll_wait"
    /\ ready
    /\ ready' = FALSE
    /\ Polled
    /\ ev' = reported
    /\ pc' = IF reported = {} THEN "epoll_wait"
             ELSE IF state = "TLS_HANDSHAKING" THEN "ssl_accept"
             ELSE IF reported \cap ({"IN"} \cup CloseEvents) # {} THEN "read"
             ELSE "fill"
    /\ UNCHANGED <<modeVars, script, rcv, fin, reset, space, interest,
                   sslVars, h2Vars, sessionVars, cause>>

\* fill_input_buffer: one turn of the loop that gets data.
ReadSome ==
    /\ pc = "read"
    /\ rcv # <<>>
    /\ input' = Append(input, Head(rcv))
    /\ rcv' = Tail(rcv)
    /\ want' = "nothing"
    /\ UNCHANGED <<modeVars, script, fin, reset, space, nospace, interest, ready,
                   hstate, sent, moved, h2Vars, state, events, output, delivered,
                   ev, pc, cause>>

\* EAGAIN, or SSL_ERROR_WANT_READ
ReadAgain ==
    /\ pc = "read"
    /\ rcv = <<>> /\ ~fin /\ ~reset
    /\ want' = IF tls THEN "read" ELSE want
    /\ pc' = "feed"
    /\ UNCHANGED <<modeVars, kernelVars, hstate, sent, moved, h2Vars, sessionVars,
                   ev, cause>>

\* End of file or an error: handle_read returns before feed_input_buffer.
ReadShutdown ==
    /\ pc = "read"
    /\ rcv = <<>>
    /\ fin \/ reset
    /\ Disconnect(IF reset THEN "error" ELSE "eof")
    /\ UNCHANGED <<modeVars, kernelVars, sslVars, h2Vars, sessionVars, ev>>

\* The callback answers a complete request (its handler submits HEADERS and a
\* body) and a GOAWAY (with one of its own).
on_frame_recv_callback(frame) ==
    /\ control' = control + 1
    /\ body' = IF frame = "request" THEN body + Body ELSE body
    /\ owed' = owed + control' - control + body' - body
    /\ state' = IF frame = "goaway" THEN "DISCONNECTING" ELSE state
    /\ UNCHANGED <<window, term>>

\* nghttp2_session_mem_recv2 on one frame.
mem_recv2(frame) ==
    \/ /\ ~term
       /\ frame \in {"request", "goaway"}
       /\ on_frame_recv_callback(frame)
    \/ /\ ~term
       /\ frame = "window"
       /\ window' = window + Window
       /\ UNCHANGED <<control, body, term, owed, state>>
    \/ /\ ~term
       /\ frame = "violation"
       /\ control' = control + 1
       /\ owed' = owed + 1
       /\ term' = TRUE
       /\ UNCHANGED <<body, window, state>>
    \/ /\ term
       /\ UNCHANGED <<h2Vars, state>>

\* feed_input_buffer
Feed ==
    /\ pc = "feed"
    /\ input # <<>>
    /\ \/ /\ Head(input) # "garbage"
          /\ mem_recv2(Head(input))
          /\ input' = Tail(input)
          /\ UNCHANGED <<pc, cause>>
       \/ /\ Head(input) = "garbage"
          /\ Disconnect("error")
          /\ UNCHANGED <<h2Vars, state, input>>
    /\ UNCHANGED <<modeVars, kernelVars, sslVars, events, output, delivered, ev>>

FeedDone ==
    /\ pc = "feed"
    /\ input = <<>>
    /\ pc' = "update_read"
    /\ UNCHANGED <<modeVars, kernelVars, sslVars, h2Vars, sessionVars, ev, cause>>

\* The end of handle_read, and handle_events' decision to write.
UpdateRead ==
    /\ pc = "update_read"
    /\ update_events
    /\ IF should_close_after_disconnect THEN Disconnect("goaway")
       ELSE /\ pc' = IF "OUT" \in ev \/ output > 0 \/ want_write THEN "fill"
                     ELSE "handled"
            /\ UNCHANGED cause
    /\ UNCHANGED <<modeVars, script, rcv, fin, reset, space, sslVars,
                   h2Vars, state, input, output, delivered, ev>>

Allowed == IF term THEN 0 ELSE IF body <= window THEN body ELSE window

\* fill_output_buffer serialises all that may be sent.  Appending may move the
\* buffer under an unfinished SSL_write.
FillOutput ==
    /\ pc = "fill"
    /\ output' = output + control + Allowed
    /\ control' = 0
    /\ body' = body - Allowed
    /\ window' = window - Allowed
    /\ \/ tls /\ output > 0 /\ output' > output /\ moved' = TRUE
       \/ UNCHANGED moved
    /\ pc' = "write"
    /\ UNCHANGED <<modeVars, kernelVars, hstate, want, sent, term, owed, state, events,
                   input, delivered, ev, cause>>

\* Mutant of WriteSome: a partial write consumes the whole buffer.
WriteConsumesAll ==
    /\ pc = "write"
    /\ ~tls
    /\ output > 0 /\ space > 0 /\ ~reset
    /\ LET n == IF output <= space THEN output ELSE space IN
         /\ output' = 0
         /\ space' = space - n
         /\ delivered' = delivered + n
    /\ UNCHANGED <<modeVars, script, rcv, fin, reset, nospace, interest, ready,
                   sslVars, h2Vars, state, events, input, ev, pc, cause>>

\* write takes what fits.
WriteSome ==
    /\ pc = "write"
    /\ ~tls
    /\ output > 0 /\ space > 0 /\ ~reset
    /\ LET n == IF output <= space THEN output ELSE space IN
         /\ output' = output - n
         /\ space' = space - n
         /\ delivered' = delivered + n
    /\ UNCHANGED <<modeVars, script, rcv, fin, reset, nospace, interest, ready,
                   sslVars, h2Vars, state, events, input, ev, pc, cause>>

\* SSL_write hands its records to the socket and succeeds after the last one.
SslWriteSome ==
    /\ pc = "write"
    /\ tls /\ ~moved
    /\ output > 0 /\ space > 0 /\ ~reset
    /\ space' = space - 1
    /\ delivered' = delivered + 1
    /\ IF sent + 1 = output
         THEN output' = 0 /\ sent' = 0 /\ want' = "nothing"
         ELSE sent' = sent + 1 /\ UNCHANGED <<output, want>>
    /\ UNCHANGED <<modeVars, script, rcv, fin, reset, nospace, interest, ready,
                   hstate, moved, h2Vars, state, events, input, ev, pc, cause>>

\* EAGAIN or SSL_ERROR_WANT_WRITE
WriteAgain ==
    /\ pc = "write"
    /\ ~moved
    /\ output > 0 /\ space = 0 /\ ~reset
    /\ nospace' = TRUE
    /\ want' = IF tls THEN "write" ELSE want
    /\ pc' = "update_write"
    /\ UNCHANGED <<modeVars, script, rcv, fin, reset, space, interest, ready,
                   hstate, sent, moved, h2Vars, sessionVars, ev, cause>>

\* EPIPE or ECONNRESET, or OpenSSL's "bad write retry"
WriteShutdown ==
    /\ pc = "write"
    /\ output > 0
    /\ reset \/ moved
    /\ Disconnect("error")
    /\ UNCHANGED <<modeVars, kernelVars, sslVars, h2Vars, sessionVars, ev>>

WriteDone ==
    /\ pc = "write"
    /\ output = 0
    /\ pc' = "update_write"
    /\ UNCHANGED <<modeVars, kernelVars, sslVars, h2Vars, sessionVars, ev, cause>>

\* The end of handle_write.
UpdateWrite ==
    /\ pc = "update_write"
    /\ update_events
    /\ IF should_close_after_disconnect THEN Disconnect("goaway")
       ELSE pc' = "handled" /\ UNCHANGED cause
    /\ UNCHANGED <<modeVars, script, rcv, fin, reset, space, sslVars,
                   h2Vars, state, input, output, delivered, ev>>

\* The end of handle_events.
EventHandled ==
    /\ pc = "handled"
    /\ IF has_close_event THEN Disconnect("eof")
       ELSE pc' = "epoll_wait" /\ UNCHANGED cause
    /\ UNCHANGED <<modeVars, kernelVars, sslVars, h2Vars, sessionVars, ev>>

\* EPOLL_CTL_DEL, close and erase.
disconnect_from_client ==
    /\ pc = "disconnect"
    /\ interest' = {}
    /\ ready' = FALSE
    /\ pc' = "closed"
    /\ UNCHANGED <<modeVars, script, rcv, fin, reset, space, nospace, sslVars,
                   h2Vars, sessionVars, ev, cause>>
-----------------------------------------------------------------------------
Client ==
    /\ pc # "closed"
    /\ ClientSends \/ ClientReads \/ ClientCloses \/ ClientResets

Handshake ==
    \/ SslAcceptReads
    \/ SslAcceptWrites
    \/ SslAcceptWaits
    \/ SslAcceptFails
    \/ SslAcceptDone
    \/ update_ssl_handshake_events

Setup == NewConnection \/ Handshake \/ establish_connection \/ UpdateNew

handle_read == ReadSome \/ ReadAgain \/ ReadShutdown \/ Feed \/ FeedDone \/ UpdateRead

handle_write ==
    \/ FillOutput
    \/ WriteSome
    \/ SslWriteSome
    \/ WriteAgain
    \/ WriteShutdown
    \/ WriteDone
    \/ UpdateWrite

Worker ==
    \/ Setup
    \/ EpollWait
    \/ handle_read
    \/ handle_write
    \/ EventHandled
    \/ disconnect_from_client

Next == Worker \/ Client

Spec == Init /\ [][Next]_vars

\* The worker thread is scheduled, and a client that has not gone reads what
\* it is sent; nothing makes a client send, close or reset.
FairSpec == Spec /\ WF_vars(Worker) /\ WF_vars(ClientReads /\ pc # "closed")
-----------------------------------------------------------------------------
TypeOK ==
    /\ tls \in BOOLEAN
    /\ offer \in Offers \cup {<<>>}
    /\ script \in Seq(Frame \cup Flight)
    /\ rcv \in Seq(Frame \cup Flight)
    /\ fin \in BOOLEAN
    /\ reset \in BOOLEAN
    /\ space \in 0 .. SendBuf
    /\ nospace \in BOOLEAN
    /\ interest \subseteq {"IN", "OUT"} \cup CloseEvents
    /\ ready \in BOOLEAN
    /\ hstate \in Flight \cup {"reply", "done"}
    /\ want \in {"nothing", "read", "write"}
    /\ sent \in Nat
    /\ sent <= output
    /\ moved \in BOOLEAN
    /\ control \in Nat
    /\ body \in Nat
    /\ window \in Nat
    /\ term \in BOOLEAN
    /\ state \in {"CONNECTING", "DISCONNECTING", "TLS_HANDSHAKING", "ESTABLISHED"}
    /\ events \subseteq {"IN", "OUT"}
    /\ input \in Seq(Frame)
    /\ output \in Nat
    /\ ev \subseteq {"IN", "OUT"} \cup CloseEvents
    /\ pc \in {"new", "ssl_accept", "update_handshake", "establish", "update_new",
               "epoll_wait", "read", "feed", "update_read", "fill", "write",
               "update_write", "handled", "disconnect", "closed"}
    /\ cause \in {"none", "eof", "error", "goaway"}
    /\ owed \in Nat
    /\ delivered \in Nat

\* No edge is lost.  When the worker sleeps and epoll will not report the
\* socket, nothing it could do for the connection is possible: in the
\* handshake what SSL_accept waits for is not there; established, everything
\* received has been read (unless nghttp2 ended the session and its last words
\* are still to be sent) and whatever is left to send finds no space;
\* disconnecting, there is something left to send and no space for it.
NoLostEdge ==
    pc = "epoll_wait" /\ ~ready =>
        /\ ~reset
        /\ state = "TLS_HANDSHAKING" =>
             IF want = "write" THEN space = 0 ELSE rcv = <<>> /\ ~fin
        /\ state = "ESTABLISHED" => ~fin /\ (rcv = <<>> \/ (term /\ output > 0))
        /\ state \in {"ESTABLISHED", "DISCONNECTING"} /\ (output > 0 \/ want_write)
             => space = 0
        /\ state = "DISCONNECTING" => output > 0 /\ ~fin

\* A connection that is closed after a GOAWAY has delivered, once, all that was
\* ever submitted, the server's SETTINGS and its own GOAWAY included, except
\* body data that flow control holds back: partial writes and repeated
\* SSL_writes lose nothing and send nothing twice.
GoawayDelivers ==
    cause = "goaway" =>
        /\ delivered + body = owed
        /\ body = 0 \/ window = 0 \/ term

\* A TLS connection passes the handshake's last step exactly when h2 is one of
\* the names its client offered, wherever in the list and whatever the bytes
\* of the names before it, and no other one becomes a session.
EstablishedMeansH2 ==
    LET offered == \E i \in DOMAIN offer : offer[i] = H2 IN
    /\ hstate = "done" => (validate_alpn <=> offered)
    /\ tls /\ state \in {"ESTABLISHED", "DISCONNECTING"} => offered

\* Every frame that reached the server before the client closed its side is
\* handed to nghttp2 before the connection is closed.
ReceivedIsProcessed ==
    pc = "closed" /\ cause = "eof" => input = <<>>

\* A client that goes on reading gets all that can be sent, or the connection
\* ends.
OutputDrains ==
    (output > 0 \/ want_write) ~> ((output = 0 /\ ~want_write) \/ pc = "closed")

\* Once a GOAWAY was received the connection is closed.
DisconnectCompletes == (state = "DISCONNECTING") ~> (pc = "closed")
=============================================================================
