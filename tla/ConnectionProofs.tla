-------------------------- MODULE ConnectionProofs --------------------------
(***************************************************************************)
(* Proofs about Connection, from ConnectionAssumption alone: for every     *)
(* script of a client, every protocol list, and every size of the send     *)
(* buffer, of a body and of the window.                                    *)
(***************************************************************************)
EXTENDS Connection, SequenceTheorems, WellFoundedInduction, TLAPS

Opening == {"new", "ssl_accept", "update_handshake", "establish"}
Established == state \in {"ESTABLISHED", "DISCONNECTING"}
Frames(s) == \A i \in 1 .. Len(s) : s[i] \in Frame

\* The flights come in order, one before the server's reply and one after it,
\* and no flight is left where the session reads frames.
Announced == script # <<>> /\ Head(script) = "finished" /\ Frames(Tail(script))

FlightInv ==
    /\ reset => rcv = <<>>
    /\ ~tls \/ hstate = "done" => Frames(script) /\ Frames(rcv)
    /\ tls /\ ~reset /\ hstate = "hello" =>
         \/ rcv = <<>> /\ script # <<>> /\ Head(script) = "hello"
              /\ Len(script) > 1 /\ script[2] = "finished"
              /\ Frames(Tail(Tail(script)))
         \/ rcv = <<"hello">> /\ Announced
    /\ tls /\ ~reset /\ hstate = "reply" => rcv = <<>> /\ Announced
    /\ tls /\ ~reset /\ hstate = "finished" =>
         \/ rcv = <<>> /\ Announced
         \/ /\ rcv # <<>> /\ Head(rcv) = "finished"
            /\ Frames(Tail(rcv)) /\ Frames(script)

\* Where the worker is, and what the session is then.
PhaseInv ==
    /\ pc \in Opening => state \in {"CONNECTING", "TLS_HANDSHAKING"}
    /\ pc \in {"ssl_accept", "update_handshake"} => tls
    /\ pc = "update_new" => state = "ESTABLISHED" /\ control > 0
    /\ pc = "epoll_wait" => state # "CONNECTING"
    /\ pc \in {"read", "feed", "update_read", "fill", "write", "update_write",
               "handled"} => Established
    /\ state = "TLS_HANDSHAKING" => tls
    /\ state = "TLS_HANDSHAKING" /\ pc = "epoll_wait" => hstate # "done"
    /\ pc = "update_handshake" => hstate # "done"
    /\ state \in {"CONNECTING", "TLS_HANDSHAKING"} \/ pc = "update_new" => ~term
    /\ tls /\ (pc = "establish" \/ Established) => hstate = "done" /\ validate_alpn

\* What SSL_ERROR_WANT_WRITE is about: nothing in cleartext mode, and output
\* once the session is established.
WantInv ==
    /\ ~tls \/ pc = "establish" => want = "nothing"
    /\ Established /\ want = "write" => output > 0

\* Every unit that was submitted is delivered, in one of the two buffers or
\* held back; those of an unfinished SSL_write are delivered and in the buffer.
OutputInv ==
    /\ sent = 0 \/ sent < output
    /\ ~tls => sent = 0
    /\ delivered + output - sent + control + body = owed

\* fill_output_buffer leaves nothing that may be sent, and nothing becomes
\* so before the worker sleeps.
SentInv ==
    /\ pc \in {"write", "update_write"} => ~want_write
    /\ pc \in {"handled", "epoll_wait"} /\ control > 0 => ~term
    /\ pc \in {"handled", "epoll_wait"} /\ Disconnecting => output > 0

\* A connection that ends after a GOAWAY has nothing left that may be sent.
CauseInv ==
    cause = "goaway" =>
        pc \in {"disconnect", "closed"} /\ should_close_after_disconnect

\* What is registered, and that the registration is up to date when the worker
\* goes to sleep.
InterestInv ==
    /\ pc # "closed" =>
         \/ interest = {} /\ events = {}
         \/ interest = events \cup CloseEvents
    /\ interest = {} => pc \in Opening \cup {"update_new", "disconnect", "closed"}
    /\ pc \in Opening \cup {"update_new"} => events # {"IN", "OUT"}
    /\ pc \in {"handled", "epoll_wait"} /\ Established =>
         events = ReadEvents \cup WriteEvents
    /\ pc = "epoll_wait" /\ state = "TLS_HANDSHAKING" =>
         events = (IF want = "write" THEN {"OUT"} ELSE {"IN"}) 

\* Where the worker is on its way to act on a reset, on the end of the stream,
\* and on received frames; anywhere else epoll is going to report them.
ResetSeen ==
    reset /\ interest # {} /\ ~ready =>
        \/ pc \in {"read", "disconnect", "closed"}
        \/ pc = "ssl_accept" /\ hstate # "done"

FinSeen ==
    fin /\ interest # {} /\ ~ready =>
        \/ pc \in {"read", "ssl_accept", "establish", "update_new", "disconnect", "closed"}
        \/ pc = "update_handshake" /\ want = "write"
        \/ pc = "epoll_wait" /\ state = "TLS_HANDSHAKING" /\ want = "write"

RcvSeen ==
    rcv # <<>> /\ "IN" \in interest /\ ~ready =>
        \/ pc \in {"read", "ssl_accept", "establish", "update_new", "disconnect", "closed"}
        \/ pc = "update_handshake" /\ want = "write"

\* Space that becomes free for output that waits is going to be reported.
SpaceSeen ==
    /\ pc \in {"update_write", "handled", "epoll_wait"} /\ Established
         /\ "OUT" \in interest /\ (output > 0 \/ want_write)
         => ready \/ (space = 0 /\ nospace)
    /\ (pc = "update_handshake" \/ (pc = "epoll_wait" /\ state = "TLS_HANDSHAKING"))
         /\ want = "write" /\ "OUT" \in interest
         => ready \/ (space = 0 /\ nospace)

IInv ==
    /\ TypeOK
    /\ FlightInv
    /\ PhaseInv
    /\ WantInv
    /\ OutputInv
    /\ SentInv
    /\ CauseInv
    /\ InterestInv
    /\ ResetSeen
    /\ FinSeen
    /\ RcvSeen
    /\ SpaceSeen
-----------------------------------------------------------------------------
(***************************************************************************)
(* Facts about the operators.                                              *)
(***************************************************************************)

\* The first element and the rest of a sequence.
LEMMA HeadTail ==
    ASSUME NEW S, NEW s \in Seq(S), s # <<>>
    PROVE  /\ Head(s) \in S /\ Tail(s) \in Seq(S)
           /\ Len(s) \in Nat \ {0} /\ Head(s) = s[1]
           /\ Len(Tail(s)) = Len(s) - 1
           /\ \A i \in 1 .. Len(s) - 1 : Tail(s)[i] = s[i + 1]
  OBVIOUS

\* The sizes of the send buffer, of a body and of the window.
LEMMA Sizes == SendBuf \in Nat \ {0} /\ Body \in Nat /\ Window \in Nat
  BY ConnectionAssumption


\* Frames at the front of a sequence, and at its end.
LEMMA FramesHeadTail ==
    ASSUME NEW S, NEW s \in Seq(S), s # <<>>, Frames(s)
    PROVE  Head(s) \in Frame /\ Frames(Tail(s))
  BY HeadTail DEF Frames

\* A frame at the end keeps a sequence one of frames.
LEMMA FramesAppend ==
    ASSUME NEW S, NEW s \in Seq(S), NEW x \in Frame, Frames(s)
    PROVE  Frames(Append(s, x))
  BY DEF Frames

\* Frames alone make a sequence of them.
LEMMA FramesSeq ==
    ASSUME NEW S, NEW s \in Seq(S), Frames(s)
    PROVE  s \in Seq(Frame)
  BY DEF Frames

\* The events that an operator of the worker can ask for.
LEMMA EventsTyped ==
    /\ ReadEvents \subseteq {"IN", "OUT"}
    /\ WriteEvents \subseteq {"IN", "OUT"}
    /\ Poll \subseteq {"IN", "OUT"} \cup CloseEvents
  BY DEF ReadEvents, WriteEvents, Poll, CloseEvents

\* What nghttp2 may send is body data within the window, and all of it.
LEMMA AllowedBound ==
    ASSUME TypeOK
    PROVE  /\ Allowed \in Nat /\ Allowed <= body /\ Allowed <= window
           /\ term \/ body - Allowed = 0 \/ window - Allowed = 0
  BY DEF Allowed, TypeOK

\* The counters are numbers.
LEMMA Numbers ==
    ASSUME TypeOK
    PROVE  /\ {sent, output, delivered, control, body, owed, window} \subseteq Nat
           /\ space \in Nat /\ Body \in Nat /\ Window \in Nat
  BY Sizes DEF TypeOK

\* After a registration the kernel and the session agree on the events, and
\* when they were not the same before, what is ready is noted.
LEMMA UpdateEvent ==
    ASSUME TypeOK, InterestInv, pc # "closed", NEW e, update_event(e),
           e # {} \/ interest # {}
    PROVE  /\ events' = e
           /\ interest' = e \cup CloseEvents
           /\ events = e => UNCHANGED <<interest, ready, nospace>>
           /\ events # e => /\ ready' = (ready \/ Poll \cap (e \cup CloseEvents) # {})
                             /\ nospace' = (nospace \/ space = 0)
  BY DEF update_event, InterestInv, CloseEvents, Polled

\* What polling finds.
LEMMA Polls ==
    ASSUME NEW e
    PROVE  /\ reset \/ fin => Poll \cap (e \cup CloseEvents) # {}
           /\ rcv # <<>> /\ "IN" \in e => Poll \cap (e \cup CloseEvents) # {}
           /\ space > 0 /\ "OUT" \in e => Poll \cap (e \cup CloseEvents) # {}
  BY DEF Poll, CloseEvents

\* The first registration of a session asks for both.
LEMMA FirstEvents ==
    ASSUME pc = "update_new", PhaseInv, TypeOK
    PROVE  ReadEvents \cup WriteEvents = {"IN", "OUT"}
  BY DEF PhaseInv, ReadEvents, WriteEvents, want_read, want_write, Disconnecting, TypeOK
-----------------------------------------------------------------------------
(***************************************************************************)
(* Every step preserves the type.                                          *)
(***************************************************************************)

\* Every action keeps the type.
LEMMA NextTypeOK ==
    ASSUME TypeOK, FlightInv, PhaseInv, OutputInv, Next PROVE TypeOK'
<1>1. CASE ClientSends
  <2>1. Head(script) \in Frame \cup Flight /\ Tail(script) \in Seq(Frame \cup Flight)
    BY <1>1, HeadTail DEF ClientSends, TypeOK
  <2>. QED BY <1>1, <2>1 DEF ClientSends, Arrival, Registered, modeVars, sslVars, h2Vars,
                           sessionVars, TypeOK
<1>2. CASE ClientReads
  <2>1. space' \in 0 .. SendBuf
    BY <1>2, Sizes DEF ClientReads, Arrival, modeVars,
       sslVars, h2Vars, sessionVars, TypeOK
  <2>2. nospace' \in BOOLEAN
    BY <1>2 DEF ClientReads, Arrival, modeVars, sslVars, h2Vars, sessionVars,
       TypeOK
  <2>3. ready' \in BOOLEAN
    BY <1>2 DEF ClientReads, Arrival, modeVars, sslVars, h2Vars, sessionVars,
       TypeOK
  <2>4. UNCHANGED <<tls, offer, script, rcv, fin, reset, interest, hstate,
                        want, sent, moved, control, body, window, term, owed,
                        state, events, input, output, delivered, ev, pc, cause>>
    BY <1>2 DEF ClientReads, modeVars, sslVars, h2Vars, sessionVars
  <2>. QED BY <2>1, <2>2, <2>3, <2>4 DEF TypeOK
<1>3. CASE ClientCloses
  BY <1>3, Sizes, EventsTyped DEF ClientCloses, Arrival,
     modeVars, sslVars, h2Vars, sessionVars, TypeOK, CloseEvents, Registered
<1>4. CASE ClientResets
  BY <1>4, Sizes, EventsTyped DEF ClientResets, Arrival,
     modeVars, sslVars, h2Vars, sessionVars, TypeOK, CloseEvents, Registered
<1>5. CASE NewConnection
  BY <1>5, Sizes, EventsTyped DEF NewConnection, modeVars,
     kernelVars, sslVars, h2Vars, sessionVars, TypeOK, CloseEvents, Registered
<1>6. CASE SslAcceptReads
  BY <1>6, Sizes, EventsTyped DEF SslAcceptReads,
     Disconnect, modeVars, h2Vars, sessionVars, Flight, TypeOK, CloseEvents,
     Registered
<1>7. CASE SslAcceptWrites
  <2>1. space' \in 0 .. SendBuf
    BY <1>7, Sizes DEF SslAcceptWrites, modeVars, h2Vars,
       sessionVars, TypeOK
  <2>2. hstate' \in Flight \cup {"reply", "done"}
    BY <1>7 DEF SslAcceptWrites, Flight
  <2>3. UNCHANGED <<tls, offer, script, rcv, fin, reset, nospace,
                        interest, ready, want, sent, moved, control, body,
                        window, term, owed, state, events, input, output,
                        delivered, ev, pc, cause>>
    BY <1>7 DEF SslAcceptWrites, modeVars, h2Vars, sessionVars
  <2>. QED BY <2>1, <2>2, <2>3 DEF TypeOK
<1>8. CASE SslAcceptWaits
  <2>1. nospace' \in BOOLEAN
    BY <1>8 DEF SslAcceptWaits, modeVars, h2Vars, sessionVars, TypeOK
  <2>2. want' \in {"nothing", "read", "write"}
    BY <1>8 DEF SslAcceptWaits, modeVars, h2Vars, sessionVars, TypeOK
  <2>3. pc' \in {"new", "ssl_accept", "update_handshake", "establish",
               "update_new", "epoll_wait", "read", "feed", "update_read",
               "fill", "write", "update_write", "handled", "disconnect",
               "closed"}
    BY <1>8 DEF SslAcceptWaits, modeVars, h2Vars, sessionVars, TypeOK
  <2>4. UNCHANGED <<tls, offer, script, rcv, fin, reset, space, interest,
                        ready, hstate, sent, moved, control, body, window,
                        term, owed, state, events, input, output, delivered,
                        ev, cause>>
    BY <1>8 DEF SslAcceptWaits, modeVars, h2Vars, sessionVars
  <2>. QED BY <2>1, <2>2, <2>3, <2>4 DEF TypeOK
<1>9. CASE SslAcceptFails
  BY <1>9, Sizes, EventsTyped DEF SslAcceptFails,
     Disconnect, modeVars, kernelVars, sslVars, h2Vars, sessionVars, TypeOK,
     CloseEvents, Registered
<1>10. CASE SslAcceptDone
  BY <1>10, Sizes, EventsTyped DEF SslAcceptDone, modeVars,
     kernelVars, h2Vars, sessionVars, TypeOK, CloseEvents, Registered
<1>11. CASE update_ssl_handshake_events
  <2>1. nospace' \in BOOLEAN
    BY <1>11 DEF update_ssl_handshake_events, update_event, Polled, modeVars,
       sslVars, h2Vars, TypeOK
  <2>2. interest' \subseteq {"IN", "OUT"} \cup CloseEvents
    BY <1>11, EventsTyped DEF update_ssl_handshake_events, update_event,
       Polled, modeVars, sslVars, h2Vars, CloseEvents, TypeOK
  <2>3. ready' \in BOOLEAN
    BY <1>11 DEF update_ssl_handshake_events, update_event, Polled, modeVars,
       sslVars, h2Vars, TypeOK
  <2>4. state' \in {"CONNECTING", "DISCONNECTING", "TLS_HANDSHAKING",
               "ESTABLISHED"}
    BY <1>11 DEF update_ssl_handshake_events, update_event, Polled, modeVars,
       sslVars, h2Vars, TypeOK
  <2>5. events' \subseteq {"IN", "OUT"}
    BY <1>11, EventsTyped DEF update_ssl_handshake_events, update_event,
       Polled, modeVars, sslVars, h2Vars, TypeOK
  <2>6. pc' \in {"new", "ssl_accept", "update_handshake", "establish",
               "update_new", "epoll_wait", "read", "feed", "update_read",
               "fill", "write", "update_write", "handled", "disconnect",
               "closed"}
    BY <1>11 DEF update_ssl_handshake_events, update_event, Polled, modeVars,
       sslVars, h2Vars, TypeOK
  <2>7. UNCHANGED <<tls, offer, script, rcv, fin, reset, space, hstate,
                        want, sent, moved, control, body, window, term, owed,
                        input, output, delivered, ev, cause>>
    BY <1>11 DEF update_ssl_handshake_events, modeVars, sslVars, h2Vars
  <2>. QED BY <2>1, <2>2, <2>3, <2>4, <2>5, <2>6, <2>7 DEF TypeOK
<1>12. CASE establish_connection
  BY <1>12, Sizes, EventsTyped DEF establish_connection,
     Disconnect, modeVars, kernelVars, sslVars, TypeOK, CloseEvents,
     Registered
<1>13. CASE UpdateNew
  <2>1. nospace' \in BOOLEAN
    BY <1>13 DEF UpdateNew, update_events, update_event, Polled, modeVars,
       sslVars, h2Vars, TypeOK
  <2>2. interest' \subseteq {"IN", "OUT"} \cup CloseEvents
    BY <1>13, EventsTyped DEF UpdateNew, update_events, update_event, Polled,
       modeVars, sslVars, h2Vars, CloseEvents, TypeOK
  <2>3. ready' \in BOOLEAN
    BY <1>13 DEF UpdateNew, update_events, update_event, Polled, modeVars,
       sslVars, h2Vars, TypeOK
  <2>4. events' \subseteq {"IN", "OUT"}
    BY <1>13, EventsTyped DEF UpdateNew, update_events, update_event, Polled,
       modeVars, sslVars, h2Vars, TypeOK
  <2>5. pc' \in {"new", "ssl_accept", "update_handshake", "establish",
               "update_new", "epoll_wait", "read", "feed", "update_read",
               "fill", "write", "update_write", "handled", "disconnect",
               "closed"}
    BY <1>13 DEF UpdateNew, update_events, update_event, Polled, modeVars,
       sslVars, h2Vars, TypeOK
  <2>6. UNCHANGED <<tls, offer, script, rcv, fin, reset, space, hstate,
                        want, sent, moved, control, body, window, term, owed,
                        state, input, output, delivered, ev, cause>>
    BY <1>13 DEF UpdateNew, modeVars, sslVars, h2Vars
  <2>. QED BY <2>1, <2>2, <2>3, <2>4, <2>5, <2>6 DEF TypeOK
<1>14. CASE EpollWait
  <2>1. nospace' \in BOOLEAN
    BY <1>14 DEF EpollWait, Polled, modeVars, sslVars, h2Vars, sessionVars,
       TypeOK
  <2>2. ready' \in BOOLEAN
    BY <1>14 DEF EpollWait, Polled, modeVars, sslVars, h2Vars, sessionVars,
       TypeOK
  <2>3. ev' \subseteq {"IN", "OUT"} \cup CloseEvents
    BY <1>14, EventsTyped DEF EpollWait, Polled, modeVars, sslVars, h2Vars,
       sessionVars, TypeOK
  <2>4. pc' \in {"new", "ssl_accept", "update_handshake", "establish",
               "update_new", "epoll_wait", "read", "feed", "update_read",
               "fill", "write", "update_write", "handled", "disconnect",
               "closed"}
    BY <1>14 DEF EpollWait, Polled, modeVars, sslVars, h2Vars, sessionVars,
       TypeOK
  <2>5. UNCHANGED <<tls, offer, script, rcv, fin, reset, space, interest,
                        hstate, want, sent, moved, control, body, window,
                        term, owed, state, events, input, output, delivered,
                        cause>>
    BY <1>14 DEF EpollWait, modeVars, sslVars, h2Vars, sessionVars
  <2>. QED BY <2>1, <2>2, <2>3, <2>4, <2>5 DEF TypeOK
<1>15. CASE ReadSome
  <2>1. tls => hstate = "done"
    BY <1>15 DEF ReadSome, PhaseInv, Established, TypeOK
  <2>2. rcv # <<>> /\ Frames(rcv)
    BY <1>15, <2>1 DEF ReadSome, FlightInv, TypeOK
  <2>3. Head(rcv) \in Frame /\ Tail(rcv) \in Seq(Frame \cup Flight)
    BY <2>2, HeadTail, FramesHeadTail DEF TypeOK
  <2>. QED BY <1>15, <2>3 DEF ReadSome, modeVars, h2Vars, TypeOK
<1>16. CASE ReadAgain
  BY <1>16, Sizes, EventsTyped DEF ReadAgain, modeVars,
     kernelVars, h2Vars, sessionVars, TypeOK, CloseEvents, Registered
<1>17. CASE ReadShutdown
  BY <1>17, Sizes, EventsTyped DEF ReadShutdown, Disconnect,
     modeVars, kernelVars, sslVars, h2Vars, sessionVars, TypeOK, CloseEvents,
     Registered
<1>18. CASE Feed
  <2>1. control' \in Nat
    BY <1>18, Sizes DEF Feed, mem_recv2,
       on_frame_recv_callback, Disconnect, modeVars, kernelVars, sslVars,
       h2Vars, TypeOK
  <2>2. body' \in Nat
    BY <1>18, Sizes DEF Feed, mem_recv2,
       on_frame_recv_callback, Disconnect, modeVars, kernelVars, sslVars,
       h2Vars, TypeOK
  <2>3. window' \in Nat
    BY <1>18, Sizes DEF Feed, mem_recv2,
       on_frame_recv_callback, Disconnect, modeVars, kernelVars, sslVars,
       h2Vars, TypeOK
  <2>4. term' \in BOOLEAN
    BY <1>18 DEF Feed, mem_recv2, on_frame_recv_callback, Disconnect,
       modeVars, kernelVars, sslVars, h2Vars, TypeOK
  <2>5. owed' \in Nat
    <3>1. CASE ~term /\ Head(input) \in {"request", "goaway"}
        /\ on_frame_recv_callback(Head(input))
      BY <3>1, Sizes DEF on_frame_recv_callback, TypeOK
    <3>2. CASE owed' = owed + 1 \/ UNCHANGED owed
      BY <3>2 DEF TypeOK
    <3>. QED BY <1>18, <3>1, <3>2 DEF Feed, mem_recv2, h2Vars
  <2>6. state' \in {"CONNECTING", "DISCONNECTING", "TLS_HANDSHAKING",
               "ESTABLISHED"}
    BY <1>18 DEF Feed, mem_recv2, on_frame_recv_callback, Disconnect,
       modeVars, kernelVars, sslVars, h2Vars, TypeOK
  <2>7. input' \in Seq(Frame)
    <3>1. Tail(input) \in Seq(Frame)
      BY <1>18, HeadTail DEF Feed, TypeOK
    <3>. QED BY <1>18, <3>1 DEF Feed, TypeOK
  <2>8. pc' \in {"new", "ssl_accept", "update_handshake", "establish",
               "update_new", "epoll_wait", "read", "feed", "update_read",
               "fill", "write", "update_write", "handled", "disconnect",
               "closed"}
    BY <1>18 DEF Feed, mem_recv2, on_frame_recv_callback, Disconnect,
       modeVars, kernelVars, sslVars, h2Vars, TypeOK
  <2>9. cause' \in {"none", "eof", "error", "goaway"}
    BY <1>18 DEF Feed, mem_recv2, on_frame_recv_callback, Disconnect,
       modeVars, kernelVars, sslVars, h2Vars, TypeOK
  <2>10. UNCHANGED <<tls, offer, script, rcv, fin, reset, space, nospace,
                        interest, ready, hstate, want, sent, moved, events,
                        output, delivered, ev>>
    BY <1>18 DEF Feed, modeVars, kernelVars, sslVars, h2Vars
  <2>. QED BY <2>1, <2>2, <2>3, <2>4, <2>5, <2>6, <2>7, <2>8, <2>9, <2>10 DEF TypeOK
<1>19. CASE FeedDone
  BY <1>19, Sizes, EventsTyped DEF FeedDone, modeVars,
     kernelVars, sslVars, h2Vars, sessionVars, TypeOK, CloseEvents, Registered
<1>20. CASE UpdateRead
  <2>1. nospace' \in BOOLEAN
    BY <1>20 DEF UpdateRead, update_events, update_event, Polled, Disconnect,
       modeVars, sslVars, h2Vars, TypeOK
  <2>2. interest' \subseteq {"IN", "OUT"} \cup CloseEvents
    BY <1>20, EventsTyped DEF UpdateRead, update_events, update_event, Polled,
       Disconnect, modeVars, sslVars, h2Vars, CloseEvents, TypeOK
  <2>3. ready' \in BOOLEAN
    BY <1>20 DEF UpdateRead, update_events, update_event, Polled, Disconnect,
       modeVars, sslVars, h2Vars, TypeOK
  <2>4. events' \subseteq {"IN", "OUT"}
    BY <1>20, EventsTyped DEF UpdateRead, update_events, update_event, Polled,
       Disconnect, modeVars, sslVars, h2Vars, TypeOK
  <2>5. pc' \in {"new", "ssl_accept", "update_handshake", "establish",
               "update_new", "epoll_wait", "read", "feed", "update_read",
               "fill", "write", "update_write", "handled", "disconnect",
               "closed"}
    BY <1>20 DEF UpdateRead, update_events, update_event, Polled, Disconnect,
       modeVars, sslVars, h2Vars, TypeOK
  <2>6. cause' \in {"none", "eof", "error", "goaway"}
    BY <1>20 DEF UpdateRead, update_events, update_event, Polled, Disconnect,
       modeVars, sslVars, h2Vars, TypeOK
  <2>7. UNCHANGED <<tls, offer, script, rcv, fin, reset, space, hstate,
                        want, sent, moved, control, body, window, term, owed,
                        state, input, output, delivered, ev>>
    BY <1>20 DEF UpdateRead, modeVars, sslVars, h2Vars
  <2>. QED BY <2>1, <2>2, <2>3, <2>4, <2>5, <2>6, <2>7 DEF TypeOK
<1>21. CASE FillOutput
  <2>1. moved' \in BOOLEAN
    BY <1>21 DEF FillOutput, modeVars, kernelVars, TypeOK
  <2>2. control' \in Nat
    BY <1>21, AllowedBound, Sizes DEF FillOutput, modeVars,
       kernelVars, TypeOK
  <2>3. body' \in Nat
    BY <1>21, AllowedBound, Sizes DEF FillOutput, modeVars,
       kernelVars, TypeOK
  <2>4. window' \in Nat
    BY <1>21, AllowedBound, Sizes DEF FillOutput, modeVars,
       kernelVars, TypeOK
  <2>5. output' \in Nat
    BY <1>21, AllowedBound, Sizes DEF FillOutput, modeVars,
       kernelVars, TypeOK
  <2>6. pc' \in {"new", "ssl_accept", "update_handshake", "establish",
               "update_new", "epoll_wait", "read", "feed", "update_read",
               "fill", "write", "update_write", "handled", "disconnect",
               "closed"}
    BY <1>21 DEF FillOutput, modeVars, kernelVars, TypeOK
  <2>7. sent' <= output'
    BY <1>21, AllowedBound, SMTT(30) DEF FillOutput, TypeOK
  <2>8. UNCHANGED <<tls, offer, script, rcv, fin, reset, space, nospace,
                        interest, ready, hstate, want, sent, term, owed,
                        state, events, input, delivered, ev, cause>>
    BY <1>21 DEF FillOutput, modeVars, kernelVars
  <2>. QED BY <2>1, <2>2, <2>3, <2>4, <2>5, <2>6, <2>7, <2>8 DEF TypeOK
<1>22. CASE WriteSome
  <2>1. space' \in 0 .. SendBuf
    BY <1>22, Sizes DEF WriteSome, modeVars, sslVars, h2Vars,
       TypeOK
  <2>2. output' \in Nat
    BY <1>22, Sizes DEF WriteSome, modeVars, sslVars, h2Vars,
       TypeOK
  <2>3. delivered' \in Nat
    BY <1>22 DEF WriteSome, modeVars, sslVars, h2Vars, TypeOK
  <2>4. sent' <= output'
    BY <1>22 DEF WriteSome, sslVars, OutputInv, TypeOK
  <2>5. UNCHANGED <<tls, offer, script, rcv, fin, reset, nospace,
                        interest, ready, hstate, want, sent, moved, control,
                        body, window, term, owed, state, events, input, ev,
                        pc, cause>>
    BY <1>22 DEF WriteSome, modeVars, sslVars, h2Vars
  <2>. QED BY <2>1, <2>2, <2>3, <2>4, <2>5 DEF TypeOK
<1>23. CASE SslWriteSome
  <2>1. space' \in 0 .. SendBuf
    BY <1>23, Sizes DEF SslWriteSome, modeVars, h2Vars, TypeOK
  <2>2. want' \in {"nothing", "read", "write"}
    BY <1>23 DEF SslWriteSome, modeVars, h2Vars, TypeOK
  <2>3. sent' \in Nat /\ sent' <= output'
    BY <1>23 DEF SslWriteSome, OutputInv, TypeOK
  <2>4. output' \in Nat
    BY <1>23, Sizes DEF SslWriteSome, modeVars, h2Vars, TypeOK
  <2>5. delivered' \in Nat
    BY <1>23 DEF SslWriteSome, modeVars, h2Vars, TypeOK
  <2>6. UNCHANGED <<tls, offer, script, rcv, fin, reset, nospace,
                        interest, ready, hstate, moved, control, body, window,
                        term, owed, state, events, input, ev, pc, cause>>
    BY <1>23 DEF SslWriteSome, modeVars, h2Vars
  <2>. QED BY <2>1, <2>2, <2>3, <2>4, <2>5, <2>6 DEF TypeOK
<1>24. CASE WriteAgain
  BY <1>24, Sizes, EventsTyped DEF WriteAgain, modeVars,
     h2Vars, sessionVars, TypeOK, CloseEvents, Registered
<1>25. CASE WriteShutdown
  BY <1>25, Sizes, EventsTyped DEF WriteShutdown,
     Disconnect, modeVars, kernelVars, sslVars, h2Vars, sessionVars, TypeOK,
     CloseEvents, Registered
<1>26. CASE WriteDone
  BY <1>26, Sizes, EventsTyped DEF WriteDone, modeVars,
     kernelVars, sslVars, h2Vars, sessionVars, TypeOK, CloseEvents, Registered
<1>27. CASE UpdateWrite
  <2>1. nospace' \in BOOLEAN
    BY <1>27 DEF UpdateWrite, update_events, update_event, Polled, Disconnect,
       modeVars, sslVars, h2Vars, TypeOK
  <2>2. interest' \subseteq {"IN", "OUT"} \cup CloseEvents
    BY <1>27, EventsTyped DEF UpdateWrite, update_events, update_event,
       Polled, Disconnect, modeVars, sslVars, h2Vars, CloseEvents, TypeOK
  <2>3. ready' \in BOOLEAN
    BY <1>27 DEF UpdateWrite, update_events, update_event, Polled, Disconnect,
       modeVars, sslVars, h2Vars, TypeOK
  <2>4. events' \subseteq {"IN", "OUT"}
    BY <1>27, EventsTyped DEF UpdateWrite, update_events, update_event,
       Polled, Disconnect, modeVars, sslVars, h2Vars, TypeOK
  <2>5. pc' \in {"new", "ssl_accept", "update_handshake", "establish",
               "update_new", "epoll_wait", "read", "feed", "update_read",
               "fill", "write", "update_write", "handled", "disconnect",
               "closed"}
    BY <1>27 DEF UpdateWrite, update_events, update_event, Polled, Disconnect,
       modeVars, sslVars, h2Vars, TypeOK
  <2>6. cause' \in {"none", "eof", "error", "goaway"}
    BY <1>27 DEF UpdateWrite, update_events, update_event, Polled, Disconnect,
       modeVars, sslVars, h2Vars, TypeOK
  <2>7. UNCHANGED <<tls, offer, script, rcv, fin, reset, space, hstate,
                        want, sent, moved, control, body, window, term, owed,
                        state, input, output, delivered, ev>>
    BY <1>27 DEF UpdateWrite, modeVars, sslVars, h2Vars
  <2>. QED BY <2>1, <2>2, <2>3, <2>4, <2>5, <2>6, <2>7 DEF TypeOK
<1>28. CASE EventHandled
  BY <1>28, Sizes, EventsTyped DEF EventHandled, Disconnect,
     modeVars, kernelVars, sslVars, h2Vars, sessionVars, TypeOK, CloseEvents,
     Registered
<1>29. CASE disconnect_from_client
  <2>1. interest' \subseteq {"IN", "OUT"} \cup CloseEvents
    BY <1>29 DEF disconnect_from_client, modeVars, sslVars, h2Vars,
       sessionVars, TypeOK
  <2>2. ready' \in BOOLEAN
    BY <1>29 DEF disconnect_from_client, modeVars, sslVars, h2Vars,
       sessionVars, TypeOK
  <2>3. pc' \in {"new", "ssl_accept", "update_handshake", "establish",
               "update_new", "epoll_wait", "read", "feed", "update_read",
               "fill", "write", "update_write", "handled", "disconnect",
               "closed"}
    BY <1>29 DEF disconnect_from_client, modeVars, sslVars, h2Vars,
       sessionVars, TypeOK
  <2>4. UNCHANGED <<tls, offer, script, rcv, fin, reset, space, nospace,
                        hstate, want, sent, moved, control, body, window,
                        term, owed, state, events, input, output, delivered,
                        ev, cause>>
    BY <1>29 DEF disconnect_from_client, modeVars, sslVars, h2Vars,
       sessionVars
  <2>. QED BY <2>1, <2>2, <2>3, <2>4 DEF TypeOK
<1>. QED BY <1>1, <1>2, <1>3, <1>4, <1>5, <1>6, <1>7, <1>8, <1>9, <1>10, <1>11,
         <1>12, <1>13, <1>14, <1>15, <1>16, <1>17, <1>18, <1>19, <1>20, <1>21,
         <1>22, <1>23, <1>24, <1>25, <1>26, <1>27, <1>28, <1>29
  DEF Next, Worker, Client, Setup, Handshake, handle_read, handle_write
-----------------------------------------------------------------------------
(***************************************************************************)
(* Every step preserves the other parts of the invariant.                  *)
(***************************************************************************)

\* FlightInv: the client's flights are received in order.
LEMMA NextFlight ==
    ASSUME TypeOK, PhaseInv, FlightInv, Next PROVE FlightInv'
<1>1. CASE ClientSends
  <2>. DEFINE x == Head(script)
  <2>1. /\ script # <<>> /\ ~reset /\ ~reset' /\ UNCHANGED <<tls, hstate>>
        /\ rcv' = Append(rcv, x) /\ script' = Tail(script)
        /\ x = "finished" => hstate = "finished"
    BY <1>1 DEF ClientSends, modeVars, sslVars
  <2>2. CASE ~tls \/ hstate = "done"
    <3>1. x \in Frame /\ Frames(Tail(script))
      BY <2>1, <2>2, FramesHeadTail DEF FlightInv, TypeOK
    <3>2. Frames(Append(rcv, x))
      BY <2>2, <3>1, FramesAppend DEF FlightInv, TypeOK
    <3>. QED BY <2>1, <2>2, <3>1, <3>2 DEF FlightInv, TypeOK
  <2>3. CASE tls /\ hstate = "hello"
    <3>1. /\ rcv = <<>> /\ x = "hello" /\ Len(script) > 1 /\ script[2] = "finished"
          /\ Frames(Tail(Tail(script)))
      BY <2>1, <2>3 DEF FlightInv, Announced
    <3>2. Append(rcv, x) = <<"hello">>
      BY <3>1
    <3>3. Tail(script) # <<>> /\ Head(Tail(script)) = "finished"
      <4>1. Tail(script) \in Seq(Frame \cup Flight) /\ Len(Tail(script)) = Len(script) - 1
            /\ Len(script) \in Nat
            /\ \A i \in 1 .. Len(script) - 1 : Tail(script)[i] = script[i + 1]
        BY <2>1, HeadTail DEF TypeOK
      <4>2. Tail(script) # <<>> /\ Tail(script)[1] = "finished"
        BY <3>1, <4>1
      <4>. QED BY <4>1, <4>2, HeadTail
    <3>. QED BY <2>1, <2>3, <3>1, <3>2, <3>3 DEF FlightInv, Announced
  <2>4. CASE tls /\ hstate = "reply"
    BY <2>1, <2>4 DEF FlightInv, Announced
  <2>5. CASE tls /\ hstate = "finished" /\ rcv = <<>>
    <3>1. Append(rcv, x) # <<>> /\ Head(Append(rcv, x)) = x /\ Len(Tail(Append(rcv, x))) = 0
      BY <2>5
    <3>2. x = "finished" /\ Frames(Tail(script))
      BY <2>1, <2>5 DEF FlightInv, Announced
    <3>. QED BY <2>1, <2>5, <3>1, <3>2 DEF FlightInv, Frames
  <2>6. CASE tls /\ hstate = "finished" /\ rcv # <<>>
    <3>1. Head(rcv) = "finished" /\ Frames(Tail(rcv)) /\ Frames(script)
      BY <2>1, <2>6 DEF FlightInv
    <3>2. x \in Frame /\ Frames(Tail(script))
      BY <2>1, <3>1, FramesHeadTail DEF TypeOK
    <3>3. Tail(rcv) \in Seq(Frame \cup Flight)
      BY <2>6, HeadTail DEF TypeOK
    <3>4. Frames(Append(Tail(rcv), x))
      BY <3>1, <3>2, <3>3, FramesAppend
    <3>5. /\ Append(rcv, x) # <<>> /\ Head(Append(rcv, x)) = Head(rcv)
          /\ Tail(Append(rcv, x)) = Append(Tail(rcv), x)
      BY <2>6, <3>2, SMTT(30) DEF TypeOK
    <3>. QED BY <2>1, <2>6, <3>1, <3>2, <3>4, <3>5 DEF FlightInv
  <2>. QED BY <2>2, <2>3, <2>4, <2>5, <2>6 DEF TypeOK, Flight
<1>2. CASE ClientResets
  <2>1. reset' /\ rcv' = <<>> /\ UNCHANGED <<tls, script, hstate>>
    BY <1>2 DEF ClientResets, modeVars, sslVars
  <2>. QED BY <2>1 DEF FlightInv, Frames
<1>3. CASE SslAcceptReads
  <2>1. ~reset /\ rcv # <<>> /\ rcv' = Tail(rcv) /\ UNCHANGED <<tls, script, reset>>
        /\ tls /\ hstate \in Flight
    BY <1>3 DEF SslAcceptReads, modeVars, FlightInv, PhaseInv
  <2>2. CASE hstate = "hello"
    <3>1. rcv = <<"hello">> /\ Announced
      BY <2>1, <2>2 DEF FlightInv
    <3>2. Tail(rcv) = <<>> /\ hstate' = "reply"
      BY <1>3, <2>2, <3>1 DEF SslAcceptReads
    <3>. QED BY <2>1, <3>1, <3>2 DEF FlightInv, Announced
  <2>3. CASE hstate = "finished"
    <3>1. Head(rcv) = "finished" /\ Frames(Tail(rcv)) /\ Frames(script)
      BY <2>1, <2>3 DEF FlightInv
    <3>2. hstate' = "done"
      BY <1>3, <2>3, <3>1 DEF SslAcceptReads
    <3>. QED BY <2>1, <3>1, <3>2 DEF FlightInv
  <2>. QED BY <2>1, <2>2, <2>3 DEF Flight
<1>4. CASE SslAcceptWrites
  <2>. QED BY <1>4 DEF SslAcceptWrites, modeVars, PhaseInv, FlightInv, Announced
<1>5. CASE ReadSome
  <2>1. rcv # <<>> /\ rcv' = Tail(rcv) /\ UNCHANGED <<tls, hstate, script, reset>>
        /\ (tls => hstate = "done")
    BY <1>5 DEF ReadSome, modeVars, PhaseInv, Established
  <2>2. Frames(script) /\ Frames(Tail(rcv)) /\ ~reset
    BY <2>1, FramesHeadTail DEF FlightInv, TypeOK
  <2>. QED BY <2>1, <2>2 DEF FlightInv
<1>6. CASE ClientReads \/ ClientCloses \/ NewConnection \/ SslAcceptWaits \/
            SslAcceptFails \/ SslAcceptDone \/ update_ssl_handshake_events \/
            establish_connection \/ UpdateNew \/ EpollWait \/ ReadAgain \/
            ReadShutdown \/ Feed \/ FeedDone \/ UpdateRead \/ FillOutput \/
            WriteSome \/ SslWriteSome \/ WriteAgain \/ WriteShutdown \/
            WriteDone \/ UpdateWrite \/ EventHandled \/ disconnect_from_client
  <2>1. UNCHANGED <<tls, script, rcv, reset, hstate>>
    BY <1>6 DEF ClientReads, ClientCloses, NewConnection, SslAcceptWaits,
       SslAcceptFails, SslAcceptDone, update_ssl_handshake_events,
       establish_connection, UpdateNew, EpollWait, ReadAgain, ReadShutdown,
       Feed, FeedDone, UpdateRead, FillOutput, WriteSome, SslWriteSome,
       WriteAgain, WriteShutdown, WriteDone, UpdateWrite, EventHandled,
       disconnect_from_client, h2Vars, kernelVars, modeVars, sessionVars,
       sslVars
  <2>. QED BY <2>1 DEF FlightInv, Announced
<1>. QED BY <1>1, <1>2, <1>3, <1>4, <1>5, <1>6
  DEF Next, Worker, Client, Setup, Handshake, handle_read, handle_write

\* PhaseInv: where the worker is says how far the session is.
LEMMA NextPhase ==
    ASSUME TypeOK, PhaseInv, Next PROVE PhaseInv'
<1>1. CASE NewConnection
  BY <1>1 DEF NewConnection, modeVars, kernelVars, sslVars, h2Vars,
     sessionVars, PhaseInv, Established, Opening, validate_alpn, TypeOK
<1>2. CASE SslAcceptReads
  BY <1>2 DEF SslAcceptReads, Disconnect, modeVars, h2Vars, sessionVars,
     PhaseInv, Established, Opening, validate_alpn, TypeOK
<1>3. CASE SslAcceptWrites
  BY <1>3 DEF SslAcceptWrites, modeVars, h2Vars, sessionVars, PhaseInv,
     Established, Opening, validate_alpn, TypeOK
<1>4. CASE SslAcceptWaits
  BY <1>4 DEF SslAcceptWaits, modeVars, h2Vars, sessionVars, Flight,
     PhaseInv, Established, Opening, validate_alpn, TypeOK
<1>5. CASE SslAcceptFails
  BY <1>5 DEF SslAcceptFails, Disconnect, modeVars, kernelVars, sslVars,
     h2Vars, sessionVars, PhaseInv, Established, Opening, validate_alpn, TypeOK
<1>6. CASE SslAcceptDone
  BY <1>6 DEF SslAcceptDone, modeVars, kernelVars, h2Vars, sessionVars,
     PhaseInv, Established, Opening, validate_alpn, TypeOK
<1>7. CASE update_ssl_handshake_events
  BY <1>7 DEF update_ssl_handshake_events, update_event, Polled, modeVars,
     sslVars, h2Vars, PhaseInv, Established, Opening, validate_alpn, TypeOK
<1>8. CASE establish_connection
  BY <1>8 DEF establish_connection, Disconnect, modeVars, kernelVars,
     sslVars, PhaseInv, Established, Opening, validate_alpn, TypeOK
<1>9. CASE UpdateNew
  BY <1>9 DEF UpdateNew, update_events, update_event, Polled, modeVars,
     sslVars, h2Vars, PhaseInv, Established, Opening, validate_alpn, TypeOK
<1>10. CASE EpollWait
  BY <1>10 DEF EpollWait, Polled, modeVars, sslVars, h2Vars, sessionVars,
     PhaseInv, Established, Opening, validate_alpn, TypeOK
<1>11. CASE ReadAgain
  BY <1>11 DEF ReadAgain, modeVars, kernelVars, h2Vars, sessionVars,
     PhaseInv, Established, Opening, validate_alpn, TypeOK
<1>12. CASE ReadShutdown
  BY <1>12 DEF ReadShutdown, Disconnect, modeVars, kernelVars, sslVars,
     h2Vars, sessionVars, PhaseInv, Established, Opening, validate_alpn, TypeOK
<1>13. CASE Feed
  BY <1>13 DEF Feed, mem_recv2, on_frame_recv_callback, Disconnect,
     modeVars, kernelVars, sslVars, h2Vars, PhaseInv, Established, Opening,
     validate_alpn, TypeOK
<1>14. CASE FeedDone
  BY <1>14 DEF FeedDone, modeVars, kernelVars, sslVars, h2Vars,
     sessionVars, PhaseInv, Established, Opening, validate_alpn, TypeOK
<1>15. CASE UpdateRead
  BY <1>15 DEF UpdateRead, update_events, update_event, Polled, Disconnect,
     modeVars, sslVars, h2Vars, PhaseInv, Established, Opening, validate_alpn,
     TypeOK
<1>16. CASE FillOutput
  BY <1>16 DEF FillOutput, modeVars, kernelVars, PhaseInv, Established,
     Opening, validate_alpn, TypeOK
<1>17. CASE WriteAgain
  BY <1>17 DEF WriteAgain, modeVars, h2Vars, sessionVars, PhaseInv,
     Established, Opening, validate_alpn, TypeOK
<1>18. CASE WriteShutdown
  BY <1>18 DEF WriteShutdown, Disconnect, modeVars, kernelVars, sslVars,
     h2Vars, sessionVars, PhaseInv, Established, Opening, validate_alpn, TypeOK
<1>19. CASE WriteDone
  BY <1>19 DEF WriteDone, modeVars, kernelVars, sslVars, h2Vars,
     sessionVars, PhaseInv, Established, Opening, validate_alpn, TypeOK
<1>20. CASE UpdateWrite
  BY <1>20 DEF UpdateWrite, update_events, update_event, Polled,
     Disconnect, modeVars, sslVars, h2Vars, PhaseInv, Established, Opening,
     validate_alpn, TypeOK
<1>21. CASE EventHandled
  BY <1>21 DEF EventHandled, Disconnect, modeVars, kernelVars, sslVars,
     h2Vars, sessionVars, PhaseInv, Established, Opening, validate_alpn, TypeOK
<1>22. CASE disconnect_from_client
  BY <1>22 DEF disconnect_from_client, modeVars, sslVars, h2Vars,
     sessionVars, PhaseInv, Established, Opening, validate_alpn, TypeOK
<1>23. CASE ClientSends \/ ClientReads \/ ClientCloses \/ ClientResets \/
            ReadSome \/ WriteSome \/ SslWriteSome
  <2>1. UNCHANGED <<tls, offer, hstate, control, term, state, pc>>
    BY <1>23 DEF ClientSends, ClientReads, ClientCloses, ClientResets,
       ReadSome, WriteSome, SslWriteSome, h2Vars, modeVars, sessionVars,
       sslVars
  <2>. QED BY <2>1 DEF PhaseInv, Established, Opening, validate_alpn
<1>. QED BY <1>1, <1>2, <1>3, <1>4, <1>5, <1>6, <1>7, <1>8, <1>9, <1>10, <1>11,
         <1>12, <1>13, <1>14, <1>15, <1>16, <1>17, <1>18, <1>19, <1>20, <1>21,
         <1>22, <1>23
  DEF Next, Worker, Client, Setup, Handshake, handle_read, handle_write


\* WantInv: SSL_ERROR_WANT_WRITE is about output.
LEMMA NextWant ==
    ASSUME TypeOK, PhaseInv, WantInv, Next PROVE WantInv'
<1>1. CASE NewConnection
  BY <1>1 DEF NewConnection, modeVars, kernelVars, sslVars, h2Vars,
     sessionVars, WantInv, PhaseInv, Established, TypeOK
<1>2. CASE SslAcceptReads
  BY <1>2 DEF SslAcceptReads, Disconnect, modeVars, h2Vars, sessionVars,
     WantInv, PhaseInv, Established, TypeOK
<1>3. CASE SslAcceptWaits
  BY <1>3 DEF SslAcceptWaits, modeVars, h2Vars, sessionVars, WantInv,
     PhaseInv, Established, TypeOK
<1>4. CASE SslAcceptFails
  BY <1>4 DEF SslAcceptFails, Disconnect, modeVars, kernelVars, sslVars,
     h2Vars, sessionVars, WantInv, PhaseInv, Established, TypeOK
<1>5. CASE SslAcceptDone
  BY <1>5 DEF SslAcceptDone, modeVars, kernelVars, h2Vars, sessionVars,
     WantInv, PhaseInv, Established, TypeOK
<1>6. CASE update_ssl_handshake_events
  BY <1>6 DEF update_ssl_handshake_events, update_event, Polled, modeVars,
     sslVars, h2Vars, WantInv, PhaseInv, Established, TypeOK
<1>7. CASE establish_connection
  BY <1>7 DEF establish_connection, Disconnect, modeVars, kernelVars,
     sslVars, WantInv, PhaseInv, Established, TypeOK
<1>8. CASE UpdateNew
  BY <1>8 DEF UpdateNew, update_events, update_event, Polled, modeVars,
     sslVars, h2Vars, WantInv, PhaseInv, Established, TypeOK
<1>9. CASE EpollWait
  BY <1>9 DEF EpollWait, Polled, modeVars, sslVars, h2Vars, sessionVars,
     WantInv, PhaseInv, Established, TypeOK
<1>10. CASE ReadSome
  BY <1>10 DEF ReadSome, modeVars, h2Vars, WantInv, PhaseInv, Established,
     TypeOK
<1>11. CASE ReadAgain
  BY <1>11 DEF ReadAgain, modeVars, kernelVars, h2Vars, sessionVars,
     WantInv, PhaseInv, Established, TypeOK
<1>12. CASE ReadShutdown
  BY <1>12 DEF ReadShutdown, Disconnect, modeVars, kernelVars, sslVars,
     h2Vars, sessionVars, WantInv, PhaseInv, Established, TypeOK
<1>13. CASE Feed
  BY <1>13 DEF Feed, mem_recv2, on_frame_recv_callback, Disconnect,
     modeVars, kernelVars, sslVars, h2Vars, WantInv, PhaseInv, Established,
     TypeOK
<1>14. CASE FeedDone
  BY <1>14 DEF FeedDone, modeVars, kernelVars, sslVars, h2Vars,
     sessionVars, WantInv, PhaseInv, Established, TypeOK
<1>15. CASE UpdateRead
  BY <1>15 DEF UpdateRead, update_events, update_event, Polled, Disconnect,
     modeVars, sslVars, h2Vars, WantInv, PhaseInv, Established, TypeOK
<1>16. CASE FillOutput
  <2>1. output' >= output
    BY <1>16, AllowedBound DEF FillOutput, TypeOK
  <2>. QED BY <1>16, <2>1 DEF FillOutput, modeVars, WantInv, PhaseInv, Established, TypeOK
<1>17. CASE WriteSome
  BY <1>17 DEF WriteSome, modeVars, sslVars, h2Vars, WantInv, PhaseInv,
     Established, TypeOK
<1>18. CASE SslWriteSome
  BY <1>18 DEF SslWriteSome, modeVars, h2Vars, WantInv, PhaseInv,
     Established, TypeOK
<1>19. CASE WriteAgain
  BY <1>19 DEF WriteAgain, modeVars, h2Vars, sessionVars, WantInv,
     PhaseInv, Established, TypeOK
<1>20. CASE WriteShutdown
  BY <1>20 DEF WriteShutdown, Disconnect, modeVars, kernelVars, sslVars,
     h2Vars, sessionVars, WantInv, PhaseInv, Established, TypeOK
<1>21. CASE WriteDone
  BY <1>21 DEF WriteDone, modeVars, kernelVars, sslVars, h2Vars,
     sessionVars, WantInv, PhaseInv, Established, TypeOK
<1>22. CASE UpdateWrite
  BY <1>22 DEF UpdateWrite, update_events, update_event, Polled,
     Disconnect, modeVars, sslVars, h2Vars, WantInv, PhaseInv, Established,
     TypeOK
<1>23. CASE EventHandled
  BY <1>23 DEF EventHandled, Disconnect, modeVars, kernelVars, sslVars,
     h2Vars, sessionVars, WantInv, PhaseInv, Established, TypeOK
<1>24. CASE disconnect_from_client
  BY <1>24 DEF disconnect_from_client, modeVars, sslVars, h2Vars,
     sessionVars, WantInv, PhaseInv, Established, TypeOK
<1>25. CASE ClientSends \/ ClientReads \/ ClientCloses \/ ClientResets \/
            SslAcceptWrites
  <2>1. UNCHANGED <<tls, want, state, output, pc>>
    BY <1>25 DEF ClientSends, ClientReads, ClientCloses, ClientResets,
       SslAcceptWrites, h2Vars, modeVars, sessionVars, sslVars
  <2>. QED BY <2>1 DEF WantInv, Established
<1>. QED BY <1>1, <1>2, <1>3, <1>4, <1>5, <1>6, <1>7, <1>8, <1>9, <1>10, <1>11,
         <1>12, <1>13, <1>14, <1>15, <1>16, <1>17, <1>18, <1>19, <1>20, <1>21,
         <1>22, <1>23, <1>24, <1>25
  DEF Next, Worker, Client, Setup, Handshake, handle_read, handle_write

\* OutputInv: no unit is lost or delivered twice.
LEMMA NextOutput ==
    ASSUME TypeOK, OutputInv, Next PROVE OutputInv'
<1>1. CASE establish_connection
  BY <1>1, Numbers DEF establish_connection, Disconnect, modeVars,
     kernelVars, sslVars, OutputInv
<1>2. CASE Feed
  <2>1. UNCHANGED <<sent, output, tls, delivered>>
    BY <1>2 DEF Feed, modeVars, sslVars
  <2>2. CASE on_frame_recv_callback(Head(input))
    BY <2>1, <2>2, Numbers DEF on_frame_recv_callback, OutputInv
  <2>3. CASE control' = control + 1 /\ owed' = owed + 1 /\ body' = body
    BY <2>1, <2>3, Numbers DEF OutputInv
  <2>4. CASE UNCHANGED <<control, body, owed>>
    BY <2>1, <2>4 DEF OutputInv
  <2>. QED BY <1>2, <2>2, <2>3, <2>4 DEF Feed, mem_recv2, h2Vars
<1>3. CASE FillOutput
  <2>1. /\ output' = output + control + Allowed /\ control' = 0 /\ body' = body - Allowed
        /\ UNCHANGED <<sent, tls, delivered, owed>>
    BY <1>3 DEF FillOutput, modeVars
  <2>. QED BY <2>1, AllowedBound, Numbers DEF OutputInv
<1>4. CASE WriteSome
  BY <1>4, Numbers DEF WriteSome, modeVars, sslVars, h2Vars, OutputInv
<1>5. CASE SslWriteSome
  BY <1>5, Numbers DEF SslWriteSome, modeVars, h2Vars, OutputInv
<1>6. CASE ClientSends \/ ClientReads \/ ClientCloses \/ ClientResets \/
            NewConnection \/ SslAcceptReads \/ SslAcceptWrites \/
            SslAcceptWaits \/ SslAcceptFails \/ SslAcceptDone \/
            update_ssl_handshake_events \/ UpdateNew \/ EpollWait \/ ReadSome
            \/ ReadAgain \/ ReadShutdown \/ FeedDone \/ UpdateRead \/
            WriteAgain \/ WriteShutdown \/ WriteDone \/ UpdateWrite \/
            EventHandled \/ disconnect_from_client
  <2>1. UNCHANGED <<tls, sent, control, body, owed, output, delivered>>
    BY <1>6 DEF ClientSends, ClientReads, ClientCloses, ClientResets,
       NewConnection, SslAcceptReads, SslAcceptWrites, SslAcceptWaits,
       SslAcceptFails, SslAcceptDone, update_ssl_handshake_events, UpdateNew,
       EpollWait, ReadSome, ReadAgain, ReadShutdown, FeedDone, UpdateRead,
       WriteAgain, WriteShutdown, WriteDone, UpdateWrite, EventHandled,
       disconnect_from_client, h2Vars, kernelVars, modeVars, sessionVars,
       sslVars
  <2>. QED BY <2>1 DEF OutputInv
<1>. QED BY <1>1, <1>2, <1>3, <1>4, <1>5, <1>6
  DEF Next, Worker, Client, Setup, Handshake, handle_read, handle_write

\* SentInv: the worker sleeps on what could not be sent.
LEMMA NextSent ==
    ASSUME TypeOK, PhaseInv, SentInv, Next PROVE SentInv'
<1>1. CASE NewConnection
  BY <1>1 DEF NewConnection, modeVars, kernelVars, sslVars, h2Vars,
     sessionVars, SentInv, PhaseInv, Established, want_write, Disconnecting,
     should_close_after_disconnect, TypeOK
<1>2. CASE SslAcceptReads
  BY <1>2 DEF SslAcceptReads, Disconnect, modeVars, h2Vars, sessionVars,
     SentInv, PhaseInv, Established, want_write, Disconnecting,
     should_close_after_disconnect, TypeOK
<1>3. CASE SslAcceptWaits
  BY <1>3 DEF SslAcceptWaits, modeVars, h2Vars, sessionVars, SentInv,
     PhaseInv, Established, want_write, Disconnecting,
     should_close_after_disconnect, TypeOK
<1>4. CASE SslAcceptFails
  BY <1>4 DEF SslAcceptFails, Disconnect, modeVars, kernelVars, sslVars,
     h2Vars, sessionVars, SentInv, PhaseInv, Established, want_write,
     Disconnecting, should_close_after_disconnect, TypeOK
<1>5. CASE SslAcceptDone
  BY <1>5 DEF SslAcceptDone, modeVars, kernelVars, h2Vars, sessionVars,
     SentInv, PhaseInv, Established, want_write, Disconnecting,
     should_close_after_disconnect, TypeOK
<1>6. CASE update_ssl_handshake_events
  BY <1>6 DEF update_ssl_handshake_events, update_event, Polled, modeVars,
     sslVars, h2Vars, SentInv, PhaseInv, Established, want_write,
     Disconnecting, should_close_after_disconnect, TypeOK
<1>7. CASE establish_connection
  BY <1>7 DEF establish_connection, Disconnect, modeVars, kernelVars,
     sslVars, SentInv, PhaseInv, Established, want_write, Disconnecting,
     should_close_after_disconnect, TypeOK
<1>8. CASE UpdateNew
  BY <1>8 DEF UpdateNew, update_events, update_event, Polled, modeVars,
     sslVars, h2Vars, SentInv, PhaseInv, Established, want_write,
     Disconnecting, should_close_after_disconnect, TypeOK
<1>9. CASE EpollWait
  BY <1>9 DEF EpollWait, Polled, modeVars, sslVars, h2Vars, sessionVars,
     SentInv, PhaseInv, Established, want_write, Disconnecting,
     should_close_after_disconnect, TypeOK
<1>10. CASE ReadAgain
  BY <1>10 DEF ReadAgain, modeVars, kernelVars, h2Vars, sessionVars,
     SentInv, PhaseInv, Established, want_write, Disconnecting,
     should_close_after_disconnect, TypeOK
<1>11. CASE ReadShutdown
  BY <1>11 DEF ReadShutdown, Disconnect, modeVars, kernelVars, sslVars,
     h2Vars, sessionVars, SentInv, PhaseInv, Established, want_write,
     Disconnecting, should_close_after_disconnect, TypeOK
<1>12. CASE Feed
  BY <1>12 DEF Feed, mem_recv2, on_frame_recv_callback, Disconnect,
     modeVars, kernelVars, sslVars, h2Vars, SentInv, PhaseInv, Established,
     want_write, Disconnecting, should_close_after_disconnect, TypeOK
<1>13. CASE FeedDone
  BY <1>13 DEF FeedDone, modeVars, kernelVars, sslVars, h2Vars,
     sessionVars, SentInv, PhaseInv, Established, want_write, Disconnecting,
     should_close_after_disconnect, TypeOK
<1>14. CASE UpdateRead
  BY <1>14 DEF UpdateRead, update_events, update_event, Polled, Disconnect,
     modeVars, sslVars, h2Vars, SentInv, PhaseInv, Established, want_write,
     Disconnecting, should_close_after_disconnect, TypeOK
<1>15. CASE FillOutput
  <2>1. /\ control' = 0 /\ body' = body - Allowed /\ window' = window - Allowed
        /\ term' = term /\ pc' = "write"
    BY <1>15 DEF FillOutput
  <2>2. ~want_write'
    BY <2>1, AllowedBound, Numbers DEF want_write
  <2>. QED BY <2>1, <2>2 DEF SentInv
<1>16. CASE WriteSome
  BY <1>16 DEF WriteSome, modeVars, sslVars, h2Vars, SentInv, PhaseInv,
     Established, want_write, Disconnecting, should_close_after_disconnect,
     TypeOK
<1>17. CASE SslWriteSome
  BY <1>17 DEF SslWriteSome, modeVars, h2Vars, SentInv, PhaseInv,
     Established, want_write, Disconnecting, should_close_after_disconnect,
     TypeOK
<1>18. CASE WriteAgain
  BY <1>18 DEF WriteAgain, modeVars, h2Vars, sessionVars, SentInv,
     PhaseInv, Established, want_write, Disconnecting,
     should_close_after_disconnect, TypeOK
<1>19. CASE WriteShutdown
  BY <1>19 DEF WriteShutdown, Disconnect, modeVars, kernelVars, sslVars,
     h2Vars, sessionVars, SentInv, PhaseInv, Established, want_write,
     Disconnecting, should_close_after_disconnect, TypeOK
<1>20. CASE WriteDone
  BY <1>20 DEF WriteDone, modeVars, kernelVars, sslVars, h2Vars,
     sessionVars, SentInv, PhaseInv, Established, want_write, Disconnecting,
     should_close_after_disconnect, TypeOK
<1>21. CASE UpdateWrite
  BY <1>21 DEF UpdateWrite, update_events, update_event, Polled,
     Disconnect, modeVars, sslVars, h2Vars, SentInv, PhaseInv, Established,
     want_write, Disconnecting, should_close_after_disconnect, TypeOK
<1>22. CASE EventHandled
  BY <1>22 DEF EventHandled, Disconnect, modeVars, kernelVars, sslVars,
     h2Vars, sessionVars, SentInv, PhaseInv, Established, want_write,
     Disconnecting, should_close_after_disconnect, TypeOK
<1>23. CASE disconnect_from_client
  BY <1>23 DEF disconnect_from_client, modeVars, sslVars, h2Vars,
     sessionVars, SentInv, PhaseInv, Established, want_write, Disconnecting,
     should_close_after_disconnect, TypeOK
<1>24. CASE ClientSends \/ ClientReads \/ ClientCloses \/ ClientResets \/
            SslAcceptWrites \/ ReadSome
  <2>1. UNCHANGED <<control, body, window, term, state, output, pc>>
    BY <1>24 DEF ClientSends, ClientReads, ClientCloses, ClientResets,
       SslAcceptWrites, ReadSome, h2Vars, modeVars, sessionVars, sslVars
  <2>. QED BY <2>1 DEF SentInv, Established, want_write, Disconnecting,
           should_close_after_disconnect
<1>. QED BY <1>1, <1>2, <1>3, <1>4, <1>5, <1>6, <1>7, <1>8, <1>9, <1>10, <1>11,
         <1>12, <1>13, <1>14, <1>15, <1>16, <1>17, <1>18, <1>19, <1>20, <1>21,
         <1>22, <1>23, <1>24
  DEF Next, Worker, Client, Setup, Handshake, handle_read, handle_write

\* CauseInv: after a GOAWAY the connection ends with nothing to send.
LEMMA NextCause ==
    ASSUME TypeOK, CauseInv, Next PROVE CauseInv'
<1>1. CASE NewConnection
  BY <1>1 DEF NewConnection, modeVars, kernelVars, sslVars, h2Vars,
     sessionVars, CauseInv, want_write, Disconnecting,
     should_close_after_disconnect, TypeOK
<1>2. CASE SslAcceptReads
  BY <1>2 DEF SslAcceptReads, Disconnect, modeVars, h2Vars, sessionVars,
     CauseInv, want_write, Disconnecting, should_close_after_disconnect,
     TypeOK
<1>3. CASE SslAcceptWaits
  BY <1>3 DEF SslAcceptWaits, modeVars, h2Vars, sessionVars, CauseInv,
     want_write, Disconnecting, should_close_after_disconnect, TypeOK
<1>4. CASE SslAcceptFails
  BY <1>4 DEF SslAcceptFails, Disconnect, modeVars, kernelVars, sslVars,
     h2Vars, sessionVars, CauseInv, want_write, Disconnecting,
     should_close_after_disconnect, TypeOK
<1>5. CASE SslAcceptDone
  BY <1>5 DEF SslAcceptDone, modeVars, kernelVars, h2Vars, sessionVars,
     CauseInv, want_write, Disconnecting, should_close_after_disconnect,
     TypeOK
<1>6. CASE update_ssl_handshake_events
  BY <1>6 DEF update_ssl_handshake_events, update_event, Polled, modeVars,
     sslVars, h2Vars, CauseInv, want_write, Disconnecting,
     should_close_after_disconnect, TypeOK
<1>7. CASE establish_connection
  BY <1>7 DEF establish_connection, Disconnect, modeVars, kernelVars,
     sslVars, CauseInv, want_write, Disconnecting,
     should_close_after_disconnect, TypeOK
<1>8. CASE UpdateNew
  BY <1>8 DEF UpdateNew, update_events, update_event, Polled, modeVars,
     sslVars, h2Vars, CauseInv, want_write, Disconnecting,
     should_close_after_disconnect, TypeOK
<1>9. CASE EpollWait
  BY <1>9 DEF EpollWait, Polled, modeVars, sslVars, h2Vars, sessionVars,
     CauseInv, want_write, Disconnecting, should_close_after_disconnect,
     TypeOK
<1>10. CASE ReadAgain
  BY <1>10 DEF ReadAgain, modeVars, kernelVars, h2Vars, sessionVars,
     CauseInv, want_write, Disconnecting, should_close_after_disconnect,
     TypeOK
<1>11. CASE ReadShutdown
  BY <1>11 DEF ReadShutdown, Disconnect, modeVars, kernelVars, sslVars,
     h2Vars, sessionVars, CauseInv, want_write, Disconnecting,
     should_close_after_disconnect, TypeOK
<1>12. CASE Feed
  BY <1>12 DEF Feed, mem_recv2, on_frame_recv_callback, Disconnect,
     modeVars, kernelVars, sslVars, h2Vars, CauseInv, want_write,
     Disconnecting, should_close_after_disconnect, TypeOK
<1>13. CASE FeedDone
  BY <1>13 DEF FeedDone, modeVars, kernelVars, sslVars, h2Vars,
     sessionVars, CauseInv, want_write, Disconnecting,
     should_close_after_disconnect, TypeOK
<1>14. CASE UpdateRead
  BY <1>14 DEF UpdateRead, update_events, update_event, Polled, Disconnect,
     modeVars, sslVars, h2Vars, CauseInv, want_write, Disconnecting,
     should_close_after_disconnect, TypeOK
<1>15. CASE FillOutput
  BY <1>15 DEF FillOutput, modeVars, kernelVars, CauseInv, want_write,
     Disconnecting, should_close_after_disconnect, TypeOK
<1>16. CASE WriteSome
  BY <1>16 DEF WriteSome, modeVars, sslVars, h2Vars, CauseInv, want_write,
     Disconnecting, should_close_after_disconnect, TypeOK
<1>17. CASE SslWriteSome
  BY <1>17 DEF SslWriteSome, modeVars, h2Vars, CauseInv, want_write,
     Disconnecting, should_close_after_disconnect, TypeOK
<1>18. CASE WriteAgain
  BY <1>18 DEF WriteAgain, modeVars, h2Vars, sessionVars, CauseInv,
     want_write, Disconnecting, should_close_after_disconnect, TypeOK
<1>19. CASE WriteShutdown
  BY <1>19 DEF WriteShutdown, Disconnect, modeVars, kernelVars, sslVars,
     h2Vars, sessionVars, CauseInv, want_write, Disconnecting,
     should_close_after_disconnect, TypeOK
<1>20. CASE WriteDone
  BY <1>20 DEF WriteDone, modeVars, kernelVars, sslVars, h2Vars,
     sessionVars, CauseInv, want_write, Disconnecting,
     should_close_after_disconnect, TypeOK
<1>21. CASE UpdateWrite
  BY <1>21 DEF UpdateWrite, update_events, update_event, Polled,
     Disconnect, modeVars, sslVars, h2Vars, CauseInv, want_write,
     Disconnecting, should_close_after_disconnect, TypeOK
<1>22. CASE EventHandled
  BY <1>22 DEF EventHandled, Disconnect, modeVars, kernelVars, sslVars,
     h2Vars, sessionVars, CauseInv, want_write, Disconnecting,
     should_close_after_disconnect, TypeOK
<1>23. CASE disconnect_from_client
  BY <1>23 DEF disconnect_from_client, modeVars, sslVars, h2Vars,
     sessionVars, CauseInv, want_write, Disconnecting,
     should_close_after_disconnect, TypeOK
<1>24. CASE ClientSends \/ ClientReads \/ ClientCloses \/ ClientResets \/
            SslAcceptWrites \/ ReadSome
  <2>1. UNCHANGED <<control, body, window, term, state, output, pc, cause>>
    BY <1>24 DEF ClientSends, ClientReads, ClientCloses, ClientResets,
       SslAcceptWrites, ReadSome, h2Vars, modeVars, sessionVars, sslVars
  <2>. QED BY <2>1 DEF CauseInv, want_write, Disconnecting,
           should_close_after_disconnect
<1>. QED BY <1>1, <1>2, <1>3, <1>4, <1>5, <1>6, <1>7, <1>8, <1>9, <1>10, <1>11,
         <1>12, <1>13, <1>14, <1>15, <1>16, <1>17, <1>18, <1>19, <1>20, <1>21,
         <1>22, <1>23, <1>24
  DEF Next, Worker, Client, Setup, Handshake, handle_read, handle_write

\* InterestInv: what the worker sleeps on is what the session needs.
LEMMA NextInterest ==
    ASSUME TypeOK, PhaseInv, InterestInv, Next PROVE InterestInv'
<1>1. CASE NewConnection
  BY <1>1 DEF NewConnection, modeVars, kernelVars, sslVars, h2Vars,
     sessionVars, InterestInv, PhaseInv, Established, Opening, CloseEvents,
     TypeOK
<1>2. CASE SslAcceptReads
  BY <1>2 DEF SslAcceptReads, Disconnect, modeVars, h2Vars, sessionVars,
     InterestInv, PhaseInv, Established, Opening, CloseEvents, TypeOK
<1>3. CASE SslAcceptWaits
  BY <1>3 DEF SslAcceptWaits, modeVars, h2Vars, sessionVars, InterestInv,
     PhaseInv, Established, Opening, CloseEvents, TypeOK
<1>4. CASE SslAcceptFails
  BY <1>4 DEF SslAcceptFails, Disconnect, modeVars, kernelVars, sslVars,
     h2Vars, sessionVars, InterestInv, PhaseInv, Established, Opening,
     CloseEvents, TypeOK
<1>5. CASE SslAcceptDone
  BY <1>5 DEF SslAcceptDone, modeVars, kernelVars, h2Vars, sessionVars,
     InterestInv, PhaseInv, Established, Opening, CloseEvents, TypeOK
<1>6. CASE update_ssl_handshake_events
  BY <1>6 DEF update_ssl_handshake_events, update_event, Polled, modeVars,
     sslVars, h2Vars, InterestInv, PhaseInv, Established, Opening, CloseEvents,
     TypeOK
<1>7. CASE establish_connection
  BY <1>7 DEF establish_connection, Disconnect, modeVars, kernelVars,
     sslVars, InterestInv, PhaseInv, Established, Opening, CloseEvents, TypeOK
<1>8. CASE UpdateNew
  <2>1. /\ pc = "update_new" /\ update_event(ReadEvents \cup WriteEvents) /\ Established
        /\ UNCHANGED <<tls, want, control, body, window, term, state, output>>
        /\ pc' \in {"epoll_wait"}
    BY <1>8 DEF UpdateNew, update_events, Disconnect, modeVars, sslVars, h2Vars,
       PhaseInv, Established
  <2>2. ReadEvents' = ReadEvents /\ WriteEvents' = WriteEvents
    BY <2>1 DEF ReadEvents, WriteEvents, want_read, want_write, Disconnecting
  <2>3. interest # {} \/ ReadEvents \cup WriteEvents # {}
    BY <2>1, FirstEvents DEF InterestInv, Opening
  <2>4. /\ events' = ReadEvents \cup WriteEvents
        /\ interest' = ReadEvents \cup WriteEvents \cup CloseEvents
    BY <2>1, <2>3, UpdateEvent
  <2>. QED BY <2>1, <2>2, <2>4 DEF InterestInv, Opening, CloseEvents, Established
<1>9. CASE EpollWait
  <2>1. /\ pc = "epoll_wait"
        /\ UNCHANGED <<interest, events, state, control, body, window, term, want, output, tls>>
        /\ pc' \in {"epoll_wait", "ssl_accept", "read", "fill"}
        /\ pc' = "ssl_accept" => state = "TLS_HANDSHAKING"
    BY <1>9 DEF EpollWait, modeVars, sslVars, h2Vars, sessionVars
  <2>2. ReadEvents' = ReadEvents /\ WriteEvents' = WriteEvents
    BY <2>1 DEF ReadEvents, WriteEvents, want_read, want_write, Disconnecting
  <2>. QED BY <2>1, <2>2 DEF InterestInv, Opening, Established
<1>10. CASE ReadSome
  BY <1>10 DEF ReadSome, modeVars, h2Vars, InterestInv, PhaseInv,
     Established, Opening, CloseEvents, TypeOK
<1>11. CASE ReadAgain
  BY <1>11 DEF ReadAgain, modeVars, kernelVars, h2Vars, sessionVars,
     InterestInv, PhaseInv, Established, Opening, CloseEvents, TypeOK
<1>12. CASE ReadShutdown
  BY <1>12 DEF ReadShutdown, Disconnect, modeVars, kernelVars, sslVars,
     h2Vars, sessionVars, InterestInv, PhaseInv, Established, Opening,
     CloseEvents, TypeOK
<1>13. CASE Feed
  BY <1>13 DEF Feed, mem_recv2, on_frame_recv_callback, Disconnect,
     modeVars, kernelVars, sslVars, h2Vars, InterestInv, PhaseInv,
     Established, Opening, CloseEvents, TypeOK
<1>14. CASE FeedDone
  BY <1>14 DEF FeedDone, modeVars, kernelVars, sslVars, h2Vars,
     sessionVars, InterestInv, PhaseInv, Established, Opening, CloseEvents,
     TypeOK
<1>15. CASE UpdateRead
  <2>1. /\ pc = "update_read" /\ update_event(ReadEvents \cup WriteEvents) /\ Established
        /\ UNCHANGED <<tls, want, control, body, window, term, state, output>>
        /\ pc' \in {"fill", "handled", "disconnect"}
    BY <1>15 DEF UpdateRead, update_events, Disconnect, modeVars, sslVars, h2Vars,
       PhaseInv, Established
  <2>2. ReadEvents' = ReadEvents /\ WriteEvents' = WriteEvents
    BY <2>1 DEF ReadEvents, WriteEvents, want_read, want_write, Disconnecting
  <2>3. interest # {} \/ ReadEvents \cup WriteEvents # {}
    BY <2>1 DEF InterestInv, Opening
  <2>4. /\ events' = ReadEvents \cup WriteEvents
        /\ interest' = ReadEvents \cup WriteEvents \cup CloseEvents
    BY <2>1, <2>3, UpdateEvent
  <2>. QED BY <2>1, <2>2, <2>4 DEF InterestInv, Opening, CloseEvents, Established
<1>16. CASE FillOutput
  BY <1>16 DEF FillOutput, modeVars, kernelVars, InterestInv, PhaseInv,
     Established, Opening, CloseEvents, TypeOK
<1>17. CASE WriteSome
  BY <1>17 DEF WriteSome, modeVars, sslVars, h2Vars, InterestInv, PhaseInv,
     Established, Opening, CloseEvents, TypeOK
<1>18. CASE SslWriteSome
  BY <1>18 DEF SslWriteSome, modeVars, h2Vars, InterestInv, PhaseInv,
     Established, Opening, CloseEvents, TypeOK
<1>19. CASE WriteAgain
  BY <1>19 DEF WriteAgain, modeVars, h2Vars, sessionVars, InterestInv,
     PhaseInv, Established, Opening, CloseEvents, TypeOK
<1>20. CASE WriteShutdown
  BY <1>20 DEF WriteShutdown, Disconnect, modeVars, kernelVars, sslVars,
     h2Vars, sessionVars, InterestInv, PhaseInv, Established, Opening,
     CloseEvents, TypeOK
<1>21. CASE WriteDone
  BY <1>21 DEF WriteDone, modeVars, kernelVars, sslVars, h2Vars,
     sessionVars, InterestInv, PhaseInv, Established, Opening, CloseEvents,
     TypeOK
<1>22. CASE UpdateWrite
  <2>1. /\ pc = "update_write" /\ update_event(ReadEvents \cup WriteEvents) /\ Established
        /\ UNCHANGED <<tls, want, control, body, window, term, state, output>>
        /\ pc' \in {"handled", "disconnect"}
    BY <1>22 DEF UpdateWrite, update_events, Disconnect, modeVars, sslVars, h2Vars,
       PhaseInv, Established
  <2>2. ReadEvents' = ReadEvents /\ WriteEvents' = WriteEvents
    BY <2>1 DEF ReadEvents, WriteEvents, want_read, want_write, Disconnecting
  <2>3. interest # {} \/ ReadEvents \cup WriteEvents # {}
    BY <2>1 DEF InterestInv, Opening
  <2>4. /\ events' = ReadEvents \cup WriteEvents
        /\ interest' = ReadEvents \cup WriteEvents \cup CloseEvents
    BY <2>1, <2>3, UpdateEvent
  <2>. QED BY <2>1, <2>2, <2>4 DEF InterestInv, Opening, CloseEvents, Established
<1>23. CASE EventHandled
  <2>1. /\ pc = "handled" /\ Established
        /\ UNCHANGED <<interest, events, state, control, body, window, term, want, output, tls>>
        /\ pc' \in {"epoll_wait", "disconnect"}
    BY <1>23 DEF EventHandled, Disconnect, modeVars, kernelVars, sslVars, h2Vars, sessionVars,
              PhaseInv
  <2>2. ReadEvents' = ReadEvents /\ WriteEvents' = WriteEvents
    BY <2>1 DEF ReadEvents, WriteEvents, want_read, want_write, Disconnecting
  <2>. QED BY <2>1, <2>2 DEF InterestInv, Opening, Established
<1>24. CASE disconnect_from_client
  BY <1>24 DEF disconnect_from_client, modeVars, sslVars, h2Vars,
     sessionVars, InterestInv, PhaseInv, Established, Opening, CloseEvents,
     TypeOK
<1>25. CASE ClientSends \/ ClientReads \/ ClientCloses \/ ClientResets \/
            SslAcceptWrites
  <2>1. UNCHANGED <<tls, interest, want, control, body, window, term, state, events,
                    output, pc>>
    BY <1>25 DEF ClientSends, ClientReads, ClientCloses, ClientResets,
       SslAcceptWrites, h2Vars, modeVars, sessionVars, sslVars
  <2>. QED BY <2>1 DEF InterestInv, Established, Opening, CloseEvents,
           ReadEvents, WriteEvents, want_read, want_write, Disconnecting
<1>. QED BY <1>1, <1>2, <1>3, <1>4, <1>5, <1>6, <1>7, <1>8, <1>9, <1>10, <1>11,
         <1>12, <1>13, <1>14, <1>15, <1>16, <1>17, <1>18, <1>19, <1>20, <1>21,
         <1>22, <1>23, <1>24, <1>25
  DEF Next, Worker, Client, Setup, Handshake, handle_read, handle_write

(***************************************************************************)
(* A registration: what it leaves alone and what it makes epoll report.    *)
(***************************************************************************)
Registers ==
    update_ssl_handshake_events \/ UpdateNew \/ UpdateRead \/ UpdateWrite

\* A registration that the kernel gets to know of reports what is ready, and
\* one that it does not get to know of changes nothing.
LEMMA Registration ==
    ASSUME TypeOK, PhaseInv, InterestInv, Registers
    PROVE  /\ UNCHANGED <<tls, rcv, fin, reset, space, hstate, want, control, body,
                          window, term, output>>
           /\ ready => ready'
           /\ interest' = events' \cup CloseEvents
           /\ pc = "update_handshake" /\ want = "write" => events' = {"OUT"}
           /\ \/ /\ reset \/ fin => ready'
                 /\ rcv # <<>> /\ "IN" \in events' => ready'
                 /\ "OUT" \in events' => ready' \/ (space = 0 /\ nospace')
              \/ /\ interest # {} /\ pc # "update_new"
                 /\ UNCHANGED <<events, interest, ready, nospace>>
<1>. DEFINE e == IF pc = "update_handshake"
                 THEN IF want = "write" THEN {"OUT"} ELSE {"IN"}
                 ELSE ReadEvents \cup WriteEvents
<1>1. /\ UNCHANGED <<tls, rcv, fin, reset, space, hstate, want, control, body, window,
                     term, output>>
      /\ pc \in {"update_handshake", "update_new", "update_read", "update_write"}
      /\ update_event(e)
  BY DEF Registers, update_ssl_handshake_events, UpdateNew, UpdateRead, UpdateWrite,
         update_events, modeVars, sslVars, h2Vars
<1>2. e # {} \/ interest # {}
  BY <1>1, FirstEvents DEF InterestInv, Opening
<1>3. /\ events' = e
      /\ interest' = e \cup CloseEvents
      /\ events = e => UNCHANGED <<interest, ready, nospace>>
      /\ events # e => /\ ready' = (ready \/ Poll \cap (e \cup CloseEvents) # {})
                        /\ nospace' = (nospace \/ space = 0)
  BY <1>1, <1>2, UpdateEvent
<1>4. events = e => interest # {} /\ pc # "update_new"
  BY <1>1, <1>2, FirstEvents DEF InterestInv, Opening
<1>5. /\ reset \/ fin => Poll \cap (e \cup CloseEvents) # {}
      /\ rcv # <<>> /\ "IN" \in e => Poll \cap (e \cup CloseEvents) # {}
      /\ space > 0 /\ "OUT" \in e => Poll \cap (e \cup CloseEvents) # {}
  BY Polls
<1>6. space > 0 \/ space = 0
  BY DEF TypeOK
<1>9. pc = "update_handshake" /\ want = "write" => e = {"OUT"}
  OBVIOUS
<1>. HIDE DEF e
<1>7. CASE events = e
  BY <1>1, <1>3, <1>4, <1>7, <1>9
<1>8. CASE events # e
  BY <1>1, <1>3, <1>5, <1>6, <1>8, <1>9
<1>. QED BY <1>7, <1>8

\* ResetSeen: a reset is acted on or going to be reported.
LEMMA NextReset ==
    ASSUME TypeOK, FlightInv, PhaseInv, InterestInv, ResetSeen, Next PROVE ResetSeen'
<1>1. CASE ClientSends
  BY <1>1 DEF ClientSends, Arrival, modeVars, sslVars, h2Vars, sessionVars,
     ResetSeen, PhaseInv, InterestInv, CloseEvents, Opening, Registered, Poll,
     TypeOK
<1>2. CASE ClientReads
  BY <1>2 DEF ClientReads, Arrival, modeVars, sslVars, h2Vars, sessionVars,
     ResetSeen, PhaseInv, InterestInv, CloseEvents, Opening, Registered, Poll,
     TypeOK
<1>3. CASE ClientCloses
  BY <1>3 DEF ClientCloses, Arrival, modeVars, sslVars, h2Vars,
     sessionVars, ResetSeen, PhaseInv, InterestInv, CloseEvents, Opening,
     Registered, Poll, TypeOK
<1>4. CASE ClientResets
  BY <1>4 DEF ClientResets, Arrival, modeVars, sslVars, h2Vars,
     sessionVars, ResetSeen, PhaseInv, InterestInv, CloseEvents, Opening,
     Registered, Poll, TypeOK
<1>5. CASE NewConnection
  BY <1>5 DEF NewConnection, modeVars, kernelVars, sslVars, h2Vars,
     sessionVars, ResetSeen, PhaseInv, InterestInv, CloseEvents, Opening,
     Registered, Poll, TypeOK
<1>6. CASE SslAcceptReads
  BY <1>6 DEF SslAcceptReads, Disconnect, modeVars, h2Vars, sessionVars,
     FlightInv, Flight, ResetSeen, PhaseInv, InterestInv, CloseEvents, Opening,
     Registered, Poll, TypeOK
<1>7. CASE SslAcceptWrites
  BY <1>7 DEF SslAcceptWrites, modeVars, h2Vars, sessionVars, ResetSeen,
     PhaseInv, InterestInv, CloseEvents, Opening, Registered, Poll, TypeOK
<1>8. CASE SslAcceptWaits
  BY <1>8 DEF SslAcceptWaits, modeVars, h2Vars, sessionVars, ResetSeen,
     PhaseInv, InterestInv, CloseEvents, Opening, Registered, Poll, TypeOK
<1>9. CASE SslAcceptFails
  BY <1>9 DEF SslAcceptFails, Disconnect, modeVars, kernelVars, sslVars,
     h2Vars, sessionVars, ResetSeen, PhaseInv, InterestInv, CloseEvents,
     Opening, Registered, Poll, TypeOK
<1>10. CASE SslAcceptDone
  BY <1>10 DEF SslAcceptDone, modeVars, kernelVars, h2Vars, sessionVars,
     ResetSeen, PhaseInv, InterestInv, CloseEvents, Opening, Registered, Poll,
     TypeOK
<1>11. CASE update_ssl_handshake_events
  <2>1. Registers
    BY <1>11 DEF Registers
  <2>2. pc = "update_handshake" /\ pc' \in {"epoll_wait"} /\ state' = "TLS_HANDSHAKING"
    BY <1>11 DEF update_ssl_handshake_events
  <2>. QED BY <2>1, <2>2, Registration DEF ResetSeen
<1>12. CASE establish_connection
  BY <1>12 DEF establish_connection, Disconnect, modeVars, kernelVars,
     sslVars, ResetSeen, PhaseInv, InterestInv, CloseEvents, Opening,
     Registered, Poll, TypeOK
<1>13. CASE UpdateNew
  <2>1. Registers
    BY <1>13 DEF Registers
  <2>2. pc = "update_new" /\ pc' \in {"epoll_wait"} /\ state' = state
    BY <1>13 DEF UpdateNew
  <2>. QED BY <2>1, <2>2, Registration DEF ResetSeen
<1>14. CASE EpollWait
  BY <1>14 DEF EpollWait, Polled, modeVars, sslVars, h2Vars, sessionVars,
     ResetSeen, PhaseInv, InterestInv, CloseEvents, Opening, Registered, Poll,
     TypeOK
<1>15. CASE ReadAgain
  BY <1>15 DEF ReadAgain, modeVars, kernelVars, h2Vars, sessionVars,
     ResetSeen, PhaseInv, InterestInv, CloseEvents, Opening, Registered, Poll,
     TypeOK
<1>16. CASE ReadShutdown
  BY <1>16 DEF ReadShutdown, Disconnect, modeVars, kernelVars, sslVars,
     h2Vars, sessionVars, ResetSeen, PhaseInv, InterestInv, CloseEvents,
     Opening, Registered, Poll, TypeOK
<1>17. CASE Feed
  BY <1>17 DEF Feed, mem_recv2, on_frame_recv_callback, Disconnect,
     modeVars, kernelVars, sslVars, h2Vars, ResetSeen, PhaseInv, InterestInv,
     CloseEvents, Opening, Registered, Poll, TypeOK
<1>18. CASE FeedDone
  BY <1>18 DEF FeedDone, modeVars, kernelVars, sslVars, h2Vars,
     sessionVars, ResetSeen, PhaseInv, InterestInv, CloseEvents, Opening,
     Registered, Poll, TypeOK
<1>19. CASE UpdateRead
  <2>1. Registers
    BY <1>19 DEF Registers
  <2>2. pc = "update_read" /\ pc' \in {"fill", "handled", "disconnect"} /\ state' = state
    BY <1>19 DEF UpdateRead, Disconnect
  <2>. QED BY <2>1, <2>2, Registration DEF ResetSeen
<1>20. CASE FillOutput
  BY <1>20 DEF FillOutput, modeVars, kernelVars, ResetSeen, PhaseInv,
     InterestInv, CloseEvents, Opening, Registered, Poll, TypeOK
<1>21. CASE WriteAgain
  BY <1>21 DEF WriteAgain, modeVars, h2Vars, sessionVars, ResetSeen,
     PhaseInv, InterestInv, CloseEvents, Opening, Registered, Poll, TypeOK
<1>22. CASE WriteShutdown
  BY <1>22 DEF WriteShutdown, Disconnect, modeVars, kernelVars, sslVars,
     h2Vars, sessionVars, ResetSeen, PhaseInv, InterestInv, CloseEvents,
     Opening, Registered, Poll, TypeOK
<1>23. CASE WriteDone
  BY <1>23 DEF WriteDone, modeVars, kernelVars, sslVars, h2Vars,
     sessionVars, ResetSeen, PhaseInv, InterestInv, CloseEvents, Opening,
     Registered, Poll, TypeOK
<1>24. CASE UpdateWrite
  <2>1. Registers
    BY <1>24 DEF Registers
  <2>2. pc = "update_write" /\ pc' \in {"handled", "disconnect"} /\ state' = state
    BY <1>24 DEF UpdateWrite, Disconnect
  <2>. QED BY <2>1, <2>2, Registration DEF ResetSeen
<1>25. CASE EventHandled
  BY <1>25 DEF EventHandled, Disconnect, modeVars, kernelVars, sslVars,
     h2Vars, sessionVars, ResetSeen, PhaseInv, InterestInv, CloseEvents,
     Opening, Registered, Poll, TypeOK
<1>26. CASE disconnect_from_client
  BY <1>26 DEF disconnect_from_client, modeVars, sslVars, h2Vars,
     sessionVars, ResetSeen, PhaseInv, InterestInv, CloseEvents, Opening,
     Registered, Poll, TypeOK
<1>27. CASE ReadSome \/ WriteSome \/ SslWriteSome
  <2>1. UNCHANGED <<reset, interest, ready, hstate, pc>>
    BY <1>27 DEF ReadSome, WriteSome, SslWriteSome, h2Vars, modeVars,
       sslVars
  <2>. QED BY <2>1 DEF ResetSeen, InterestInv, CloseEvents, Opening,
           Registered, Poll
<1>. QED BY <1>1, <1>2, <1>3, <1>4, <1>5, <1>6, <1>7, <1>8, <1>9, <1>10, <1>11,
         <1>12, <1>13, <1>14, <1>15, <1>16, <1>17, <1>18, <1>19, <1>20, <1>21,
         <1>22, <1>23, <1>24, <1>25, <1>26, <1>27
  DEF Next, Worker, Client, Setup, Handshake, handle_read, handle_write

\* FinSeen: the end of the stream is acted on or going to be reported.
LEMMA NextFin ==
    ASSUME TypeOK, PhaseInv, InterestInv, FinSeen, Next PROVE FinSeen'
<1>1. CASE ClientSends
  BY <1>1 DEF ClientSends, Arrival, modeVars, sslVars, h2Vars, sessionVars,
     FinSeen, PhaseInv, InterestInv, CloseEvents, Opening, Registered, Poll,
     TypeOK
<1>2. CASE ClientReads
  BY <1>2 DEF ClientReads, Arrival, modeVars, sslVars, h2Vars, sessionVars,
     FinSeen, PhaseInv, InterestInv, CloseEvents, Opening, Registered, Poll,
     TypeOK
<1>3. CASE ClientCloses
  BY <1>3 DEF ClientCloses, Arrival, modeVars, sslVars, h2Vars,
     sessionVars, FinSeen, PhaseInv, InterestInv, CloseEvents, Opening,
     Registered, Poll, TypeOK
<1>4. CASE ClientResets
  BY <1>4 DEF ClientResets, Arrival, modeVars, sslVars, h2Vars,
     sessionVars, FinSeen, PhaseInv, InterestInv, CloseEvents, Opening,
     Registered, Poll, TypeOK
<1>5. CASE NewConnection
  BY <1>5 DEF NewConnection, modeVars, kernelVars, sslVars, h2Vars,
     sessionVars, FinSeen, PhaseInv, InterestInv, CloseEvents, Opening,
     Registered, Poll, TypeOK
<1>6. CASE SslAcceptReads
  BY <1>6 DEF SslAcceptReads, Disconnect, modeVars, h2Vars, sessionVars,
     FinSeen, PhaseInv, InterestInv, CloseEvents, Opening, Registered, Poll,
     TypeOK
<1>7. CASE SslAcceptWaits
  BY <1>7 DEF SslAcceptWaits, modeVars, h2Vars, sessionVars, FinSeen,
     PhaseInv, InterestInv, CloseEvents, Opening, Registered, Poll, TypeOK
<1>8. CASE SslAcceptFails
  BY <1>8 DEF SslAcceptFails, Disconnect, modeVars, kernelVars, sslVars,
     h2Vars, sessionVars, FinSeen, PhaseInv, InterestInv, CloseEvents, Opening,
     Registered, Poll, TypeOK
<1>9. CASE SslAcceptDone
  BY <1>9 DEF SslAcceptDone, modeVars, kernelVars, h2Vars, sessionVars,
     FinSeen, PhaseInv, InterestInv, CloseEvents, Opening, Registered, Poll,
     TypeOK
<1>10. CASE update_ssl_handshake_events
  <2>1. Registers
    BY <1>10 DEF Registers
  <2>2. pc = "update_handshake" /\ pc' \in {"epoll_wait"} /\ state' = "TLS_HANDSHAKING"
    BY <1>10 DEF update_ssl_handshake_events
  <2>. QED BY <2>1, <2>2, Registration DEF FinSeen, PhaseInv
<1>11. CASE establish_connection
  BY <1>11 DEF establish_connection, Disconnect, modeVars, kernelVars,
     sslVars, FinSeen, PhaseInv, InterestInv, CloseEvents, Opening, Registered,
     Poll, TypeOK
<1>12. CASE UpdateNew
  <2>1. Registers
    BY <1>12 DEF Registers
  <2>2. pc = "update_new" /\ pc' \in {"epoll_wait"} /\ state' = state
    BY <1>12 DEF UpdateNew
  <2>. QED BY <2>1, <2>2, Registration DEF FinSeen, PhaseInv
<1>13. CASE EpollWait
  BY <1>13 DEF EpollWait, Polled, modeVars, sslVars, h2Vars, sessionVars,
     FinSeen, PhaseInv, InterestInv, CloseEvents, Opening, Registered, Poll,
     TypeOK
<1>14. CASE ReadSome
  BY <1>14 DEF ReadSome, modeVars, h2Vars, FinSeen, PhaseInv, InterestInv,
     CloseEvents, Opening, Registered, Poll, TypeOK
<1>15. CASE ReadAgain
  BY <1>15 DEF ReadAgain, modeVars, kernelVars, h2Vars, sessionVars,
     FinSeen, PhaseInv, InterestInv, CloseEvents, Opening, Registered, Poll,
     TypeOK
<1>16. CASE ReadShutdown
  BY <1>16 DEF ReadShutdown, Disconnect, modeVars, kernelVars, sslVars,
     h2Vars, sessionVars, FinSeen, PhaseInv, InterestInv, CloseEvents, Opening,
     Registered, Poll, TypeOK
<1>17. CASE Feed
  BY <1>17 DEF Feed, mem_recv2, on_frame_recv_callback, Disconnect,
     modeVars, kernelVars, sslVars, h2Vars, FinSeen, PhaseInv, InterestInv,
     CloseEvents, Opening, Registered, Poll, TypeOK
<1>18. CASE FeedDone
  BY <1>18 DEF FeedDone, modeVars, kernelVars, sslVars, h2Vars,
     sessionVars, FinSeen, PhaseInv, InterestInv, CloseEvents, Opening,
     Registered, Poll, TypeOK
<1>19. CASE UpdateRead
  <2>1. Registers
    BY <1>19 DEF Registers
  <2>2. pc = "update_read" /\ pc' \in {"fill", "handled", "disconnect"} /\ state' = state
    BY <1>19 DEF UpdateRead, Disconnect
  <2>. QED BY <2>1, <2>2, Registration DEF FinSeen, PhaseInv
<1>20. CASE FillOutput
  BY <1>20 DEF FillOutput, modeVars, kernelVars, FinSeen, PhaseInv,
     InterestInv, CloseEvents, Opening, Registered, Poll, TypeOK
<1>21. CASE SslWriteSome
  BY <1>21 DEF SslWriteSome, modeVars, h2Vars, FinSeen, PhaseInv,
     InterestInv, CloseEvents, Opening, Registered, Poll, TypeOK
<1>22. CASE WriteAgain
  BY <1>22 DEF WriteAgain, modeVars, h2Vars, sessionVars, FinSeen,
     PhaseInv, InterestInv, CloseEvents, Opening, Registered, Poll, TypeOK
<1>23. CASE WriteShutdown
  BY <1>23 DEF WriteShutdown, Disconnect, modeVars, kernelVars, sslVars,
     h2Vars, sessionVars, FinSeen, PhaseInv, InterestInv, CloseEvents, Opening,
     Registered, Poll, TypeOK
<1>24. CASE WriteDone
  BY <1>24 DEF WriteDone, modeVars, kernelVars, sslVars, h2Vars,
     sessionVars, FinSeen, PhaseInv, InterestInv, CloseEvents, Opening,
     Registered, Poll, TypeOK
<1>25. CASE UpdateWrite
  <2>1. Registers
    BY <1>25 DEF Registers
  <2>2. pc = "update_write" /\ pc' \in {"handled", "disconnect"} /\ state' = state
    BY <1>25 DEF UpdateWrite, Disconnect
  <2>. QED BY <2>1, <2>2, Registration DEF FinSeen, PhaseInv
<1>26. CASE EventHandled
  BY <1>26 DEF EventHandled, Disconnect, modeVars, kernelVars, sslVars,
     h2Vars, sessionVars, FinSeen, PhaseInv, InterestInv, CloseEvents, Opening,
     Registered, Poll, TypeOK
<1>27. CASE disconnect_from_client
  BY <1>27 DEF disconnect_from_client, modeVars, sslVars, h2Vars,
     sessionVars, FinSeen, PhaseInv, InterestInv, CloseEvents, Opening,
     Registered, Poll, TypeOK
<1>28. CASE SslAcceptWrites \/ WriteSome
  <2>1. UNCHANGED <<fin, interest, ready, want, state, pc>>
    BY <1>28 DEF SslAcceptWrites, WriteSome, h2Vars, modeVars, sessionVars,
       sslVars
  <2>. QED BY <2>1 DEF FinSeen, InterestInv, CloseEvents, Opening, Registered,
           Poll
<1>. QED BY <1>1, <1>2, <1>3, <1>4, <1>5, <1>6, <1>7, <1>8, <1>9, <1>10, <1>11,
         <1>12, <1>13, <1>14, <1>15, <1>16, <1>17, <1>18, <1>19, <1>20, <1>21,
         <1>22, <1>23, <1>24, <1>25, <1>26, <1>27, <1>28
  DEF Next, Worker, Client, Setup, Handshake, handle_read, handle_write

\* RcvSeen: what is received is read or going to be reported.
LEMMA NextRcv ==
    ASSUME TypeOK, PhaseInv, InterestInv, RcvSeen, Next PROVE RcvSeen'
<1>1. CASE ClientSends
  BY <1>1 DEF ClientSends, Arrival, modeVars, sslVars, h2Vars, sessionVars,
     RcvSeen, PhaseInv, InterestInv, CloseEvents, Opening, Registered, Poll,
     TypeOK
<1>2. CASE ClientReads
  BY <1>2 DEF ClientReads, Arrival, modeVars, sslVars, h2Vars, sessionVars,
     RcvSeen, PhaseInv, InterestInv, CloseEvents, Opening, Registered, Poll,
     TypeOK
<1>3. CASE ClientCloses
  BY <1>3 DEF ClientCloses, Arrival, modeVars, sslVars, h2Vars,
     sessionVars, RcvSeen, PhaseInv, InterestInv, CloseEvents, Opening,
     Registered, Poll, TypeOK
<1>4. CASE ClientResets
  BY <1>4 DEF ClientResets, Arrival, modeVars, sslVars, h2Vars,
     sessionVars, RcvSeen, PhaseInv, InterestInv, CloseEvents, Opening,
     Registered, Poll, TypeOK
<1>5. CASE NewConnection
  BY <1>5 DEF NewConnection, modeVars, kernelVars, sslVars, h2Vars,
     sessionVars, RcvSeen, PhaseInv, InterestInv, CloseEvents, Opening,
     Registered, Poll, TypeOK
<1>6. CASE SslAcceptReads
  BY <1>6 DEF SslAcceptReads, Disconnect, modeVars, h2Vars, sessionVars,
     RcvSeen, PhaseInv, InterestInv, CloseEvents, Opening, Registered, Poll,
     TypeOK
<1>7. CASE SslAcceptWaits
  BY <1>7 DEF SslAcceptWaits, modeVars, h2Vars, sessionVars, RcvSeen,
     PhaseInv, InterestInv, CloseEvents, Opening, Registered, Poll, TypeOK
<1>8. CASE SslAcceptFails
  BY <1>8 DEF SslAcceptFails, Disconnect, modeVars, kernelVars, sslVars,
     h2Vars, sessionVars, RcvSeen, PhaseInv, InterestInv, CloseEvents, Opening,
     Registered, Poll, TypeOK
<1>9. CASE SslAcceptDone
  BY <1>9 DEF SslAcceptDone, modeVars, kernelVars, h2Vars, sessionVars,
     RcvSeen, PhaseInv, InterestInv, CloseEvents, Opening, Registered, Poll,
     TypeOK
<1>10. CASE update_ssl_handshake_events
  <2>1. Registers
    BY <1>10 DEF Registers
  <2>2. pc = "update_handshake" /\ pc' \in {"epoll_wait"} /\ state' = "TLS_HANDSHAKING"
    BY <1>10 DEF update_ssl_handshake_events
  <2>. QED BY <2>1, <2>2, Registration DEF RcvSeen, CloseEvents
<1>11. CASE establish_connection
  BY <1>11 DEF establish_connection, Disconnect, modeVars, kernelVars,
     sslVars, RcvSeen, PhaseInv, InterestInv, CloseEvents, Opening, Registered,
     Poll, TypeOK
<1>12. CASE UpdateNew
  <2>1. Registers
    BY <1>12 DEF Registers
  <2>2. pc = "update_new" /\ pc' \in {"epoll_wait"} /\ state' = state
    BY <1>12 DEF UpdateNew
  <2>. QED BY <2>1, <2>2, Registration DEF RcvSeen, CloseEvents
<1>13. CASE EpollWait
  BY <1>13 DEF EpollWait, Polled, modeVars, sslVars, h2Vars, sessionVars,
     RcvSeen, PhaseInv, InterestInv, CloseEvents, Opening, Registered, Poll,
     TypeOK
<1>14. CASE ReadSome
  BY <1>14 DEF ReadSome, modeVars, h2Vars, RcvSeen, PhaseInv, InterestInv,
     CloseEvents, Opening, Registered, Poll, TypeOK
<1>15. CASE ReadAgain
  BY <1>15 DEF ReadAgain, modeVars, kernelVars, h2Vars, sessionVars,
     RcvSeen, PhaseInv, InterestInv, CloseEvents, Opening, Registered, Poll,
     TypeOK
<1>16. CASE ReadShutdown
  BY <1>16 DEF ReadShutdown, Disconnect, modeVars, kernelVars, sslVars,
     h2Vars, sessionVars, RcvSeen, PhaseInv, InterestInv, CloseEvents, Opening,
     Registered, Poll, TypeOK
<1>17. CASE Feed
  BY <1>17 DEF Feed, mem_recv2, on_frame_recv_callback, Disconnect,
     modeVars, kernelVars, sslVars, h2Vars, RcvSeen, PhaseInv, InterestInv,
     CloseEvents, Opening, Registered, Poll, TypeOK
<1>18. CASE FeedDone
  BY <1>18 DEF FeedDone, modeVars, kernelVars, sslVars, h2Vars,
     sessionVars, RcvSeen, PhaseInv, InterestInv, CloseEvents, Opening,
     Registered, Poll, TypeOK
<1>19. CASE UpdateRead
  <2>1. Registers
    BY <1>19 DEF Registers
  <2>2. pc = "update_read" /\ pc' \in {"fill", "handled", "disconnect"} /\ state' = state
    BY <1>19 DEF UpdateRead, Disconnect
  <2>. QED BY <2>1, <2>2, Registration DEF RcvSeen, CloseEvents
<1>20. CASE FillOutput
  BY <1>20 DEF FillOutput, modeVars, kernelVars, RcvSeen, PhaseInv,
     InterestInv, CloseEvents, Opening, Registered, Poll, TypeOK
<1>21. CASE SslWriteSome
  BY <1>21 DEF SslWriteSome, modeVars, h2Vars, RcvSeen, PhaseInv,
     InterestInv, CloseEvents, Opening, Registered, Poll, TypeOK
<1>22. CASE WriteAgain
  BY <1>22 DEF WriteAgain, modeVars, h2Vars, sessionVars, RcvSeen,
     PhaseInv, InterestInv, CloseEvents, Opening, Registered, Poll, TypeOK
<1>23. CASE WriteShutdown
  BY <1>23 DEF WriteShutdown, Disconnect, modeVars, kernelVars, sslVars,
     h2Vars, sessionVars, RcvSeen, PhaseInv, InterestInv, CloseEvents, Opening,
     Registered, Poll, TypeOK
<1>24. CASE WriteDone
  BY <1>24 DEF WriteDone, modeVars, kernelVars, sslVars, h2Vars,
     sessionVars, RcvSeen, PhaseInv, InterestInv, CloseEvents, Opening,
     Registered, Poll, TypeOK
<1>25. CASE UpdateWrite
  <2>1. Registers
    BY <1>25 DEF Registers
  <2>2. pc = "update_write" /\ pc' \in {"handled", "disconnect"} /\ state' = state
    BY <1>25 DEF UpdateWrite, Disconnect
  <2>. QED BY <2>1, <2>2, Registration DEF RcvSeen, CloseEvents
<1>26. CASE EventHandled
  BY <1>26 DEF EventHandled, Disconnect, modeVars, kernelVars, sslVars,
     h2Vars, sessionVars, RcvSeen, PhaseInv, InterestInv, CloseEvents, Opening,
     Registered, Poll, TypeOK
<1>27. CASE disconnect_from_client
  BY <1>27 DEF disconnect_from_client, modeVars, sslVars, h2Vars,
     sessionVars, RcvSeen, PhaseInv, InterestInv, CloseEvents, Opening,
     Registered, Poll, TypeOK
<1>28. CASE SslAcceptWrites \/ WriteSome
  <2>1. UNCHANGED <<rcv, interest, ready, want, pc>>
    BY <1>28 DEF SslAcceptWrites, WriteSome, h2Vars, modeVars, sessionVars,
       sslVars
  <2>. QED BY <2>1 DEF RcvSeen, InterestInv, CloseEvents, Opening, Registered,
           Poll
<1>. QED BY <1>1, <1>2, <1>3, <1>4, <1>5, <1>6, <1>7, <1>8, <1>9, <1>10, <1>11,
         <1>12, <1>13, <1>14, <1>15, <1>16, <1>17, <1>18, <1>19, <1>20, <1>21,
         <1>22, <1>23, <1>24, <1>25, <1>26, <1>27, <1>28
  DEF Next, Worker, Client, Setup, Handshake, handle_read, handle_write

\* SpaceSeen: space for what waits is going to be reported.
LEMMA NextSpace ==
    ASSUME TypeOK, PhaseInv, SentInv, InterestInv, SpaceSeen, Next PROVE SpaceSeen'
<1>1. CASE ClientSends
  BY <1>1 DEF ClientSends, Arrival, modeVars, sslVars, h2Vars, sessionVars,
     SpaceSeen, SentInv, want_write, Established, PhaseInv, InterestInv,
     CloseEvents, Opening, Registered, Poll, TypeOK
<1>2. CASE ClientReads
  BY <1>2 DEF ClientReads, Arrival, modeVars, sslVars, h2Vars, sessionVars,
     SpaceSeen, SentInv, want_write, Established, PhaseInv, InterestInv,
     CloseEvents, Opening, Registered, Poll, TypeOK
<1>3. CASE ClientCloses
  BY <1>3 DEF ClientCloses, Arrival, modeVars, sslVars, h2Vars,
     sessionVars, SpaceSeen, SentInv, want_write, Established, PhaseInv,
     InterestInv, CloseEvents, Opening, Registered, Poll, TypeOK
<1>4. CASE ClientResets
  BY <1>4 DEF ClientResets, Arrival, modeVars, sslVars, h2Vars,
     sessionVars, SpaceSeen, SentInv, want_write, Established, PhaseInv,
     InterestInv, CloseEvents, Opening, Registered, Poll, TypeOK
<1>5. CASE NewConnection
  BY <1>5 DEF NewConnection, modeVars, kernelVars, sslVars, h2Vars,
     sessionVars, SpaceSeen, SentInv, want_write, Established, PhaseInv,
     InterestInv, CloseEvents, Opening, Registered, Poll, TypeOK
<1>6. CASE SslAcceptReads
  BY <1>6 DEF SslAcceptReads, Disconnect, modeVars, h2Vars, sessionVars,
     SpaceSeen, SentInv, want_write, Established, PhaseInv, InterestInv,
     CloseEvents, Opening, Registered, Poll, TypeOK
<1>7. CASE SslAcceptWrites
  BY <1>7 DEF SslAcceptWrites, modeVars, h2Vars, sessionVars, SpaceSeen,
     SentInv, want_write, Established, PhaseInv, InterestInv, CloseEvents,
     Opening, Registered, Poll, TypeOK
<1>8. CASE SslAcceptWaits
  BY <1>8 DEF SslAcceptWaits, modeVars, h2Vars, sessionVars, SpaceSeen,
     SentInv, want_write, Established, PhaseInv, InterestInv, CloseEvents,
     Opening, Registered, Poll, TypeOK
<1>9. CASE SslAcceptFails
  BY <1>9 DEF SslAcceptFails, Disconnect, modeVars, kernelVars, sslVars,
     h2Vars, sessionVars, SpaceSeen, SentInv, want_write, Established,
     PhaseInv, InterestInv, CloseEvents, Opening, Registered, Poll, TypeOK
<1>10. CASE SslAcceptDone
  BY <1>10 DEF SslAcceptDone, modeVars, kernelVars, h2Vars, sessionVars,
     SpaceSeen, SentInv, want_write, Established, PhaseInv, InterestInv,
     CloseEvents, Opening, Registered, Poll, TypeOK
<1>11. CASE update_ssl_handshake_events
  <2>1. Registers
    BY <1>11 DEF Registers
  <2>2. pc = "update_handshake" /\ pc' \in {"epoll_wait"} /\ state' = "TLS_HANDSHAKING"
    BY <1>11 DEF update_ssl_handshake_events
  <2>. QED BY <2>1, <2>2, Registration
             DEF SpaceSeen, PhaseInv, Established, CloseEvents, want_write
<1>12. CASE establish_connection
  BY <1>12 DEF establish_connection, Disconnect, modeVars, kernelVars,
     sslVars, SpaceSeen, SentInv, want_write, Established, PhaseInv,
     InterestInv, CloseEvents, Opening, Registered, Poll, TypeOK
<1>13. CASE UpdateNew
  <2>1. Registers
    BY <1>13 DEF Registers
  <2>2. pc = "update_new" /\ pc' \in {"epoll_wait"} /\ state' = state
    BY <1>13 DEF UpdateNew
  <2>. QED BY <2>1, <2>2, Registration
             DEF SpaceSeen, PhaseInv, Established, CloseEvents, want_write
<1>14. CASE EpollWait
  <2>1. CASE pc' # "epoll_wait"
    BY <1>14, <2>1 DEF EpollWait, SpaceSeen
  <2>2. CASE pc' = "epoll_wait"
    <3>1. Poll \cap interest = {} /\ nospace' = (nospace \/ space = 0)
          /\ UNCHANGED <<interest, space>>
      BY <1>14, <2>2 DEF EpollWait, Polled
    <3>2. "OUT" \in interest => space = 0
      BY <3>1 DEF Poll, TypeOK
    <3>. QED BY <3>1, <3>2 DEF SpaceSeen
  <2>. QED BY <2>1, <2>2
<1>15. CASE ReadSome
  BY <1>15 DEF ReadSome, modeVars, h2Vars, SpaceSeen, SentInv, want_write,
     Established, PhaseInv, InterestInv, CloseEvents, Opening, Registered,
     Poll, TypeOK
<1>16. CASE ReadAgain
  BY <1>16 DEF ReadAgain, modeVars, kernelVars, h2Vars, sessionVars,
     SpaceSeen, SentInv, want_write, Established, PhaseInv, InterestInv,
     CloseEvents, Opening, Registered, Poll, TypeOK
<1>17. CASE ReadShutdown
  BY <1>17 DEF ReadShutdown, Disconnect, modeVars, kernelVars, sslVars,
     h2Vars, sessionVars, SpaceSeen, SentInv, want_write, Established,
     PhaseInv, InterestInv, CloseEvents, Opening, Registered, Poll, TypeOK
<1>18. CASE Feed
  BY <1>18 DEF Feed, mem_recv2, on_frame_recv_callback, Disconnect,
     modeVars, kernelVars, sslVars, h2Vars, SpaceSeen, SentInv, want_write,
     Established, PhaseInv, InterestInv, CloseEvents, Opening, Registered,
     Poll, TypeOK
<1>19. CASE FeedDone
  BY <1>19 DEF FeedDone, modeVars, kernelVars, sslVars, h2Vars,
     sessionVars, SpaceSeen, SentInv, want_write, Established, PhaseInv,
     InterestInv, CloseEvents, Opening, Registered, Poll, TypeOK
<1>20. CASE UpdateRead
  <2>1. CASE pc' = "handled"
    BY <1>20, <2>1, Numbers DEF UpdateRead, modeVars, h2Vars, SpaceSeen, Disconnect, want_write
  <2>2. CASE pc' \in {"fill", "disconnect"}
    BY <2>2 DEF SpaceSeen
  <2>. QED BY <1>20, <2>1, <2>2 DEF UpdateRead, Disconnect
<1>21. CASE FillOutput
  BY <1>21 DEF FillOutput, modeVars, kernelVars, SpaceSeen, SentInv,
     want_write, Established, PhaseInv, InterestInv, CloseEvents, Opening,
     Registered, Poll, TypeOK
<1>22. CASE WriteSome
  BY <1>22 DEF WriteSome, modeVars, sslVars, h2Vars, SpaceSeen, SentInv,
     want_write, Established, PhaseInv, InterestInv, CloseEvents, Opening,
     Registered, Poll, TypeOK
<1>23. CASE SslWriteSome
  BY <1>23 DEF SslWriteSome, modeVars, h2Vars, SpaceSeen, SentInv,
     want_write, Established, PhaseInv, InterestInv, CloseEvents, Opening,
     Registered, Poll, TypeOK
<1>24. CASE WriteAgain
  BY <1>24 DEF WriteAgain, modeVars, h2Vars, sessionVars, SpaceSeen,
     SentInv, want_write, Established, PhaseInv, InterestInv, CloseEvents,
     Opening, Registered, Poll, TypeOK
<1>25. CASE WriteShutdown
  BY <1>25 DEF WriteShutdown, Disconnect, modeVars, kernelVars, sslVars,
     h2Vars, sessionVars, SpaceSeen, SentInv, want_write, Established,
     PhaseInv, InterestInv, CloseEvents, Opening, Registered, Poll, TypeOK
<1>26. CASE WriteDone
  BY <1>26 DEF WriteDone, modeVars, kernelVars, sslVars, h2Vars,
     sessionVars, SpaceSeen, SentInv, want_write, Established, PhaseInv,
     InterestInv, CloseEvents, Opening, Registered, Poll, TypeOK
<1>27. CASE UpdateWrite
  <2>1. Registers
    BY <1>27 DEF Registers
  <2>2. pc = "update_write" /\ pc' \in {"handled", "disconnect"} /\ state' = state
    BY <1>27 DEF UpdateWrite, Disconnect
  <2>. QED BY <2>1, <2>2, Registration
             DEF SpaceSeen, PhaseInv, Established, CloseEvents, want_write
<1>28. CASE EventHandled
  BY <1>28 DEF EventHandled, Disconnect, modeVars, kernelVars, sslVars,
     h2Vars, sessionVars, SpaceSeen, SentInv, want_write, Established,
     PhaseInv, InterestInv, CloseEvents, Opening, Registered, Poll, TypeOK
<1>29. CASE disconnect_from_client
  BY <1>29 DEF disconnect_from_client, modeVars, sslVars, h2Vars,
     sessionVars, SpaceSeen, SentInv, want_write, Established, PhaseInv,
     InterestInv, CloseEvents, Opening, Registered, Poll, TypeOK
<1>. QED BY <1>1, <1>2, <1>3, <1>4, <1>5, <1>6, <1>7, <1>8, <1>9, <1>10, <1>11,
         <1>12, <1>13, <1>14, <1>15, <1>16, <1>17, <1>18, <1>19, <1>20, <1>21,
         <1>22, <1>23, <1>24, <1>25, <1>26, <1>27, <1>28, <1>29
  DEF Next, Worker, Client, Setup, Handshake, handle_read, handle_write
-----------------------------------------------------------------------------
(***************************************************************************)
(* The invariant and the theorems.                                         *)
(***************************************************************************)

\* The initial states satisfy the invariant.
LEMMA InitIInv ==
    ASSUME Init PROVE IInv
<1>. PICK s \in Scripts : script = IF tls THEN <<"hello", "finished">> \o s ELSE s
  BY DEF Init
<1>1. s \in Seq(Frame)
  BY ConnectionAssumption
<1>2. script \in Seq(Frame \cup Flight)
  <2>1. s \in Seq(Frame \cup Flight)
    BY <1>1
  <2>2. <<"hello", "finished">> \in Seq(Frame \cup Flight)
    BY DEF Flight
  <2>3. <<"hello", "finished">> \o s \in Seq(Frame \cup Flight)
    BY <2>1, <2>2, ConcatProperties
  <2>. QED BY <2>1, <2>3
<1>3. Frames(s)
  BY <1>1 DEF Frames
<1>4. tls => /\ script # <<>> /\ Head(script) = "hello" /\ Len(script) > 1
             /\ script[2] = "finished" /\ Tail(Tail(script)) = s
  BY <1>1
<1>5. TypeOK
  <2>1. /\ tls \in BOOLEAN /\ offer \in Offers \cup {<<>>}
        /\ rcv = <<>> /\ input = <<>> /\ hstate = "hello"
    BY DEF Init
  <2>2. rcv \in Seq(Frame \cup Flight) /\ input \in Seq(Frame)
        /\ hstate \in Flight \cup {"reply", "done"}
    BY <2>1 DEF Flight
  <2>3. space \in 0 .. SendBuf /\ sent <= output /\ {sent, output} \subseteq Nat
        /\ {control, body, window, owed, delivered} \subseteq Nat
    BY ConnectionAssumption DEF Init
  <2>. QED BY <1>2, <2>1, <2>2, <2>3 DEF Init, TypeOK
<1>6. FlightInv
  BY <1>3, <1>4 DEF Init, FlightInv, Frames
<1>7. PhaseInv /\ WantInv /\ SentInv /\ CauseInv /\ InterestInv
  BY DEF Init, PhaseInv, WantInv, SentInv, CauseInv, InterestInv, Established, Opening,
         CloseEvents
<1>8. OutputInv
  BY DEF Init, OutputInv
<1>9. ResetSeen /\ FinSeen /\ RcvSeen /\ SpaceSeen
  BY DEF Init, ResetSeen, FinSeen, RcvSeen, SpaceSeen
<1>. QED BY <1>5, <1>6, <1>7, <1>8, <1>9 DEF IInv

\* A stuttering step changes nothing in it.
LEMMA StutterIInv ==
    ASSUME IInv, UNCHANGED vars PROVE IInv'
  BY DEF vars, IInv, TypeOK, FlightInv, Announced, PhaseInv, WantInv, OutputInv, SentInv,
         CauseInv, InterestInv, ResetSeen, FinSeen, RcvSeen, SpaceSeen, Established,
         Disconnecting, want_write, want_read, ReadEvents, WriteEvents,
         should_close_after_disconnect, validate_alpn

\* The invariant holds in every reachable state, whatever the interleaving of
\* the worker's system calls with what the client does.
THEOREM Invariance == Spec => []IInv
<1>1. Init => IInv
  BY InitIInv
<1>2. IInv /\ [Next]_vars => IInv'
  <2>1. ASSUME IInv, Next PROVE IInv'
    <3>1. TypeOK' /\ FlightInv' /\ PhaseInv' /\ WantInv' /\ OutputInv' /\ SentInv'
      BY <2>1, NextTypeOK, NextFlight, NextPhase, NextWant, NextOutput, NextSent DEF IInv
    <3>2. CauseInv' /\ InterestInv' /\ ResetSeen' /\ FinSeen' /\ RcvSeen' /\ SpaceSeen'
      BY <2>1, NextCause, NextInterest, NextReset, NextFin, NextRcv, NextSpace DEF IInv
    <3>. QED BY <3>1, <3>2 DEF IInv
  <2>. QED BY <2>1, StutterIInv
<1>. QED BY <1>1, <1>2, PTL DEF Spec

\* The state of the connection, of the kernel's socket and of the libraries
\* is of its type: the unfinished SSL_write never claims more than the buffer
\* holds, nor the send buffer more than its size.
THEOREM TypeCorrect == Spec => []TypeOK
<1>1. IInv => TypeOK
  BY DEF IInv
<1>. QED BY <1>1, Invariance, PTL

\* When the worker sleeps and epoll will not report the socket there is
\* nothing it could do for the connection: edge-triggered registration
\* (update_event, and reading and writing until EAGAIN) loses no edge.
THEOREM EdgesAreNotLost == Spec => []NoLostEdge
<1>1. ASSUME IInv PROVE NoLostEdge
  <2>. SUFFICES ASSUME pc = "epoll_wait", ~ready
                PROVE  /\ ~reset
                       /\ state = "TLS_HANDSHAKING" =>
                            IF want = "write" THEN space = 0 ELSE rcv = <<>> /\ ~fin
                       /\ state = "ESTABLISHED" =>
                            ~fin /\ (rcv = <<>> \/ (term /\ output > 0))
                       /\ Established /\ (output > 0 \/ want_write) => space = 0
                       /\ state = "DISCONNECTING" => output > 0 /\ ~fin
    BY DEF NoLostEdge, Established
  <2>1. interest # {} /\ interest = events \cup CloseEvents
    BY <1>1 DEF IInv, InterestInv, Opening
  <2>2. ~reset
    BY <1>1, <2>1 DEF IInv, ResetSeen
  <2>3. fin => state = "TLS_HANDSHAKING" /\ want = "write"
    BY <1>1, <2>1 DEF IInv, FinSeen
  <2>4. "IN" \in events => rcv = <<>>
    BY <1>1, <2>1 DEF IInv, RcvSeen
  <2>5. CASE state = "TLS_HANDSHAKING"
    <3>1. events = IF want = "write" THEN {"OUT"} ELSE {"IN"}
      BY <1>1, <2>5 DEF IInv, InterestInv
    <3>2. want = "write" => space = 0
      BY <1>1, <2>1, <2>5, <3>1 DEF IInv, SpaceSeen
    <3>. QED BY <2>2, <2>3, <2>4, <2>5, <3>1, <3>2 DEF Established
  <2>6. CASE Established
    <3>1. events = ReadEvents \cup WriteEvents
      BY <1>1, <2>6 DEF IInv, InterestInv
    <3>2. output > 0 \/ want_write => "OUT" \in events
      BY <3>1 DEF WriteEvents
    <3>3. output > 0 \/ want_write => space = 0
      BY <1>1, <2>1, <2>6, <3>2 DEF IInv, SpaceSeen
    <3>4. state = "ESTABLISHED" => "IN" \in events \/ (term /\ output > 0)
      <4>1. term => control = 0
        BY <1>1, Numbers DEF IInv, SentInv
      <4>2. want = "write" => output > 0
        BY <1>1, <2>6 DEF IInv, WantInv
      <4>3. state = "ESTABLISHED" /\ ~term => "IN" \in ReadEvents
        BY DEF ReadEvents, want_read, Disconnecting
      <4>4. state = "ESTABLISHED" /\ term /\ ~(output > 0) => "IN" \in ReadEvents
        BY <4>1, <4>2 DEF ReadEvents, WriteEvents, want_write, Disconnecting
      <4>. QED BY <3>1, <4>3, <4>4
    <3>5. state = "DISCONNECTING" => output > 0
      BY <1>1 DEF IInv, SentInv, Disconnecting
    <3>. QED BY <2>2, <2>3, <2>4, <2>6, <3>3, <3>4, <3>5 DEF Established
  <2>. QED BY <1>1, <2>5, <2>6 DEF IInv, PhaseInv, Established, TypeOK
<1>. QED BY <1>1, Invariance, PTL

\* A connection closed after a GOAWAY has delivered each submitted unit once,
\* except body data that flow control holds back (handle_write, and
\* should_close_after_disconnect).
THEOREM GoawayLosesNothing == Spec => []GoawayDelivers
<1>1. ASSUME IInv PROVE GoawayDelivers
  <2>. SUFFICES ASSUME cause = "goaway"
                PROVE  delivered + body = owed /\ (body = 0 \/ window = 0 \/ term)
    BY DEF GoawayDelivers
  <2>1. ~want_write /\ output = 0
    BY <1>1 DEF IInv, CauseInv, should_close_after_disconnect
  <2>2. {sent, output, delivered, control, body, owed, window} \subseteq Nat
    BY <1>1, Numbers DEF IInv
  <2>3. control = 0 /\ (body = 0 \/ window = 0 \/ term)
    BY <2>1, <2>2 DEF want_write
  <2>4. delivered + body = owed
    BY <1>1, <2>1, <2>2, <2>3 DEF IInv, OutputInv
  <2>. QED BY <2>3, <2>4
<1>. QED BY <1>1, Invariance, PTL

-----------------------------------------------------------------------------
(***************************************************************************)
(* The selection of h2, for every protocol list.  The recursive functions  *)
(* of select_next_proto and of FlattenSeq have to be shown to exist before *)
(* anything can be said of them, and what they compute is by induction;    *)
(* the library's induction theorems take predicates, which the provers     *)
(* cannot instantiate, so that Induction below is stated with a set.       *)
(***************************************************************************)

\* A set of natural numbers that holds 0 and the successor of each of its
\* elements up to a bound holds all of them up to it.
LEMMA Induction ==
    ASSUME NEW T, NEW n \in Nat, 0 \in T,
           \A k \in Nat : k < n /\ k \in T => k + 1 \in T
    PROVE  \A k \in Nat : k <= n => k \in T
<1>. DEFINE R == {ss \in Nat \X Nat : ss[1] < ss[2]}
            F == {k \in Nat : k <= n /\ k \notin T}
<1>1. IsWellFoundedOn(R, Nat)
  BY NatLessThanWellFounded DEF OpToRel
<1>2. SUFFICES ASSUME F # {} PROVE FALSE
  OBVIOUS
<1>3. F \subseteq Nat
  OBVIOUS
<1>. HIDE DEF R, F
<1>4. PICK x \in F : \A y \in F : ~(<<y, x>> \in R)
  BY <1>1, <1>2, <1>3, WFMin
<1>5. x \in Nat /\ x <= n /\ x \notin T /\ x # 0
  BY <1>4 DEF F
<1>6. x - 1 \in Nat /\ x - 1 < n /\ x - 1 < x /\ (x - 1) + 1 = x
  BY <1>5
<1>7. <<x - 1, x>> \in R
  BY <1>5, <1>6 DEF R
<1>8. x - 1 \notin F
  BY <1>4, <1>7
<1>9. x - 1 \in T
  BY <1>6, <1>8 DEF F
<1>. QED BY <1>5, <1>6, <1>9

Positions == Nat \ {0}

\* Bytes are numbers.
LEMMA Bytes == Byte \subseteq Nat /\ {2, 50, 104} \subseteq Byte
  BY DEF Byte

Key == <<2>> \o H2

\* One turn of select_next_proto's loop at position i, where f holds the outcome
\* of the turns after it.
Scan(in, f, i) ==
    IF i + Len(Key) - 1 > Len(in) THEN <<>>
    ELSE IF SubSeq(in, i, i + Len(Key) - 1) = Key THEN SubSeq(in, i + 1, i + in[i])
    ELSE f[i + in[i] + 1]

\* r is a concatenation of bytes.
Join(r, s, t) == s \in Seq(Byte) /\ t \in Seq(Byte) /\ r = s \o t

\* The length and the elements of a concatenation.
LEMMA Joined ==
    ASSUME NEW r, NEW s, NEW t, Join(r, s, t)
    PROVE  /\ r \in Seq(Byte) /\ Len(s) \in Nat /\ Len(t) \in Nat
           /\ Len(r) = Len(s) + Len(t)
           /\ \A i \in 1 .. Len(s) : r[i] = s[i]
           /\ \A i \in 1 .. Len(t) : r[Len(s) + i] = t[i]
  BY DEF Join

\* The entry of h2 that the loop looks for.
LEMMA KeyBytes == /\ Key \in Seq(Byte) /\ Len(Key) = 3
                  /\ Key[1] = 2 /\ Key[2] = 104 /\ Key[3] = 50
                  /\ H2 \in Seq(Byte) /\ Len(H2) = 2 /\ H2[1] = 104 /\ H2[2] = 50
<1>1. H2 \in Seq(Byte) /\ Len(H2) = 2 /\ H2[1] = 104 /\ H2[2] = 50
  BY Bytes DEF H2
<1>2. <<2>> \in Seq(Byte) /\ Len(<<2>>) = 1 /\ <<2>>[1] = 2
  BY Bytes
<1>. DEFINE two == <<2>>
<1>3. two \in Seq(Byte) /\ Len(two) = 1 /\ two[1] = 2
  BY <1>2
<1>. HIDE DEF two
<1>4. /\ two \o H2 \in Seq(Byte) /\ Len(two \o H2) = Len(two) + Len(H2)
      /\ \A i \in 1 .. Len(two) : (two \o H2)[i] = two[i]
      /\ \A i \in 1 .. Len(H2) : (two \o H2)[Len(two) + i] = H2[i]
  <2>1. Join(two \o H2, two, H2)
    BY <1>1, <1>3 DEF Join
  <2>2. two \o H2 \in Seq(Byte)
    BY <2>1, Joined
  <2>5. Len(two \o H2) = Len(two) + Len(H2)
    BY <2>1, Joined
  <2>3. \A i \in 1 .. Len(two) : (two \o H2)[i] = two[i]
    BY <2>1, Joined
  <2>4. \A i \in 1 .. Len(H2) : (two \o H2)[Len(two) + i] = H2[i]
    BY <2>1, Joined
  <2>. QED BY <2>2, <2>3, <2>4, <2>5
<1>5. /\ two \o H2 \in Seq(Byte) /\ Len(two \o H2) = 3
      /\ (two \o H2)[1] = 2 /\ (two \o H2)[2] = H2[1] /\ (two \o H2)[3] = H2[2]
  BY <1>1, <1>3, <1>4
<1>6. Key = two \o H2
  BY DEF Key, two
<1>. QED BY <1>1, <1>5, <1>6

\* The loop steps forward, so that it has an outcome from every position.
LEMMA ScanDefined ==
    ASSUME NEW in \in Seq(Byte)
    PROVE  \E f : f = [i \in Positions |-> Scan(in, f, i)]
<1>1. Len(in) \in Nat /\ \A i \in 1 .. Len(in) : in[i] \in Byte
  OBVIOUS
<1>. DEFINE D(k) == {i \in Positions : i + k > Len(in)}
            From(f, k) == f = [i \in D(k) |-> Scan(in, f, i)]
            T == {k \in Nat : \E f : From(f, k)}
            n == Len(in)
<1>2. 0 \in T
  <2>. DEFINE f == [i \in D(0) |-> <<>>]
  <2>1. \A i \in D(0) : Scan(in, f, i) = <<>>
    BY <1>1, KeyBytes DEF Scan, Positions
  <2>2. From(f, 0)
    BY <2>1
  <2>. QED BY <2>2
<1>3. ASSUME NEW k \in Nat, k \in T PROVE k + 1 \in T
  <2>1. PICK f : From(f, k)
    BY <1>3
  <2>. DEFINE g == [i \in D(k + 1) |-> Scan(in, f, i)]
  <2>2. ASSUME NEW i \in D(k) PROVE i \in D(k + 1) /\ f[i] = Scan(in, f, i)
    <3>1. f[i] = [j \in D(k) |-> Scan(in, f, j)][i]
      BY <2>1
    <3>2. i \in D(k + 1)
      BY <1>1 DEF Positions
    <3>. HIDE DEF D
    <3>. QED BY <3>1, <3>2
  <2>3. ASSUME NEW i \in D(k + 1) PROVE Scan(in, g, i) = Scan(in, f, i)
    <3>1. CASE i + 2 > n
      BY <3>1, KeyBytes, <1>1 DEF Scan, Positions
    <3>2. CASE i + 2 <= n
      <4>1. in[i] \in Byte
        BY <3>2, <1>1 DEF Positions
      <4>2. i + in[i] + 1 \in D(k)
        <5>1. PICK b \in Nat : b = in[i]
          BY <4>1, Bytes
        <5>2. i \in Nat /\ i > 0 /\ i + (k + 1) > Len(in)
          BY DEF Positions
        <5>3. i + b + 1 \in Nat \ {0} /\ (i + b + 1) + k > Len(in)
          BY <5>2, <1>1
        <5>. QED BY <5>1, <5>3 DEF Positions
      <4>. HIDE DEF D
      <4>3. f[i + in[i] + 1] = g[i + in[i] + 1]
        BY <4>2, <2>2
      <4>. HIDE DEF g
      <4>. QED BY <4>3 DEF Scan
    <3>. QED BY <3>1, <3>2, <1>1 DEF Positions
  <2>. HIDE DEF D
  <2>4. From(g, k + 1)
    BY <2>3
  <2>. HIDE DEF From, g
  <2>. QED BY <2>4
<1>. HIDE DEF T, n
<1>4. n \in T
  <2>1. n \in Nat
    BY <1>1 DEF n
  <2>2. \A k \in Nat : k < n /\ k \in T => k + 1 \in T
    BY <1>3
  <2>3. \A k \in Nat : k <= n => k \in T
    BY <2>1, <2>2, <1>2, Induction
  <2>. QED BY <2>1, <2>3
<1>5. D(n) = Positions
  BY <1>1 DEF Positions, n
<1>. QED BY <1>4, <1>5 DEF T

\* What select_next_proto returns is the outcome of the loop from the first byte.
LEMMA ScanResult ==
    ASSUME NEW in \in Seq(Byte)
    PROVE  \E f : /\ select_next_proto(in) = f[1]
                  /\ \A i \in Positions : f[i] = Scan(in, f, i)
<1>. DEFINE f == CHOOSE f : f = [i \in Positions |-> Scan(in, f, i)]
<1>1. f = [i \in Positions |-> Scan(in, f, i)]
  BY ScanDefined, Zenon
<1>2. select_next_proto(in) = f[1]
  BY DEF select_next_proto, Scan, Key, Positions
<1>. HIDE DEF f
<1>3. \A i \in Positions : f[i] = Scan(in, f, i)
  BY <1>1
<1>. QED BY <1>2, <1>3

\* One turn of FlattenSeq.
Joint(seqs, f, i) == IF i = 1 THEN seqs[i] ELSE f[i - 1] \o seqs[i]

\* The concatenations of the first elements, one, two and so on, exist.
LEMMA FlattenDefined ==
    ASSUME NEW S, NEW seqs \in Seq(S)
    PROVE  \E f : f = [i \in 1 .. Len(seqs) |-> Joint(seqs, f, i)]
<1>. DEFINE n == Len(seqs)
            UpTo(f, k) == f = [i \in 1 .. k |-> Joint(seqs, f, i)]
            T == {k \in Nat : \E f : UpTo(f, k)}
<1>1. n \in Nat
  OBVIOUS
<1>. HIDE DEF n
<1>2. 0 \in T
  <2>. DEFINE f == [i \in 1 .. 0 |-> <<>>]
  <2>1. UpTo(f, 0)
    OBVIOUS
  <2>. HIDE DEF f, UpTo
  <2>. QED BY <2>1
<1>3. ASSUME NEW k \in Nat, k \in T PROVE k + 1 \in T
  <2>1. PICK f : UpTo(f, k)
    BY <1>3
  <2>. DEFINE g == [i \in 1 .. k + 1 |-> Joint(seqs, f, i)]
  <2>2. \A i \in 1 .. k : f[i] = Joint(seqs, f, i)
    BY <2>1
  <2>3. \A i \in 1 .. k : g[i] = f[i]
    BY <2>2
  <2>4. \A i \in 1 .. k + 1 : Joint(seqs, g, i) = Joint(seqs, f, i)
    <3>. HIDE DEF g
    <3>. QED BY <2>3 DEF Joint
  <2>5. UpTo(g, k + 1)
    BY <2>4
  <2>. HIDE DEF g, UpTo
  <2>. QED BY <2>5
<1>. HIDE DEF T
<1>4. \A k \in Nat : k < n /\ k \in T => k + 1 \in T
  BY <1>3
<1>5. \A k \in Nat : k <= n => k \in T
  BY <1>1, <1>2, <1>4, Induction
<1>. QED BY <1>1, <1>5 DEF T, n

\* What FlattenSeq returns is the last of these concatenations.
LEMMA FlattenResult ==
    ASSUME NEW S, NEW seqs \in Seq(S), seqs # <<>>
    PROVE  \E f : /\ FlattenSeq(seqs) = f[Len(seqs)]
                  /\ \A i \in 1 .. Len(seqs) : f[i] = Joint(seqs, f, i)
<1>. DEFINE f == CHOOSE f : f = [i \in 1 .. Len(seqs) |-> Joint(seqs, f, i)]
<1>1. f = [i \in 1 .. Len(seqs) |-> Joint(seqs, f, i)]
  BY FlattenDefined, Zenon
<1>2. Len(seqs) # 0
  OBVIOUS
<1>3. FlattenSeq(seqs) = f[Len(seqs)]
  BY <1>2, Zenon DEF FlattenSeq, Joint
<1>. HIDE DEF f
<1>4. \A i \in 1 .. Len(seqs) : f[i] = Joint(seqs, f, i)
  BY <1>1
<1>. QED BY <1>3, <1>4

\* What OpenSSL accepts as a protocol list: no empty name, none beyond a byte.
ProtocolList(names) ==
    /\ names \in Seq(Seq(Byte))
    /\ \A i \in 1 .. Len(names) : Len(names[i]) \in 1 .. 255

\* Entry i of the list is in the buffer at pos[i], and the next one right behind.
Layout(names, in, pos) ==
    /\ in \in Seq(Byte)
    /\ \A i \in 1 .. Len(names) + 1 : pos[i] \in Nat \ {0}
    /\ pos[1] = 1
    /\ pos[Len(names) + 1] = Len(in) + 1
    /\ \A i \in 1 .. Len(names) :
         /\ pos[i + 1] = pos[i] + Len(names[i]) + 1
         /\ in[pos[i]] = Len(names[i])
         /\ \A j \in 1 .. Len(names[i]) : in[pos[i] + j] = names[i][j]

\* An entry of the list: the length, then the name.
LEMMA EntryBytes ==
    ASSUME NEW name \in Seq(Byte), Len(name) \in 1 .. 255
    PROVE  /\ <<Len(name)>> \o name \in Seq(Byte)
           /\ Len(<<Len(name)>> \o name) = Len(name) + 1
           /\ (<<Len(name)>> \o name)[1] = Len(name)
           /\ \A j \in 1 .. Len(name) : (<<Len(name)>> \o name)[j + 1] = name[j]
<1>. DEFINE one == <<Len(name)>>
<1>1. one \in Seq(Byte) /\ Len(one) = 1 /\ one[1] = Len(name)
  BY DEF Byte
<1>2. Len(name) \in Nat
  OBVIOUS
<1>. HIDE DEF one
<1>3. Join(one \o name, one, name)
  BY <1>1 DEF Join
<1>4. one \o name \in Seq(Byte)
  BY <1>3, Joined
<1>7. Len(one \o name) = Len(name) + 1
  <2>1. Len(one \o name) = Len(one) + Len(name)
    BY <1>3, Joined
  <2>. QED BY <1>1, <1>2, <2>1
<1>5. (one \o name)[1] = Len(name)
  <2>1. \A i \in 1 .. Len(one) : (one \o name)[i] = one[i]
    BY <1>3, Joined
  <2>. QED BY <1>1, <2>1
<1>8. \A i \in 1 .. Len(name) : (one \o name)[Len(one) + i] = name[i]
  BY <1>3, Joined
<1>6. ASSUME NEW j \in 1 .. Len(name) PROVE (one \o name)[j + 1] = name[j]
  <2>1. (one \o name)[Len(one) + j] = name[j]
    BY <1>8
  <2>2. Len(one) + j = j + 1
    BY <1>1, <1>2
  <2>. QED BY <2>1, <2>2
<1>. QED BY <1>4, <1>5, <1>6, <1>7 DEF one

\* A name of an offered list: bytes, and not empty.
LEMMA NameOf ==
    ASSUME NEW names, ProtocolList(names), NEW i \in 1 .. Len(names)
    PROVE  /\ names[i] \in Seq(Byte)
           /\ Len(names[i]) \in 1 .. 255
           /\ Len(names[i]) \in Nat \ {0}
<1>1. names \in Seq(Seq(Byte))
  BY DEF ProtocolList
<1>2. names[i] \in Seq(Byte)
  BY <1>1
<1>3. Len(names[i]) \in 1 .. 255
  BY DEF ProtocolList
<1>4. \A l \in 1 .. 255 : l \in Nat \ {0}
  OBVIOUS
<1>. QED BY <1>2, <1>3, <1>4

\* Wire puts the entries one behind the other.
LEMMA WireLayout ==
    ASSUME NEW names, ProtocolList(names)
    PROVE  \E pos : Layout(names, Wire(names), pos)
<1>. DEFINE n == Len(names)
            e == [i \in DOMAIN names |-> <<Len(names[i])>> \o names[i]]
<1>1. names \in Seq(Seq(Byte)) /\ n \in Nat /\ DOMAIN names = 1 .. n
  BY DEF ProtocolList
<1>2. \A i \in 1 .. n : /\ names[i] \in Seq(Byte) /\ Len(names[i]) \in Nat \ {0}
                        /\ e[i] \in Seq(Byte) /\ Len(e[i]) = Len(names[i]) + 1
                        /\ e[i][1] = Len(names[i])
                        /\ \A j \in 1 .. Len(names[i]) : e[i][j + 1] = names[i][j]
  <2>. TAKE i \in 1 .. n
  <2>1. names[i] \in Seq(Byte) /\ Len(names[i]) \in 1 .. 255 /\ Len(names[i]) \in Nat \ {0}
    BY NameOf
  <2>2. e[i] = <<Len(names[i])>> \o names[i]
    BY <1>1
  <2>. HIDE DEF e
  <2>. QED BY <2>1, <2>2, EntryBytes
<1>3. Wire(names) = FlattenSeq(e)
  BY DEF Wire
<1>4. DOMAIN e = 1 .. n
  BY <1>1
<1>. HIDE DEF e
<1>5. e \in Seq(Seq(Byte)) /\ Len(e) = n
  <2>1. \A i \in 1 .. n : e[i] \in Seq(Byte)
    BY <1>2
  <2>2. e = [i \in 1 .. n |-> e[i]]
    BY <1>1 DEF e
  <2>3. [i \in 1 .. n |-> e[i]] \in Seq(Seq(Byte)) /\ Len([i \in 1 .. n |-> e[i]]) = n
    BY <1>1, <2>1
  <2>. QED BY <2>2, <2>3
<1>. HIDE DEF n
<1>6. CASE n = 0
  <2>1. Wire(names) = e /\ e = <<>>
    BY <1>3, <1>5, <1>6 DEF FlattenSeq
  <2>. DEFINE pos == [i \in 1 .. 1 |-> 1]
  <2>2. Layout(names, <<>>, pos)
    BY <1>1, <1>6 DEF Layout, n
  <2>. QED BY <2>1, <2>2
<1>7. CASE n # 0
  <2>1. e # <<>>
    BY <1>5, <1>7
  <2>2. PICK f : /\ FlattenSeq(e) = f[n]
                 /\ \A i \in 1 .. n : f[i] = Joint(e, f, i)
    BY <2>1, <1>5, FlattenResult
  <2>3. f[1] = e[1] /\ \A i \in 1 .. n : i # 1 => f[i] = f[i - 1] \o e[i]
    <3>1. 1 \in 1 .. n /\ n \in Nat
      BY <1>1, <1>7
    <3>2. f[1] = e[1]
      BY <2>2, <3>1 DEF Joint
    <3>3. ASSUME NEW i \in 1 .. n, i # 1 PROVE f[i] = f[i - 1] \o e[i]
      <4>1. f[i] = Joint(e, f, i)
        BY <2>2
      <4>. QED BY <4>1, <3>3 DEF Joint
    <3>. QED BY <3>2, <3>3
  <2>4. \A i \in 1 .. n : f[i] \in Seq(Byte)
    <3>. DEFINE T == {k \in Nat : k # 0 => f[k] \in Seq(Byte)}
    <3>1. 0 \in T
      OBVIOUS
    <3>2. \A k \in Nat : k < n /\ k \in T => k + 1 \in T
      <4>. SUFFICES ASSUME NEW k \in Nat, k < n, k # 0 => f[k] \in Seq(Byte)
                    PROVE  f[k + 1] \in Seq(Byte)
        OBVIOUS
      <4>1. k + 1 \in 1 .. n /\ e[k + 1] \in Seq(Byte)
        BY <1>1, <1>2
      <4>2. CASE k = 0
        BY <4>1, <4>2, <2>3
      <4>3. CASE k # 0
        <5>1. f[k + 1] = f[(k + 1) - 1] \o e[k + 1]
          <6>1. PICK i \in 1 .. n : i = k + 1
            BY <4>1
          <6>2. i # 1
            BY <6>1, <4>3
          <6>. QED BY <6>1, <6>2, <2>3, Zenon
        <5>2. (k + 1) - 1 = k
          OBVIOUS
        <5>3. Join(f[k + 1], f[k], e[k + 1])
          BY <5>1, <5>2, <4>1, <4>3 DEF Join
        <5>. QED BY <5>3, Joined
      <4>. QED BY <4>2, <4>3
    <3>. HIDE DEF T
    <3>3. \A k \in Nat : k <= n => k \in T
      BY <3>1, <3>2, <1>1, Induction
    <3>. QED BY <3>3, <1>1 DEF T
  <2>. DEFINE pos == [i \in 1 .. n + 1 |-> IF i = 1 THEN 1 ELSE Len(f[i - 1]) + 1]
  <2>5. /\ \A i \in 1 .. n + 1 : pos[i] \in Nat \ {0}
        /\ pos[1] = 1
        /\ \A i \in 1 .. n : pos[i + 1] = Len(f[i]) + 1
    <3>1. \A i \in 1 .. n : Len(f[i]) \in Nat
      BY <2>4
    <3>2. \A i \in 1 .. n + 1 : i # 1 => Len(f[i - 1]) \in Nat
      BY <3>1, <1>1
    <3>. QED BY <3>1, <3>2, <1>1
  <2>6. ASSUME NEW i \in 1 .. n
        PROVE  /\ Len(f[i]) = pos[i] - 1 + Len(e[i])
               /\ \A j \in 1 .. Len(e[i]) : f[i][pos[i] - 1 + j] = e[i][j]
    <3>1. CASE i = 1
      <4>1. f[i] = e[i] /\ pos[i] = 1 /\ Len(e[i]) \in Nat
        BY <3>1, <2>3, <2>5, <1>2
      <4>. HIDE DEF pos
      <4>. QED BY <4>1
    <3>2. CASE i # 1
      <4>1. i - 1 \in 1 .. n /\ (i - 1) + 1 = i
        BY <3>2, <1>1
      <4>2. f[i] = f[i - 1] \o e[i] /\ f[i - 1] \in Seq(Byte) /\ e[i] \in Seq(Byte)
        BY <3>2, <4>1, <2>3, <2>4, <1>2
      <4>3. pos[i] = Len(f[i - 1]) + 1
        BY <4>1, <2>5
      <4>. HIDE DEF pos
      <4>4. PICK a \in Seq(Byte) : a = f[i - 1]
        BY <4>2
      <4>5. Join(f[i], a, e[i])
        BY <4>2, <4>4 DEF Join
      <4>6. /\ Len(a) \in Nat /\ Len(e[i]) \in Nat
            /\ Len(f[i]) = Len(a) + Len(e[i])
            /\ \A j \in 1 .. Len(e[i]) : f[i][Len(a) + j] = e[i][j]
        <5>1. Len(a) \in Nat /\ Len(e[i]) \in Nat
          BY <4>5, Joined
        <5>3. Len(f[i]) = Len(a) + Len(e[i])
          BY <4>5, Joined
        <5>2. \A j \in 1 .. Len(e[i]) : f[i][Len(a) + j] = e[i][j]
          BY <4>5, Joined
        <5>. QED BY <5>1, <5>2, <5>3
      <4>7. pos[i] - 1 = Len(a)
        BY <4>3, <4>4, <4>6
      <4>. QED BY <4>6, <4>7
    <3>. QED BY <3>1, <3>2
  <2>7. ASSUME NEW i \in 1 .. n
        PROVE  /\ Len(f[i]) <= Len(f[n])
               /\ \A j \in 1 .. Len(f[i]) : f[n][j] = f[i][j]
    <3>. DEFINE Same(k) == /\ Len(f[i]) <= Len(f[k])
                           /\ \A j \in 1 .. Len(f[i]) : f[k][j] = f[i][j]
                T == {d \in Nat : i + d <= n => Same(i + d)}
    <3>0. Len(f[i]) \in Nat /\ i \in Nat
      BY <2>4, <1>1
    <3>1. 0 \in T
      BY <3>0
    <3>2. \A d \in Nat : d < n /\ d \in T => d + 1 \in T
      <4>. SUFFICES ASSUME NEW d \in Nat, i + (d + 1) <= n, Same(i + d)
                    PROVE  Same(i + (d + 1))
        BY <3>0, <1>1
      <4>1. PICK k \in Nat : k = i + d
        BY <3>0
      <4>2. PICK q \in 1 .. n : q = k + 1
        BY <4>1, <3>0, <1>1
      <4>3. k \in 1 .. n /\ q # 1 /\ q - 1 = k
        BY <4>1, <4>2, <3>0, <1>1
      <4>4. Join(f[q], f[k], e[q])
        <5>1. f[q] = f[q - 1] \o e[q]
          BY <4>3, <2>3
        <5>. QED BY <5>1, <4>3, <2>4, <1>2 DEF Join
      <4>5. Len(f[k]) \in Nat /\ Len(e[q]) \in Nat
        BY <4>4, Joined
      <4>6. Len(f[k]) <= Len(f[q]) /\ Len(f[q]) \in Nat
        <5>1. PICK a, b, c : a = f[k] /\ b = e[q] /\ c = f[q]
          OBVIOUS
        <5>2. Join(c, a, b)
          BY <5>1, <4>4
        <5>3. Len(c) = Len(a) + Len(b)
          BY <5>2, Joined
        <5>4. Len(a) \in Nat /\ Len(b) \in Nat
          BY <5>2, Joined
        <5>5. Len(a) <= Len(c) /\ Len(c) \in Nat
          BY <5>3, <5>4
        <5>. QED BY <5>1, <5>5
      <4>9. \A j \in 1 .. Len(f[k]) : f[q][j] = f[k][j]
        BY <4>4, Joined
      <4>10. Same(k)
        BY <4>1
      <4>7. Same(q)
        <5>1. Len(f[i]) <= Len(f[q])
          <6>1. Len(f[i]) <= Len(f[k])
            BY <4>10
          <6>. QED BY <6>1, <4>5, <4>6, <3>0
        <5>2. ASSUME NEW j \in 1 .. Len(f[i]) PROVE f[q][j] = f[i][j]
          <6>1. j \in 1 .. Len(f[k])
            BY <4>5, <4>10, <3>0
          <6>. QED BY <6>1, <4>9, <4>10
        <5>. QED BY <5>1, <5>2
      <4>8. q = i + (d + 1)
        BY <4>1, <4>2, <3>0
      <4>. HIDE DEF Same
      <4>. QED BY <4>7, <4>8
    <3>. HIDE DEF T
    <3>3. \A d \in Nat : d <= n => d \in T
      BY <3>1, <3>2, <1>1, Induction
    <3>4. n - i \in Nat /\ n - i <= n /\ i + (n - i) = n
      BY <3>0, <1>1
    <3>5. n - i \in T
      BY <3>3, <3>4
    <3>6. Same(i + (n - i))
      BY <3>4, <3>5, <1>1 DEF T
    <3>. HIDE DEF Same
    <3>7. Same(n)
      BY <3>4, <3>6
    <3>. QED BY <3>7 DEF Same
  <2>. HIDE DEF pos
  <2>8. f[n] \in Seq(Byte) /\ pos[n + 1] = Len(f[n]) + 1
    BY <2>4, <2>5, <1>1, <1>7
  <2>9. ASSUME NEW i \in 1 .. n
        PROVE  /\ pos[i + 1] = pos[i] + Len(names[i]) + 1
               /\ f[n][pos[i]] = Len(names[i])
               /\ \A j \in 1 .. Len(names[i]) : f[n][pos[i] + j] = names[i][j]
    <3>1. PICK p \in Nat \ {0}, m \in Nat \ {0} : p = pos[i] /\ m = Len(names[i])
      <4>1. i \in 1 .. n + 1
        BY <1>1
      <4>2. pos[i] \in Nat \ {0} /\ Len(names[i]) \in Nat \ {0}
        BY <4>1, <2>5, <1>2
      <4>. QED BY <4>2
    <3>2. Len(e[i]) = m + 1 /\ Len(f[i]) = p + m
      <4>1. Len(e[i]) = m + 1
        BY <3>1, <1>2
      <4>2. Len(f[i]) = pos[i] - 1 + Len(e[i])
        BY <2>6
      <4>3. pos[i] - 1 + Len(e[i]) = p - 1 + (m + 1)
        BY <3>1, <4>1
      <4>4. Len(f[i]) = p - 1 + (m + 1)
        BY <4>2, <4>3, ZenonT(30)
      <4>5. p - 1 + (m + 1) = p + m
        OBVIOUS
      <4>. QED BY <4>1, <4>4, <4>5, ZenonT(30)
    <3>3. pos[i + 1] = p + m + 1
      BY <3>1, <3>2, <2>5
    <3>4. \A j \in 1 .. m + 1 : f[n][p - 1 + j] = e[i][j]
      <4>. TAKE j \in 1 .. m + 1
      <4>1. p - 1 + j \in 1 .. Len(f[i])
        BY <3>1, <3>2
      <4>2. f[n][p - 1 + j] = f[i][p - 1 + j]
        BY <4>1, <2>7
      <4>3. f[i][p - 1 + j] = e[i][j]
        BY <2>6, <3>1, <3>2
      <4>. QED BY <4>2, <4>3
    <3>5. 1 \in 1 .. m + 1 /\ p - 1 + 1 = p
      BY <3>1
    <3>6. f[n][p] = m
      BY <3>4, <3>5, <3>1, <1>2
    <3>7. \A j \in 1 .. m : f[n][p + j] = names[i][j]
      <4>. TAKE j \in 1 .. m
      <4>1. j + 1 \in 1 .. m + 1 /\ p - 1 + (j + 1) = p + j
        BY <3>1
      <4>2. f[n][p + j] = e[i][j + 1]
        BY <4>1, <3>4
      <4>. QED BY <4>2, <3>1, <1>2
    <3>. QED BY <3>1, <3>3, <3>6, <3>7
  <2>10. Layout(names, f[n], pos)
    BY <2>5, <2>8, <2>9 DEF Layout, n
  <2>. QED BY <2>10, <2>2, <1>3
<1>. QED BY <1>6, <1>7

\* Three bytes of the buffer are the entry of h2.
LEMMA KeyAt ==
    ASSUME NEW in \in Seq(Byte), NEW p \in Nat \ {0}, p + 2 <= Len(in)
    PROVE  /\ SubSeq(in, p, p + 2) = Key <=>
                in[p] = 2 /\ in[p + 1] = 104 /\ in[p + 2] = 50
           /\ in[p] = 2 /\ in[p + 1] = 104 /\ in[p + 2] = 50 =>
                SubSeq(in, p + 1, p + in[p]) = H2
<1>. DEFINE sub == SubSeq(in, p, p + 2)
            name == SubSeq(in, p + 1, p + 2)
<1>1. sub \in Seq(Byte) /\ Len(sub) = 3
  OBVIOUS
<1>2. sub[1] = in[p] /\ sub[2] = in[p + 1] /\ sub[3] = in[p + 2]
  OBVIOUS
<1>3. name \in Seq(Byte) /\ Len(name) = 2
  OBVIOUS
<1>4. name[1] = in[p + 1] /\ name[2] = in[p + 2]
  <2>1. \A k \in 1 .. 2 : name[k] = in[(p + 1) + k - 1]
    OBVIOUS
  <2>2. (p + 1) + 1 - 1 = p + 1 /\ (p + 1) + 2 - 1 = p + 2
    OBVIOUS
  <2>. HIDE DEF name
  <2>. QED BY <2>1, <2>2
<1>. HIDE DEF sub, name
<1>5. sub = Key <=> sub[1] = 2 /\ sub[2] = 104 /\ sub[3] = 50
  <2>1. ASSUME sub[1] = 2, sub[2] = 104, sub[3] = 50 PROVE sub = Key
    <3>1. \A i \in 1 .. 3 : sub[i] = Key[i]
      BY <2>1, KeyBytes
    <3>. QED BY <1>1, <3>1, KeyBytes, SeqEqual
  <2>. QED BY <2>1, KeyBytes
<1>6. ASSUME name[1] = 104, name[2] = 50 PROVE name = H2
  <2>1. \A i \in 1 .. 2 : name[i] = H2[i]
    BY <1>6, KeyBytes
  <2>. QED BY <1>3, <2>1, KeyBytes, SeqEqual
<1>. QED BY <1>2, <1>4, <1>5, <1>6 DEF sub, name

\* A name of two bytes is h2 when its bytes are.
LEMMA NameIsH2 ==
    ASSUME NEW name \in Seq(Byte)
    PROVE  name = H2 <=> Len(name) = 2 /\ name[1] = 104 /\ name[2] = 50
<1>1. ASSUME Len(name) = 2, name[1] = 104, name[2] = 50 PROVE name = H2
  <2>1. \A i \in 1 .. 2 : name[i] = H2[i]
    BY <1>1, KeyBytes
  <2>. QED BY <1>1, <2>1, KeyBytes, SeqEqual
<1>. QED BY <1>1, KeyBytes

\* The loop looks at every entry of a list, from its first byte, until one is
\* h2: for every list, wherever h2 is and whatever the bytes of the other names.
LEMMA SelectIsOffered ==
    ASSUME NEW names, ProtocolList(names)
    PROVE  select_next_proto(Wire(names)) = H2 <=> \E i \in 1 .. Len(names) : names[i] = H2
<1>. DEFINE n == Len(names)
            in == Wire(names)
<1>1. names \in Seq(Seq(Byte)) /\ n \in Nat /\ DOMAIN names = 1 .. n
  BY DEF ProtocolList
<1>2. PICK pos : Layout(names, in, pos)
  BY WireLayout
<1>3. in \in Seq(Byte) /\ Len(in) \in Nat
  BY <1>2 DEF Layout
<1>4. PICK f : /\ select_next_proto(in) = f[1]
               /\ \A i \in Positions : f[i] = Scan(in, f, i)
  BY <1>3, ScanResult
<1>. HIDE DEF n, in
<1>5. ASSUME NEW i \in 1 .. n
      PROVE  /\ names[i] \in Seq(Byte) /\ Len(names[i]) \in Nat \ {0}
             /\ pos[i] \in Nat \ {0} /\ pos[i + 1] \in Nat \ {0}
             /\ pos[i + 1] = pos[i] + Len(names[i]) + 1
             /\ in[pos[i]] = Len(names[i])
             /\ \A j \in 1 .. Len(names[i]) : in[pos[i] + j] = names[i][j]
  <2>1. i \in 1 .. n + 1 /\ i + 1 \in 1 .. n + 1
    BY <1>1
  <2>2. names[i] \in Seq(Byte) /\ Len(names[i]) \in Nat \ {0}
    BY NameOf DEF n
  <2>4. pos[i] \in Nat \ {0} /\ pos[i + 1] \in Nat \ {0}
    BY <2>1, <1>2 DEF Layout, n
  <2>5. /\ pos[i + 1] = pos[i] + Len(names[i]) + 1
        /\ in[pos[i]] = Len(names[i])
        /\ \A j \in 1 .. Len(names[i]) : in[pos[i] + j] = names[i][j]
    BY <1>2 DEF Layout, n
  <2>. QED BY <2>2, <2>4, <2>5
<1>6. pos[1] = 1 /\ pos[n + 1] = Len(in) + 1
  BY <1>2 DEF Layout, n
\* The entries from i on end inside the buffer.
<1>7. ASSUME NEW i \in 1 .. n PROVE pos[i + 1] <= Len(in) + 1
  <2>. DEFINE T == {d \in Nat : d < n => pos[(n + 1) - d] <= Len(in) + 1}
  <2>1. 0 \in T
    <3>1. (n + 1) - 0 = n + 1
      BY <1>1
    <3>. QED BY <3>1, <1>3, <1>6
  <2>2. \A d \in Nat : d < n /\ d \in T => d + 1 \in T
    <3>. SUFFICES ASSUME NEW d \in Nat, d + 1 < n, pos[(n + 1) - d] <= Len(in) + 1
                  PROVE  pos[(n + 1) - (d + 1)] <= Len(in) + 1
      BY <1>1
    <3>1. PICK j \in 1 .. n : j = n - d
      BY <1>1
    <3>2. (n + 1) - d = j + 1 /\ (n + 1) - (d + 1) = j
      BY <3>1, <1>1
    <3>3. pos[j] < pos[j + 1] /\ pos[j] \in Nat /\ pos[j + 1] \in Nat
      <4>1. PICK p \in Nat, m \in Nat : p = pos[j] /\ m = Len(names[j])
        BY <1>5
      <4>2. pos[j + 1] = pos[j] + Len(names[j]) + 1
        BY <1>5
      <4>3. pos[j + 1] = p + m + 1
        BY <4>1, <4>2
      <4>4. p < p + m + 1 /\ p + m + 1 \in Nat
        OBVIOUS
      <4>. QED BY <4>1, <4>3, <4>4
    <3>. QED BY <3>2, <3>3, <1>3
  <2>. HIDE DEF T
  <2>3. \A d \in Nat : d <= n => d \in T
    BY <2>1, <2>2, <1>1, Induction
  <2>4. PICK d \in Nat : d = n - i
    BY <1>1
  <2>5. d < n /\ d <= n /\ (n + 1) - d = i + 1
    BY <2>4, <1>1
  <2>6. pos[(n + 1) - d] <= Len(in) + 1
    BY <2>3, <2>5 DEF T
  <2>. QED BY <2>5, <2>6
<1>8. ASSUME NEW i \in 1 .. n
      PROVE  f[pos[i]] = IF names[i] = H2 THEN H2
                         ELSE IF pos[i] + 2 > Len(in) THEN <<>>
                         ELSE f[pos[i + 1]]
  <2>1. PICK p \in Nat \ {0}, m \in Nat \ {0} : p = pos[i] /\ m = Len(names[i])
    BY <1>5
  <2>2. in[p] = m /\ pos[i + 1] = p + m + 1 /\ p + m <= Len(in)
    <3>1. in[p] = m /\ pos[i + 1] = p + m + 1
      BY <2>1, <1>5
    <3>. QED BY <3>1, <2>1, <1>3, <1>7
  <2>3. \A j \in 1 .. m : in[p + j] = names[i][j]
    BY <2>1, <1>5
  <2>4. f[p] = Scan(in, f, p)
    BY <2>1, <1>4 DEF Positions
  <2>5. names[i] = H2 <=> m = 2 /\ names[i][1] = 104 /\ names[i][2] = 50
    BY <2>1, <1>5, NameIsH2
  <2>6. names[i] = H2 <=> m = 2 /\ in[p + 1] = 104 /\ in[p + 2] = 50
    BY <2>3, <2>5
  <2>7. CASE p + 2 > Len(in)
    <3>1. names[i] # H2
      <4>1. m # 2
        BY <2>2, <2>7, <1>3
      <4>. QED BY <2>6, <4>1
    <3>2. f[p] = <<>>
      BY <2>1, <2>4, <2>7, <1>3, KeyBytes DEF Scan
    <3>. QED BY <2>1, <2>7, <3>1, <3>2
  <2>8. CASE p + 2 <= Len(in)
    <3>1. /\ SubSeq(in, p, p + 2) = Key <=> names[i] = H2
          /\ names[i] = H2 => SubSeq(in, p + 1, p + in[p]) = H2
      <4>1. SubSeq(in, p, p + 2) = Key <=> in[p] = 2 /\ in[p + 1] = 104 /\ in[p + 2] = 50
        BY <2>8, <1>3, KeyAt
      <4>2. in[p] = 2 /\ in[p + 1] = 104 /\ in[p + 2] = 50 =>
              SubSeq(in, p + 1, p + in[p]) = H2
        BY <2>8, <1>3, KeyAt
      <4>3. names[i] = H2 <=> in[p] = 2 /\ in[p + 1] = 104 /\ in[p + 2] = 50
        BY <2>2, <2>6
      <4>. QED BY <4>1, <4>2, <4>3
    <3>2. p + Len(Key) - 1 = p + 2 /\ ~(p + 2 > Len(in))
      BY <2>1, <2>8, <1>3, KeyBytes
    <3>3. Scan(in, f, p) = IF SubSeq(in, p, p + 2) = Key THEN SubSeq(in, p + 1, p + in[p])
                           ELSE f[p + in[p] + 1]
      BY <3>2 DEF Scan
    <3>4. p + in[p] + 1 = pos[i + 1]
      BY <2>2
    <3>. QED BY <2>1, <2>4, <3>1, <3>2, <3>3, <3>4
  <2>. QED BY <2>1, <2>7, <2>8, <1>3
<1>9. <<>> # H2
  BY DEF H2
\* The three bytes that the loop asks for are missing only after the last entry.
<1>10. ASSUME NEW i \in 1 .. n, pos[i] + 2 > Len(in) PROVE i = n
  <2>. SUFFICES ASSUME i # n PROVE FALSE
    OBVIOUS
  <2>1. PICK j \in 1 .. n : j = i + 1
    BY <1>1
  <2>2. PICK p \in Nat, m \in Nat \ {0}, l \in Nat \ {0} :
          p = pos[i] /\ m = Len(names[i]) /\ l = Len(names[j])
    BY <1>5
  <2>3. pos[j] = p + m + 1
    BY <2>1, <2>2, <1>5
  <2>4. pos[j + 1] = p + m + 1 + l + 1
    BY <2>2, <2>3, <1>5
  <2>5. pos[j + 1] <= Len(in) + 1
    BY <1>7
  <2>6. PICK k \in Nat : k = Len(in)
    BY <1>3
  <2>7. p + m + 1 + l + 1 <= k + 1 /\ p + 2 > k
    BY <2>2, <2>4, <2>5, <2>6, <1>10
  <2>. QED BY <2>7
<1>11. f[pos[n + 1]] = <<>>
  <2>1. f[Len(in) + 1] = Scan(in, f, Len(in) + 1)
    BY <1>3, <1>4 DEF Positions
  <2>. QED BY <2>1, <1>3, <1>6, KeyBytes DEF Scan
<1>. DEFINE Found(i) == f[pos[i]] = H2 <=> \E j \in i .. n : names[j] = H2
            T == {d \in Nat : Found((n + 1) - d)}
<1>12. 0 \in T
  <2>1. (n + 1) - 0 = n + 1 /\ ~\E j \in n + 1 .. n : names[j] = H2
    BY <1>1
  <2>. QED BY <2>1, <1>9, <1>11
<1>13. ASSUME NEW i \in 1 .. n, Found(i + 1) PROVE Found(i)
  <2>1. (\E j \in i .. n : names[j] = H2) <=>
          (names[i] = H2 \/ \E j \in i + 1 .. n : names[j] = H2)
    <3>1. \A j \in i .. n : j = i \/ j \in i + 1 .. n
      BY <1>1
    <3>2. i \in i .. n /\ \A j \in i + 1 .. n : j \in i .. n
      BY <1>1
    <3>. QED BY <3>1, <3>2
  <2>2. CASE names[i] = H2
    BY <2>1, <2>2, <1>8
  <2>3. CASE names[i] # H2 /\ pos[i] + 2 > Len(in)
    <3>1. i = n
      BY <2>3, <1>10
    <3>2. ~\E j \in i + 1 .. n : names[j] = H2
      BY <3>1, <1>1
    <3>3. f[pos[i]] = <<>>
      BY <2>3, <1>8
    <3>. QED BY <2>1, <2>3, <3>2, <3>3, <1>9
  <2>4. CASE names[i] # H2 /\ ~(pos[i] + 2 > Len(in))
    <3>1. f[pos[i]] = f[pos[i + 1]]
      BY <2>4, <1>8
    <3>. QED BY <2>1, <2>4, <3>1, <1>13
  <2>. QED BY <2>2, <2>3, <2>4
<1>. HIDE DEF Found
<1>14. \A d \in Nat : d < n /\ d \in T => d + 1 \in T
  <2>. SUFFICES ASSUME NEW d \in Nat, d < n, Found((n + 1) - d)
                PROVE  Found((n + 1) - (d + 1))
    OBVIOUS
  <2>1. PICK i \in 1 .. n : i = n - d
    BY <1>1
  <2>2. (n + 1) - d = i + 1 /\ (n + 1) - (d + 1) = i
    BY <2>1, <1>1
  <2>3. Found(i + 1)
    BY <2>2
  <2>. QED BY <2>2, <2>3, <1>13
<1>. HIDE DEF T
<1>15. \A d \in Nat : d <= n => d \in T
  BY <1>12, <1>14, <1>1, Induction
<1>16. Found(1)
  <2>1. n \in T /\ (n + 1) - n = 1
    BY <1>15, <1>1
  <2>2. Found((n + 1) - n)
    BY <2>1 DEF T
  <2>. QED BY <2>1, <2>2
<1>17. f[1] = H2 <=> \E j \in 1 .. n : names[j] = H2
  BY <1>16, <1>6 DEF Found
<1>. QED BY <1>17, <1>4 DEF in, n

\* A TLS connection is established only with h2, and h2 is selected exactly when
\* it is one of the names its client offered, wherever in the list it is and
\* whatever the bytes of the other names (select_next_proto, handle_ssl_accept).
THEOREM SessionsAreH2 == Spec => []EstablishedMeansH2
<1>1. ASSUME IInv PROVE EstablishedMeansH2
  <2>1. ProtocolList(offer)
    <3>1. offer \in Offers \cup {<<>>}
      BY <1>1 DEF IInv, TypeOK
    <3>2. CASE offer \in Offers
      BY <3>2, ConnectionAssumption DEF ProtocolList
    <3>3. CASE offer = <<>>
      BY <3>3 DEF ProtocolList
    <3>. QED BY <3>1, <3>2, <3>3
  <2>2. DOMAIN offer = 1 .. Len(offer)
    BY <2>1 DEF ProtocolList
  <2>3. validate_alpn <=> \E i \in DOMAIN offer : offer[i] = H2
    BY <2>1, <2>2, SelectIsOffered DEF validate_alpn
  <2>4. tls /\ state \in {"ESTABLISHED", "DISCONNECTING"} => validate_alpn
    BY <1>1 DEF IInv, PhaseInv, Established
  <2>. QED BY <2>3, <2>4 DEF EstablishedMeansH2
<1>. QED BY <1>1, Invariance, PTL
=============================================================================
