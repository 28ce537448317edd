---------------------------- MODULE SessionProofs ----------------------------
(***************************************************************************)
(* Proofs about Session for every number of streams and addresses, every   *)
(* set of requests and sizes and every width of the offset.                *)
(***************************************************************************)
EXTENDS Session, TLAPS

-----------------------------------------------------------------------------
(***************************************************************************)
(* The inductive invariant, stream by stream: its pointers, its response,  *)
(* the object they lead to, and what happened to its request.              *)
(***************************************************************************)
Live == {"headers", "open", "half_closed"}

\* nghttp2's pointers are those of a live stream, to an object of its own.
PointersOK(s) ==
    /\ user_data[s] # Null <=> nstate[s] \in Live
    /\ user_data[s] # Null => user_data[s] \in streams /\ StreamDataOf(s).stream_id = s
    /\ response[s] # "none" => nstate[s] = "half_closed"
    /\ source[s] = IF response[s] = "file" THEN user_data[s] ELSE Null

\* The parser that on_header_callback leaves for a request.
Parser(r) == IF r.method # "POST" THEN "none"
             ELSE IF r.multipart THEN "boundary" ELSE "no boundary"

\* The object holds the request as far as it has been received.
RequestOK(s) ==
    LET r == asked[s]
        d == StreamDataOf(s) IN
    /\ nstate[s] \in {"idle", "headers", "open", "reset"} =>
         handled[s] = {} /\ answers[s] = 0 /\ want[s] = 0 /\ out[s] = 0
    /\ nstate[s] = "headers" => chunks[s] = 0 /\ d = NewStreamData(s)
    /\ nstate[s] = "open" =>
         /\ r \in Requests
         /\ d.path = r.path
         /\ d.method = IF r.method = "other" THEN "uninitialised" ELSE r.method
         /\ d.mime_parser = Parser(r)
         /\ d.upload_file_buffer = chunks[s]
         /\ d.size = 0
         /\ d.offset = 0
    /\ r.method # "other" =>
         handled[s] \subseteq {<<Handler(r.method, r.path), chunks[s], Parser(r)>>}

\* The object holds the file of the response and how much of it went out.
BodyOK(s) ==
    LET d == StreamDataOf(s) IN
    /\ response[s] = "file" =>
         /\ d.size = want[s]
         /\ want[s] <= IntMax => d.offset = out[s] /\ out[s] <= want[s]
         /\ d.data = "MAP_FAILED" => out[s] = 0
    /\ response[s] \in {"ok", "error"} => want[s] = 0 /\ out[s] = 0
    /\ nstate[s] = "done" /\ want[s] <= IntMax =>
         out[s] \in {want[s]} \cup (IF want[s] = 0 THEN 1 .. ErrorLength ELSE {})

StreamInv == \A s \in Stream : PointersOK(s) /\ RequestOK(s) /\ BodyOK(s)

\* No object is without a stream while nghttp2 runs; when it is deleted its
\* pointers are, and no object is left at the end.
OwnerInv ==
    /\ phase \in {"serving", "failed", "crashed"} =>
         \A a \in streams : \E s \in Stream : user_data[s] = a
    /\ phase \in {"deleting", "gone"} => \A s \in Stream : user_data[s] = Null
    /\ phase = "gone" => streams = {}

CrashInv ==
    phase = "crashed" =>
        \E s \in Stream :
            \/ want[s] > IntMax
            \/ source[s] # Null /\ want[s] > 0 /\ mem[source[s]].data = "MAP_FAILED"
            \/ asked[s].method = "other" /\ asked[s].path # "none"

IInv == TypeOK /\ StreamInv /\ OwnerInv /\ AnsweredOnce /\ CrashInv
-----------------------------------------------------------------------------
(***************************************************************************)
(* Lemmas about the operators.                                             *)
(***************************************************************************)

\* A remainder is below its divisor, and a number below it is its remainder.
LEMMA ModRange ==
    ASSUME NEW a \in Int, NEW b \in Nat \ {0}
    PROVE  a % b \in 0 .. b - 1 /\ (a \in 0 .. b - 1 => a % b = a)
  OBVIOUS

\* The conversion to int yields an int.
LEMMA ToIntRange ==
    ASSUME NEW n \in Int PROVE ToInt(n) \in -(IntMax + 1) .. IntMax
<1> DEFINE M == 2 * (IntMax + 1)
           r == (n + IntMax + 1) % M
<1>1. IntMax \in Nat \ {0}
  BY SessionAssumption
<1>2. M \in Nat \ {0} /\ n + IntMax + 1 \in Int
  BY <1>1
<1>3. r \in 0 .. M - 1
  BY <1>2, ModRange
<1> HIDE DEF r
<1>4. r - (IntMax + 1) \in -(IntMax + 1) .. IntMax
  BY <1>1, <1>3
<1> QED
  BY <1>4 DEF ToInt, r

\* It changes nothing that fits.
LEMMA ToIntFits ==
    ASSUME NEW n \in 0 .. IntMax PROVE ToInt(n) = n
<1> DEFINE M == 2 * (IntMax + 1)
           r == (n + IntMax + 1) % M
<1>1. IntMax \in Nat \ {0}
  BY SessionAssumption
<1>2. M \in Nat \ {0} /\ n + IntMax + 1 \in 0 .. M - 1 /\ n + IntMax + 1 \in Int
  BY <1>1
<1> HIDE DEF M
<1>3. r = n + IntMax + 1
  BY <1>2, ModRange
<1> HIDE DEF r
<1>4. r - (IntMax + 1) = n
  BY <1>1, <1>3
<1> QED
  BY <1>4 DEF ToInt, r, M

\* The types of what a constructor leaves and of the constants.
LEMMA Types ==
    /\ IntMax \in Nat \ {0} /\ MaxLength \in Nat \ {0} /\ ErrorLength \in Nat \ {0}
    /\ ErrorLength <= IntMax
    /\ Streams \in Nat /\ Addresses \in Nat /\ MaxChunks \in Nat
    /\ Size \subseteq Nat /\ Requests \subseteq Request
    /\ MaxOut \in Nat /\ IntMax < MaxOut
    /\ 0 \in 0 .. MaxChunks /\ 0 \in 0 .. MaxOut
    /\ Null \notin Addr
    /\ \A s \in Stream \cup {0} : NewStreamData(s) \in StreamData
<1>1. /\ IntMax \in Nat \ {0} /\ MaxLength \in Nat \ {0} /\ ErrorLength \in Nat \ {0}
      /\ ErrorLength <= IntMax
      /\ Streams \in Nat /\ Addresses \in Nat /\ MaxChunks \in Nat
      /\ Size \subseteq Nat /\ Requests \subseteq Request
  BY SessionAssumption
<1>2. MaxOut \in Nat /\ IntMax < MaxOut
  BY <1>1 DEF MaxOut
<1>3. Null \notin Addr
  BY <1>1 DEF Null, Addr
<1>4. 0 \in 0 .. MaxChunks /\ 0 \in -(IntMax + 1) .. IntMax
  BY <1>1
<1>5. \A s \in Stream \cup {0} : NewStreamData(s) \in StreamData
  BY <1>4 DEF NewStreamData, StreamData
<1>6. 0 \in 0 .. MaxOut
  BY <1>2
<1> QED
  BY <1>1, <1>2, <1>3, <1>4, <1>5, <1>6
-----------------------------------------------------------------------------
(***************************************************************************)
(* Initially.                                                              *)
(***************************************************************************)
LEMMA InitIInv == Init => IInv
<1> SUFFICES ASSUME Init PROVE IInv
  OBVIOUS
<1> USE DEF Init
<1>1. TypeOK
  <2>1. mem \in [Addr -> StreamData]
    BY Types DEF Freed
  <2>2. /\ user_data \in [Stream -> Addr \cup {Null}]
        /\ source \in [Stream -> Addr \cup {Null}]
        /\ chunks \in [Stream -> 0 .. MaxChunks]
        /\ answers \in [Stream -> Nat]
        /\ want \in [Stream -> Size \cup {0}]
        /\ out \in [Stream -> 0 .. MaxOut]
    BY Types
  <2>3. /\ nstate \in [Stream -> {"idle", "headers", "open", "half_closed", "done", "reset"}]
        /\ response \in [Stream -> {"none", "ok", "file", "error"}]
        /\ phase \in {"serving", "failed", "deleting", "gone", "crashed"}
        /\ asked \in [Stream -> Requests \cup {Unknown}]
        /\ streams \subseteq Addr
    OBVIOUS
  <2>4. handled \in [Stream -> SUBSET ({"downloader", "uploader", "reply_404"}
                       \X (0 .. MaxChunks) \X {"none", "no boundary", "boundary"})]
    OBVIOUS
  <2> QED
    BY <2>1, <2>2, <2>3, <2>4 DEF TypeOK
<1>2. ASSUME NEW s \in Stream PROVE PointersOK(s) /\ RequestOK(s) /\ BodyOK(s)
  <2>1. PointersOK(s)
    BY DEF PointersOK, Live
  <2>2. RequestOK(s)
    BY DEF RequestOK
  <2>3. BodyOK(s)
    BY DEF BodyOK
  <2> QED
    BY <2>1, <2>2, <2>3
<1>3. OwnerInv /\ CrashInv
  BY DEF OwnerInv, CrashInv
<1>4. AnsweredOnce
  BY DEF AnsweredOnce
<1> QED
  BY <1>1, <1>2, <1>3, <1>4 DEF IInv, StreamInv
-----------------------------------------------------------------------------
(***************************************************************************)
(* A step of one stream leaves the others as they are.                     *)
(***************************************************************************)

\* Two streams have two objects.
LEMMA DistinctObjects ==
    ASSUME StreamInv, NEW s \in Stream, NEW t \in Stream, s # t, user_data[t] # Null
    PROVE  user_data[s] # user_data[t]
  BY DEF StreamInv, PointersOK, StreamDataOf

\* What nghttp2, the object and the history say of stream t is the same.
SameStream(t) ==
    /\ nstate'[t] = nstate[t]
    /\ user_data'[t] = user_data[t]
    /\ source'[t] = source[t]
    /\ response'[t] = response[t]
    /\ asked'[t] = asked[t]
    /\ chunks'[t] = chunks[t]
    /\ handled'[t] = handled[t]
    /\ answers'[t] = answers[t]
    /\ want'[t] = want[t]
    /\ out'[t] = out[t]
    /\ user_data[t] # Null => /\ mem'[user_data[t]] = mem[user_data[t]]
                              /\ user_data[t] \in streams'

\* What is known of a stream stays known in a step that does not concern it.
LEMMA SameStreamInv ==
    ASSUME NEW t \in Stream, SameStream(t), PointersOK(t), RequestOK(t), BodyOK(t)
    PROVE  PointersOK(t)' /\ RequestOK(t)' /\ BodyOK(t)'
<1>1. PointersOK(t)'
  BY DEF SameStream, PointersOK, StreamDataOf
<1>2. RequestOK(t)'
  <2>1. nstate[t] \in {"headers", "open"} => StreamDataOf(t)' = StreamDataOf(t)
    BY DEF SameStream, PointersOK, StreamDataOf, Live
  <2> QED
    BY <2>1 DEF SameStream, RequestOK
<1>3. BodyOK(t)'
  <2>1. response[t] = "file" => StreamDataOf(t)' = StreamDataOf(t)
    BY DEF SameStream, PointersOK, StreamDataOf, Live
  <2> QED
    BY <2>1 DEF SameStream, BodyOK
<1> QED
  BY <1>1, <1>2, <1>3

\* So it is enough to look at the stream that takes the step.
LEMMA OneStreamSteps ==
    ASSUME StreamInv, NEW s \in Stream, \A t \in Stream \ {s} : SameStream(t),
           PointersOK(s)', RequestOK(s)', BodyOK(s)'
    PROVE  StreamInv'
<1> SUFFICES ASSUME NEW t \in Stream PROVE PointersOK(t)' /\ RequestOK(t)' /\ BodyOK(t)'
  BY DEF StreamInv
<1>1. CASE t = s
  BY <1>1
<1>2. CASE t # s
  BY <1>2, SameStreamInv DEF StreamInv
<1> QED
  BY <1>1, <1>2

\* A step that leaves nghttp2's and the history's entries for every stream but
\* s alone, and every object but the one at a, which none of them owns.
OthersUntouched(s, a) ==
    /\ \A t \in Stream : t # s =>
          /\ user_data[t] # a
          /\ nstate'[t] = nstate[t] /\ user_data'[t] = user_data[t]
          /\ source'[t] = source[t] /\ response'[t] = response[t]
          /\ asked'[t] = asked[t] /\ chunks'[t] = chunks[t]
          /\ handled'[t] = handled[t] /\ answers'[t] = answers[t]
          /\ want'[t] = want[t] /\ out'[t] = out[t]
    /\ \A b \in streams : b # a => b \in streams' /\ mem'[b] = mem[b]

\* Such a step is the same for all the other streams.
LEMMA OthersSame ==
    ASSUME StreamInv, NEW s \in Stream, NEW a, OthersUntouched(s, a)
    PROVE  \A t \in Stream \ {s} : SameStream(t)
<1> SUFFICES ASSUME NEW t \in Stream, t # s PROVE SameStream(t)
  OBVIOUS
<1>1. /\ user_data[t] # a
      /\ nstate'[t] = nstate[t] /\ user_data'[t] = user_data[t]
      /\ source'[t] = source[t] /\ response'[t] = response[t]
      /\ asked'[t] = asked[t] /\ chunks'[t] = chunks[t]
      /\ handled'[t] = handled[t] /\ answers'[t] = answers[t]
      /\ want'[t] = want[t] /\ out'[t] = out[t]
  BY DEF OthersUntouched
<1>2. user_data[t] \in streams =>
        user_data[t] \in streams' /\ mem'[user_data[t]] = mem[user_data[t]]
  BY <1>1 DEF OthersUntouched
<1> QED
  BY <1>1, <1>2 DEF StreamInv, PointersOK, SameStream

\* on_begin_headers_callback: a new StreamData at an address that is free.
LEMMA BeginHeaders ==
    ASSUME IInv, NEW s \in Stream, on_begin_headers_callback(s) PROVE IInv'
<1>0. TypeOK /\ StreamInv /\ OwnerInv /\ AnsweredOnce
  BY DEF IInv
<1>1. PICK a \in Addr \ streams :
        /\ mem' = [mem EXCEPT ![a] = NewStreamData(s)]
        /\ streams' = streams \cup {a}
        /\ user_data' = [user_data EXCEPT ![s] = a]
  BY DEF on_begin_headers_callback
<1>2. /\ phase = "serving" /\ phase' = phase
      /\ nstate[s] \in {"idle", "done", "reset"}
      /\ nstate' = [nstate EXCEPT ![s] = "headers"]
      /\ source' = source /\ response' = response
  BY DEF on_begin_headers_callback
<1>3. /\ asked' = [t \in Stream |-> IF t = s THEN Unknown ELSE asked[t]]
      /\ handled' = [t \in Stream |-> IF t = s THEN {} ELSE handled[t]]
      /\ chunks' = [t \in Stream |-> IF t = s THEN 0 ELSE chunks[t]]
      /\ answers' = [t \in Stream |-> IF t = s THEN 0 ELSE answers[t]]
      /\ want' = [t \in Stream |-> IF t = s THEN 0 ELSE want[t]]
      /\ out' = [t \in Stream |-> IF t = s THEN 0 ELSE out[t]]
  BY DEF on_begin_headers_callback, Forget
<1>4. a # Null /\ user_data[s] = Null /\ response[s] = "none" /\ source[s] = Null
  BY <1>0, <1>2, Types DEF StreamInv, PointersOK, Live
<1>5. /\ mem'[a] = NewStreamData(s) /\ user_data'[s] = a /\ nstate'[s] = "headers"
      /\ \A b \in Addr : b # a => mem'[b] = mem[b]
      /\ \A t \in Stream : t # s => user_data'[t] = user_data[t] /\ nstate'[t] = nstate[t]
  BY <1>0, <1>1, <1>2 DEF TypeOK
<1>6. TypeOK'
  <2>1. /\ mem' \in [Addr -> StreamData] /\ streams' \subseteq Addr
        /\ user_data' \in [Stream -> Addr \cup {Null}]
    BY <1>0, <1>1, Types DEF TypeOK
  <2>2. chunks' \in [Stream -> 0 .. MaxChunks] /\ answers' \in [Stream -> Nat]
    BY <1>0, <1>3, Types DEF TypeOK
  <2>5. want' \in [Stream -> Size \cup {0}] /\ out' \in [Stream -> 0 .. MaxOut]
    BY <1>0, <1>3, Types DEF TypeOK
  <2>6. asked' \in [Stream -> Requests \cup {Unknown}]
    BY <1>0, <1>3 DEF TypeOK
  <2>3. handled' \in [Stream -> SUBSET ({"downloader", "uploader", "reply_404"}
                       \X (0 .. MaxChunks) \X {"none", "no boundary", "boundary"})]
    BY <1>0, <1>3 DEF TypeOK
  <2>4. nstate' \in [Stream -> {"idle", "headers", "open", "half_closed", "done", "reset"}]
    BY <1>0, <1>2 DEF TypeOK
  <2> QED
    BY <1>0, <1>2, <2>1, <2>2, <2>3, <2>4, <2>5, <2>6 DEF TypeOK
<1>7. \A t \in Stream \ {s} : SameStream(t)
  <2>1. \A t \in Stream : t # s => user_data[t] # a
    BY <1>0, <1>4 DEF StreamInv, PointersOK
  <2>2. OthersUntouched(s, a)
    BY <1>0, <1>1, <1>2, <1>3, <1>5, <2>1 DEF TypeOK, OthersUntouched
  <2> QED
    BY <1>0, <2>2, OthersSame
<1>8. PointersOK(s)'
  <2>1. NewStreamData(s).stream_id = s
    BY DEF NewStreamData
  <2> QED
    BY <1>1, <1>2, <1>4, <1>5, <2>1 DEF PointersOK, StreamDataOf, Live
<1>9. RequestOK(s)'
  BY <1>3, <1>5 DEF RequestOK, StreamDataOf
<1>10. BodyOK(s)'
  BY <1>2, <1>4, <1>5 DEF BodyOK
<1>11. StreamInv'
  BY <1>0, <1>7, <1>8, <1>9, <1>10, OneStreamSteps
<1>12. OwnerInv'
  <2> SUFFICES ASSUME NEW b \in streams' PROVE \E t \in Stream : user_data'[t] = b
    BY <1>2 DEF OwnerInv
  <2>1. CASE b = a
    BY <1>5, <2>1
  <2>2. CASE b # a
    <3>1. b \in streams /\ b # Null
      BY <1>0, <1>1, <2>2, Types DEF TypeOK
    <3>2. PICK t \in Stream : user_data[t] = b
      BY <1>0, <1>2, <3>1 DEF OwnerInv
    <3> QED
      BY <1>4, <1>5, <3>1, <3>2
  <2> QED
    BY <2>1, <2>2
<1>13. AnsweredOnce'
  BY <1>0, <1>2, <1>3, <1>5 DEF AnsweredOnce
<1>14. CrashInv'
  BY <1>2 DEF CrashInv
<1> QED
  BY <1>6, <1>11, <1>12, <1>13, <1>14 DEF IInv

\* The object after on_header_callback.
LEMMA HeaderFields ==
    ASSUME NEW s \in Stream, NEW r \in Requests
    PROVE  LET e == Filled(NewStreamData(s), r) IN
           /\ e \in StreamData
           /\ e.stream_id = s
           /\ e.path = r.path
           /\ e.method = IF r.method = "other" THEN "uninitialised" ELSE r.method
           /\ e.mime_parser = Parser(r)
           /\ e.upload_file_buffer = 0 /\ e.size = 0 /\ e.offset = 0
<1> DEFINE d == NewStreamData(s)
           e == Filled(d, r)
<1>1. d \in StreamData
  BY Types
<1>2. r.method \in {"GET", "POST", "other"} /\ r.path \in Path
  BY Types DEF Request
<1>3. Parser(r) \in {"none", "no boundary", "boundary"}
  BY DEF Parser
<1>4. d.method = "uninitialised" /\ d.mime_parser = "none"
  BY DEF NewStreamData
<1>5. e = [d EXCEPT !.path = r.path,
                    !.method = IF r.method = "other" THEN "uninitialised" ELSE r.method,
                    !.mime_parser = Parser(r)]
  BY <1>4 DEF Parser, Filled
<1> HIDE DEF e
<1>6. e \in StreamData
  <2> DEFINE m == IF r.method = "other" THEN "uninitialised" ELSE r.method
  <2>1. m \in {"GET", "POST", "uninitialised"}
    BY <1>2
  <2>2. r.path \in {""} \cup Path
    BY <1>2
  <2>3. e = [d EXCEPT !.path = r.path, !.method = m, !.mime_parser = Parser(r)]
    BY <1>5
  <2> HIDE DEF d, m
  <2> QED
    BY <1>1, <1>3, <2>1, <2>2, <2>3 DEF StreamData
<1> QED
  BY <1>5, <1>6 DEF NewStreamData, e

\* on_header_callback fills in the StreamData of its own stream only.
LEMMA Header ==
    ASSUME IInv, NEW s \in Stream, on_header_callback(s) PROVE IInv'
<1>0. TypeOK /\ StreamInv /\ OwnerInv /\ AnsweredOnce
  BY DEF IInv
<1> DEFINE a == user_data[s]
<1>1. PICK r \in Requests : /\ asked' = [asked EXCEPT ![s] = r]
                            /\ mem' = [mem EXCEPT ![a] = Filled(@, r)]
  BY DEF on_header_callback
<1>2. /\ phase = "serving" /\ nstate[s] = "headers"
      /\ nstate' = [nstate EXCEPT ![s] = "open"]
      /\ UNCHANGED <<user_data, source, response, streams, phase, chunks, handled,
                     answers, want, out>>
  BY DEF on_header_callback
<1>3. a \in Addr /\ a # Null /\ mem[a] = NewStreamData(s) /\ chunks[s] = 0
  BY <1>0, <1>2 DEF TypeOK, StreamInv, PointersOK, RequestOK, StreamDataOf, Live
<1>5. /\ mem'[a] \in StreamData
      /\ mem'[a].stream_id = s
      /\ mem'[a].path = r.path
      /\ mem'[a].method = IF r.method = "other" THEN "uninitialised" ELSE r.method
      /\ mem'[a].mime_parser = Parser(r)
      /\ mem'[a].upload_file_buffer = 0 /\ mem'[a].size = 0 /\ mem'[a].offset = 0
  <2>1. mem'[a] = Filled(NewStreamData(s), r)
    BY <1>0, <1>1, <1>3 DEF TypeOK
  <2> QED
    BY <2>1, HeaderFields
<1> HIDE DEF a
<1>6. \A b \in Addr : b # a => mem'[b] = mem[b]
  BY <1>0, <1>1 DEF TypeOK
<1>7. TypeOK'
  <2>2. mem' \in [Addr -> StreamData]
    BY <1>0, <1>1, <1>3, <1>5 DEF TypeOK
  <2> QED
    BY <1>0, <1>1, <1>2, <2>2 DEF TypeOK
<1>8. \A t \in Stream \ {s} : SameStream(t)
  <2>1. \A t \in Stream : t # s => user_data[t] # a
    BY <1>0, <1>3, DistinctObjects DEF a
  <2>2. OthersUntouched(s, a)
    BY <1>0, <1>1, <1>2, <1>6, <2>1 DEF TypeOK, OthersUntouched
  <2> QED
    BY <1>0, <2>2, OthersSame
<1>9. nstate'[s] = "open" /\ asked'[s] = r /\ StreamDataOf(s)' = mem'[a]
  BY <1>0, <1>1, <1>2 DEF TypeOK, StreamDataOf, a
<1>10. PointersOK(s)'
  BY <1>0, <1>2, <1>3, <1>5, <1>9 DEF StreamInv, PointersOK, Live, a
<1>11. RequestOK(s)'
  BY <1>0, <1>2, <1>3, <1>5, <1>9 DEF StreamInv, RequestOK
<1>12. BodyOK(s)'
  BY <1>0, <1>2, <1>9 DEF StreamInv, BodyOK, PointersOK
<1>13. StreamInv'
  BY <1>0, <1>8, <1>10, <1>11, <1>12, OneStreamSteps
<1>14. OwnerInv'
  BY <1>0, <1>2 DEF OwnerInv
<1>15. AnsweredOnce'
  BY <1>0, <1>2 DEF AnsweredOnce, TypeOK
<1>16. CrashInv'
  BY <1>2 DEF CrashInv
<1> QED
  BY <1>7, <1>13, <1>14, <1>15, <1>16 DEF IInv

\* on_data_chunk_recv_callback adds to the upload buffer of its own stream.
LEMMA DataChunk ==
    ASSUME IInv, NEW s \in Stream, on_data_chunk_recv_callback(s) PROVE IInv'
<1>0. TypeOK /\ StreamInv /\ OwnerInv /\ AnsweredOnce
  BY DEF IInv
<1> DEFINE a == user_data[s]
<1>1. /\ phase = "serving" /\ nstate[s] = "open" /\ chunks[s] < MaxChunks
      /\ chunks' = [chunks EXCEPT ![s] = @ + 1]
      /\ UNCHANGED <<nstate, user_data, source, response, streams, phase, asked, handled,
                     answers, want, out>>
  BY DEF on_data_chunk_recv_callback, h2Vars
<1>2. mem' = [mem EXCEPT ![a].upload_file_buffer = @ + 1]
  BY DEF on_data_chunk_recv_callback
<1>3. a \in Addr /\ a # Null
  BY <1>0, <1>1 DEF TypeOK, StreamInv, PointersOK, Live
<1>4. mem[a].upload_file_buffer = chunks[s]
  BY <1>0, <1>1 DEF StreamInv, RequestOK, StreamDataOf
<1> HIDE DEF a
<1>5. mem[a] \in StreamData /\ mem'[a] = [mem[a] EXCEPT !.upload_file_buffer = @ + 1]
  BY <1>0, <1>2, <1>3 DEF TypeOK
<1>6. chunks'[s] = chunks[s] + 1 /\ chunks'[s] \in 0 .. MaxChunks
  <2>1. chunks[s] \in 0 .. MaxChunks /\ chunks'[s] = chunks[s] + 1 /\ MaxChunks \in Nat
    BY <1>0, <1>1, Types DEF TypeOK
  <2> QED
    BY <1>1, <2>1
<1>7. /\ mem'[a] \in StreamData
      /\ mem'[a].upload_file_buffer = chunks'[s]
      /\ mem'[a].stream_id = mem[a].stream_id /\ mem'[a].path = mem[a].path
      /\ mem'[a].method = mem[a].method /\ mem'[a].mime_parser = mem[a].mime_parser
      /\ mem'[a].size = mem[a].size /\ mem'[a].offset = mem[a].offset
  BY <1>4, <1>5, <1>6 DEF StreamData
<1>8. \A b \in Addr : b # a => mem'[b] = mem[b]
  BY <1>0, <1>2 DEF TypeOK
<1>9. TypeOK'
  <2>1. mem' \in [Addr -> StreamData]
    BY <1>0, <1>2, <1>3, <1>5, <1>7, <1>8 DEF TypeOK
  <2>2. chunks' \in [Stream -> 0 .. MaxChunks]
    BY <1>0, <1>1, <1>6 DEF TypeOK
  <2> QED
    BY <1>0, <1>1, <2>1, <2>2 DEF TypeOK
<1>10. \A t \in Stream \ {s} : SameStream(t)
  <2>1. \A t \in Stream : t # s => user_data[t] # a
    BY <1>0, <1>3, DistinctObjects DEF a
  <2>2. OthersUntouched(s, a)
    BY <1>0, <1>1, <1>8, <2>1 DEF TypeOK, OthersUntouched
  <2> QED
    BY <1>0, <2>2, OthersSame
<1>11. StreamDataOf(s)' = mem'[a] /\ StreamDataOf(s) = mem[a]
  BY <1>1 DEF StreamDataOf, a
<1>12. PointersOK(s)'
  BY <1>0, <1>1, <1>7, <1>11 DEF StreamInv, PointersOK
<1>13. RequestOK(s)'
  BY <1>0, <1>1, <1>7, <1>11 DEF StreamInv, RequestOK
<1>14. BodyOK(s)'
  BY <1>0, <1>1 DEF StreamInv, PointersOK, BodyOK
<1>15. StreamInv'
  BY <1>0, <1>10, <1>12, <1>13, <1>14, OneStreamSteps
<1>16. OwnerInv' /\ AnsweredOnce' /\ CrashInv'
  BY <1>0, <1>1 DEF OwnerInv, AnsweredOnce, CrashInv
<1> QED
  BY <1>9, <1>15, <1>16 DEF IInv
-----------------------------------------------------------------------------
(***************************************************************************)
(* A stream closes, whatever the reason.                                   *)
(***************************************************************************)
LEMMA Close ==
    ASSUME IInv, NEW s \in Stream, nstate[s] \in Live, phase = "serving", phase' = "serving",
           NEW end \in {"done", "reset"}, NEW m,
           m \in [Addr -> StreamData],
           \A b \in Addr : b # user_data[s] => m[b] = mem[b],
           on_stream_close_callback(s, end, m),
           \A t \in Stream : t # s =>
               /\ asked'[t] = asked[t] /\ chunks'[t] = chunks[t]
               /\ handled'[t] = handled[t] /\ answers'[t] = answers[t]
               /\ want'[t] = want[t] /\ out'[t] = out[t]
    PROVE  /\ nstate' \in [Stream -> {"idle", "headers", "open", "half_closed", "done",
                                     "reset"}]
           /\ user_data' \in [Stream -> Addr \cup {Null}]
           /\ source' \in [Stream -> Addr \cup {Null}]
           /\ response' \in [Stream -> {"none", "ok", "file", "error"}]
           /\ streams' \subseteq Addr
           /\ mem' \in [Addr -> StreamData]
           /\ nstate'[s] = end /\ response'[s] = "none"
           /\ PointersOK(s)'
           /\ \A t \in Stream \ {s} : SameStream(t)
           /\ OwnerInv'
<1>0. TypeOK /\ StreamInv /\ OwnerInv
  BY DEF IInv
<1> DEFINE a == user_data[s]
<1>1. /\ streams' = streams \ {a}
      /\ mem' = [m EXCEPT ![a] = Freed]
      /\ nstate' = [nstate EXCEPT ![s] = end]
      /\ user_data' = [user_data EXCEPT ![s] = Null]
      /\ source' = [source EXCEPT ![s] = Null]
      /\ response' = [response EXCEPT ![s] = "none"]
  BY DEF on_stream_close_callback, delete_stream_data
<1>2. a \in Addr /\ a # Null
  BY <1>0 DEF TypeOK, StreamInv, PointersOK
<1> HIDE DEF a
<1>3. /\ nstate' \in [Stream -> {"idle", "headers", "open", "half_closed", "done", "reset"}]
      /\ response' \in [Stream -> {"none", "ok", "file", "error"}]
  BY <1>0, <1>1 DEF TypeOK
<1>4. /\ user_data' \in [Stream -> Addr \cup {Null}]
      /\ source' \in [Stream -> Addr \cup {Null}]
      /\ streams' \subseteq Addr
  BY <1>0, <1>1 DEF TypeOK
<1>5. mem' \in [Addr -> StreamData]
  BY <1>1, Types DEF Freed
<1>6. /\ nstate'[s] = end /\ user_data'[s] = Null /\ source'[s] = Null /\ response'[s] = "none"
      /\ \A t \in Stream : t # s =>
           /\ nstate'[t] = nstate[t] /\ user_data'[t] = user_data[t]
           /\ source'[t] = source[t] /\ response'[t] = response[t]
  BY <1>0, <1>1 DEF TypeOK
<1>7. \A b \in Addr : b # a => mem'[b] = mem[b]
  BY <1>1 DEF a
<1>8. \A t \in Stream : t # s => user_data[t] # a
  BY <1>0, <1>2, DistinctObjects DEF a
<1>9. \A t \in Stream \ {s} : SameStream(t)
  <2>1. \A b \in streams : b # a => b \in streams' /\ mem'[b] = mem[b]
    BY <1>0, <1>1, <1>7 DEF TypeOK
  <2>2. OthersUntouched(s, a)
    BY <1>6, <1>8, <2>1 DEF OthersUntouched
  <2> QED
    BY <1>0, <2>2, OthersSame
<1>10. PointersOK(s)'
  BY <1>6 DEF PointersOK, Live
<1>11. OwnerInv'
  <2> SUFFICES ASSUME NEW b \in streams' PROVE \E t \in Stream : user_data'[t] = b
    BY DEF OwnerInv
  <2>1. b \in streams /\ b # a
    BY <1>1
  <2>2. PICK t \in Stream : user_data[t] = b
    BY <1>0, <2>1 DEF OwnerInv
  <2> QED
    BY <1>6, <2>1, <2>2 DEF a
<1> QED
  BY <1>3, <1>4, <1>5, <1>6, <1>9, <1>10, <1>11

\* RST_STREAM in any state of a stream deletes its StreamData and no other.
LEMMA ResetStream ==
    ASSUME IInv, NEW s \in Stream, Reset(s) PROVE IInv'
<1>0. TypeOK /\ StreamInv /\ AnsweredOnce
  BY DEF IInv
<1>1. /\ phase = "serving" /\ phase' = phase
      /\ nstate[s] \in Live
      /\ on_stream_close_callback(s, "reset", mem)
  BY DEF Reset, Live
<1>2. /\ asked' = [t \in Stream |-> IF t = s THEN Unknown ELSE asked[t]]
      /\ handled' = [t \in Stream |-> IF t = s THEN {} ELSE handled[t]]
      /\ chunks' = [t \in Stream |-> IF t = s THEN 0 ELSE chunks[t]]
      /\ answers' = [t \in Stream |-> IF t = s THEN 0 ELSE answers[t]]
      /\ want' = [t \in Stream |-> IF t = s THEN 0 ELSE want[t]]
      /\ out' = [t \in Stream |-> IF t = s THEN 0 ELSE out[t]]
  BY DEF Reset, Forget
<1>3. /\ nstate' \in [Stream -> {"idle", "headers", "open", "half_closed", "done", "reset"}]
      /\ user_data' \in [Stream -> Addr \cup {Null}]
      /\ source' \in [Stream -> Addr \cup {Null}]
      /\ response' \in [Stream -> {"none", "ok", "file", "error"}]
      /\ streams' \subseteq Addr
      /\ mem' \in [Addr -> StreamData]
      /\ nstate'[s] = "reset" /\ response'[s] = "none"
      /\ PointersOK(s)'
      /\ \A t \in Stream \ {s} : SameStream(t)
      /\ OwnerInv'
  <2>1. mem \in [Addr -> StreamData]
    BY <1>0 DEF TypeOK
  <2> QED
    BY <1>1, <1>2, <2>1, Close
<1>4. TypeOK'
  <2>1. chunks' \in [Stream -> 0 .. MaxChunks] /\ answers' \in [Stream -> Nat]
    BY <1>0, <1>2, Types DEF TypeOK
  <2>2. want' \in [Stream -> Size \cup {0}] /\ out' \in [Stream -> 0 .. MaxOut]
    BY <1>0, <1>2, Types DEF TypeOK
  <2>3. asked' \in [Stream -> Requests \cup {Unknown}]
    BY <1>0, <1>2 DEF TypeOK
  <2>4. handled' \in [Stream -> SUBSET ({"downloader", "uploader", "reply_404"}
                       \X (0 .. MaxChunks) \X {"none", "no boundary", "boundary"})]
    BY <1>0, <1>2 DEF TypeOK
  <2> QED
    BY <1>0, <1>1, <1>3, <2>1, <2>2, <2>3, <2>4 DEF TypeOK
<1>5. RequestOK(s)' /\ BodyOK(s)'
  BY <1>2, <1>3 DEF RequestOK, BodyOK
<1>6. StreamInv'
  BY <1>0, <1>3, <1>5, OneStreamSteps
<1>7. AnsweredOnce'
  <2>1. \A t \in Stream : t # s => nstate'[t] = nstate[t] /\ answers'[t] = answers[t]
    BY <1>3 DEF SameStream
  <2> QED
    BY <1>0, <1>1, <1>2, <1>3, <2>1 DEF AnsweredOnce
<1>8. CrashInv'
  BY <1>1 DEF CrashInv
<1> QED
  BY <1>3, <1>4, <1>6, <1>7, <1>8 DEF IInv
-----------------------------------------------------------------------------
(***************************************************************************)
(* A request is complete and its handler runs.                             *)
(***************************************************************************)

\* What a handler may answer.
LEMMA ReplyTypes ==
    ASSUME NEW h, NEW reply \in Reply(h)
    PROVE  /\ reply.response \in {"ok", "file", "error"}
           /\ reply.size \in Size \cup {0}
           /\ reply.response # "file" => reply.size = 0
           /\ reply.data \in {"nullptr", "mapped", "MAP_FAILED"}
  BY DEF Reply

\* The handler and what it sees.
LEMMA HandledTypes ==
    ASSUME NEW method, NEW path, NEW n \in 0 .. MaxChunks,
           NEW parser \in {"none", "no boundary", "boundary"}
    PROVE  <<Handler(method, path), n, parser>> \in
               {"downloader", "uploader", "reply_404"}
                  \X (0 .. MaxChunks) \X {"none", "no boundary", "boundary"}
  BY DEF Handler

\* The object after a handler has put a file into it, and after ~Request.
Answered(d, size, data) ==
    [d EXCEPT !.upload_file_buffer = 0, !.size = size, !.data = data]

\* It is a StreamData of the same stream, with that size.
LEMMA AnsweredFields ==
    ASSUME NEW d \in StreamData, NEW size \in Size \cup {0},
           NEW data \in {"nullptr", "mapped", "MAP_FAILED"}
    PROVE  /\ Answered(d, size, data) \in StreamData
           /\ Answered(d, size, data).stream_id = d.stream_id
           /\ Answered(d, size, data).size = size
           /\ Answered(d, size, data).offset = d.offset
<1>1. 0 \in 0 .. MaxChunks
  BY Types
<1> QED
  BY <1>1 DEF StreamData, Answered

\* The object after ~Request alone.
LEMMA ClearedFields ==
    ASSUME NEW d \in StreamData
    PROVE  LET e == [d EXCEPT !.upload_file_buffer = 0] IN
           e \in StreamData /\ e.stream_id = d.stream_id
<1>1. 0 \in 0 .. MaxChunks
  BY Types
<1> QED
  BY <1>1 DEF StreamData

\* on_frame_recv_callback runs the handler once, which submits one answer or
\* ends the process on an uninitialised method.
LEMMA FrameRecv ==
    ASSUME IInv, NEW s \in Stream, on_frame_recv_callback(s) PROVE IInv'
<1>0. TypeOK /\ StreamInv /\ OwnerInv /\ AnsweredOnce
  BY DEF IInv
<1> DEFINE a == user_data[s]
           d == StreamDataOf(s)
           r == asked[s]
<1>1. /\ phase = "serving" /\ nstate[s] = "open"
      /\ nstate' = [nstate EXCEPT ![s] = "half_closed"]
      /\ UNCHANGED <<user_data, streams, asked, chunks, out>>
  BY DEF on_frame_recv_callback
<1>2. PICK method \in MethodRead(d.method) :
        LET handler == Handler(method, d.path) IN
        /\ handled' = [handled EXCEPT
                   ![s] = @ \cup {<<handler, d.upload_file_buffer, d.mime_parser>>}]
        /\ \/ \E reply \in Reply(handler) : Answer(s, reply)
           \/ AnswerFails(s)
           \/ /\ IndexesOutside(method, d.path)
              /\ phase' = "crashed"
              /\ UNCHANGED <<mem, response, source, answers, want>>
  BY DEF on_frame_recv_callback, on_request_recv
<1>3. a \in Addr /\ a # Null /\ a \in streams /\ d = mem[a] /\ d \in StreamData
  BY <1>0, <1>1 DEF TypeOK, StreamInv, PointersOK, Live, StreamDataOf
<1>4. d.stream_id = s /\ response[s] = "none" /\ source[s] = Null
  BY <1>0, <1>1, <1>3 DEF StreamInv, PointersOK
<1>5. /\ handled[s] = {} /\ answers[s] = 0 /\ want[s] = 0 /\ out[s] = 0
      /\ r \in Requests
      /\ d.path = r.path
      /\ d.method = IF r.method = "other" THEN "uninitialised" ELSE r.method
      /\ d.mime_parser = Parser(r)
      /\ d.upload_file_buffer = chunks[s]
      /\ d.size = 0
      /\ d.offset = 0
  BY <1>0, <1>1 DEF StreamInv, RequestOK
<1>6. r.method \in {"GET", "POST", "other"} /\ (r.method # "other" => method = r.method)
  <2>1. r.method \in {"GET", "POST", "other"}
    BY <1>5, Types DEF Request
  <2> QED
    BY <1>2, <1>5, <2>1 DEF MethodRead
<1> HIDE DEF a, d, r
<1> DEFINE h == <<Handler(method, r.path), chunks[s], Parser(r)>>
<1>7. handled'[s] = {h} /\ \A t \in Stream : t # s => handled'[t] = handled[t]
  BY <1>0, <1>2, <1>5 DEF TypeOK
<1>8. handled' \in [Stream -> SUBSET ({"downloader", "uploader", "reply_404"}
                       \X (0 .. MaxChunks) \X {"none", "no boundary", "boundary"})]
  <2>1. chunks[s] \in 0 .. MaxChunks /\ Parser(r) \in {"none", "no boundary", "boundary"}
    BY <1>0 DEF TypeOK, Parser
  <2>2. h \in {"downloader", "uploader", "reply_404"}
                  \X (0 .. MaxChunks) \X {"none", "no boundary", "boundary"}
    BY <2>1, HandledTypes
  <2> HIDE DEF h
  <2>3. handled' = [handled EXCEPT ![s] = handled[s] \cup {h}]
    BY <1>2, <1>5 DEF h
  <2> QED
    BY <1>0, <2>2, <2>3 DEF TypeOK
<1>9. nstate' \in [Stream -> {"idle", "headers", "open", "half_closed", "done", "reset"}]
  BY <1>0, <1>1 DEF TypeOK
<1>10. nstate'[s] = "half_closed" /\ \A t \in Stream : t # s => nstate'[t] = nstate[t]
  BY <1>0, <1>1 DEF TypeOK
<1>11. \A t \in Stream : t # s => user_data[t] # a
  BY <1>0, <1>3, DistinctObjects DEF a
<1>12. RequestOK(s)'
  <2>1. asked'[s] = r /\ chunks'[s] = chunks[s]
    BY <1>1 DEF r
  <2> QED
    BY <1>6, <1>7, <1>10, <2>1 DEF RequestOK
\* Whatever the handler did, it is enough to know this of it.
<1>13. ASSUME \A t \in Stream : t # s =>
                source'[t] = source[t] /\ response'[t] = response[t]
                /\ answers'[t] = answers[t] /\ want'[t] = want[t],
              \A b \in Addr : b # a => mem'[b] = mem[b],
              mem'[a].stream_id = s,
              source'[s] = IF response'[s] = "file" THEN a ELSE Null,
              BodyOK(s)'
       PROVE  StreamInv'
  <2>1. \A t \in Stream \ {s} : SameStream(t)
    <3>1. \A b \in streams : b # a => b \in streams' /\ mem'[b] = mem[b]
      BY <1>0, <1>1, <1>13 DEF TypeOK
    <3>2. \A t \in Stream : t # s =>
            /\ user_data[t] # a
            /\ nstate'[t] = nstate[t] /\ user_data'[t] = user_data[t]
            /\ source'[t] = source[t] /\ response'[t] = response[t]
            /\ asked'[t] = asked[t] /\ chunks'[t] = chunks[t]
            /\ handled'[t] = handled[t] /\ answers'[t] = answers[t]
            /\ want'[t] = want[t] /\ out'[t] = out[t]
      BY <1>1, <1>7, <1>10, <1>11, <1>13
    <3>3. OthersUntouched(s, a)
      BY <3>1, <3>2 DEF OthersUntouched
    <3> QED
      BY <1>0, <3>3, OthersSame
  <2>2. PointersOK(s)'
    BY <1>1, <1>3, <1>10, <1>13 DEF PointersOK, Live, StreamDataOf, a
  <2> QED
    BY <1>0, <1>12, <1>13, <2>1, <2>2, OneStreamSteps
<1>14. phase' \in {"serving", "failed", "crashed"} => OwnerInv'
  BY <1>0, <1>1 DEF OwnerInv
<1>15. ASSUME NEW reply \in Reply(Handler(method, d.path)), Answer(s, reply) PROVE IInv'
  <2> DEFINE kind == reply.response
             size == reply.size
             data == reply.data
  <2>1. /\ mem' = [mem EXCEPT ![a].upload_file_buffer = 0, ![a].size = size,
                              ![a].data = data]
        /\ response' = [response EXCEPT ![s] = kind]
        /\ source' = [source EXCEPT ![s] = IF kind = "file" THEN a ELSE Null]
        /\ want' = [want EXCEPT ![s] = size]
        /\ phase' = phase
    BY <1>15 DEF Answer, a
  <2>a. answers' = [answers EXCEPT ![s] = @ + 1] /\ answers \in [Stream -> Nat]
    BY <1>0, <1>15 DEF Answer, TypeOK
  <2> HIDE DEF h
  <2>b. /\ kind \in {"ok", "file", "error"}
        /\ size \in Size \cup {0}
        /\ kind # "file" => size = 0
        /\ data \in {"nullptr", "mapped", "MAP_FAILED"}
    BY <1>15, ReplyTypes
  <2> HIDE DEF kind, size, data
  <2>2. /\ kind \in {"ok", "file", "error"}
        /\ size \in Size \cup {0} /\ size \in Nat
        /\ kind # "file" => size = 0
    BY <2>b, Types
  <2>3. mem'[a] = Answered(d, size, data)
    BY <1>0, <1>3, <2>1 DEF TypeOK, Answered
  <2>4. /\ mem'[a] \in StreamData
        /\ mem'[a].stream_id = s /\ mem'[a].size = size /\ mem'[a].offset = 0
    <3>1. /\ mem'[a] \in StreamData
          /\ mem'[a].stream_id = d.stream_id /\ mem'[a].size = size /\ mem'[a].offset = d.offset
      BY <1>3, <2>b, <2>3, AnsweredFields
    <3> QED
      BY <1>4, <1>5, <3>1
  <2>5. \A b \in Addr : b # a => mem'[b] = mem[b]
    BY <1>0, <2>1 DEF TypeOK
  <2>6. TypeOK'
    <3>1. mem' \in [Addr -> StreamData]
      BY <1>0, <2>1, <2>4, <2>5 DEF TypeOK
    <3>2. /\ response' \in [Stream -> {"none", "ok", "file", "error"}]
          /\ source' \in [Stream -> Addr \cup {Null}]
      BY <1>0, <1>3, <2>1, <2>2 DEF TypeOK
    <3>3. answers' \in [Stream -> Nat]
      BY <2>a
    <3>4. want' \in [Stream -> Size \cup {0}]
      BY <1>0, <2>1, <2>2 DEF TypeOK
    <3> QED
      BY <1>0, <1>1, <1>8, <1>9, <2>1, <3>1, <3>2, <3>3, <3>4 DEF TypeOK
  <2>7. /\ response'[s] = kind /\ want'[s] = size
        /\ source'[s] = IF kind = "file" THEN a ELSE Null
    BY <1>0, <2>1 DEF TypeOK
  <2>8. \A t \in Stream : t # s =>
          source'[t] = source[t] /\ response'[t] = response[t]
          /\ answers'[t] = answers[t] /\ want'[t] = want[t]
    BY <1>0, <2>1, <2>a DEF TypeOK
  <2>9. answers'[s] = 1
    BY <1>5, <2>a
  <2>10. BodyOK(s)'
    <3>1. out'[s] = 0 /\ StreamDataOf(s)' = mem'[a]
      BY <1>1, <1>5 DEF StreamDataOf, a
    <3> QED
      BY <1>10, <2>2, <2>4, <2>7, <3>1 DEF BodyOK
  <2>11. StreamInv'
    BY <1>13, <2>4, <2>5, <2>7, <2>8, <2>10
  <2>12. AnsweredOnce'
    BY <1>0, <1>1, <1>10, <2>1, <2>8, <2>9 DEF AnsweredOnce
  <2>13. CrashInv'
    BY <1>1, <2>1 DEF CrashInv
  <2> QED
    BY <1>1, <1>14, <2>1, <2>6, <2>11, <2>12, <2>13 DEF IInv
<1>16. CASE AnswerFails(s)
  <2>1. /\ mem' = [mem EXCEPT ![a].upload_file_buffer = 0]
        /\ phase' = "failed"
        /\ UNCHANGED <<source, response, answers, want>>
    BY <1>16 DEF AnswerFails, a
  <2>2. mem'[a] = [d EXCEPT !.upload_file_buffer = 0]
    BY <1>0, <1>3, <2>1 DEF TypeOK
  <2>3. mem'[a] \in StreamData /\ mem'[a].stream_id = s
    BY <1>3, <1>4, <2>2, ClearedFields
  <2>4. \A b \in Addr : b # a => mem'[b] = mem[b]
    BY <1>0, <2>1 DEF TypeOK
  <2>5. TypeOK'
    <3>1. mem' \in [Addr -> StreamData]
      BY <1>0, <2>1, <2>3, <2>4 DEF TypeOK
    <3> QED
      BY <1>0, <1>1, <1>8, <1>9, <2>1, <3>1 DEF TypeOK
  <2>6. BodyOK(s)'
    BY <1>4, <1>10, <2>1 DEF BodyOK
  <2>7. StreamInv'
    BY <1>4, <1>13, <2>1, <2>3, <2>4, <2>6
  <2>8. AnsweredOnce' /\ CrashInv'
    BY <2>1 DEF AnsweredOnce, CrashInv
  <2> QED
    BY <1>14, <2>1, <2>5, <2>7, <2>8 DEF IInv
<1>17. CASE /\ IndexesOutside(method, d.path)
            /\ phase' = "crashed"
            /\ UNCHANGED <<mem, response, source, answers, want>>
  <2>1. r.method = "other" /\ r.path # "none"
    BY <1>5, <1>6, <1>17 DEF IndexesOutside
  <2>2. TypeOK'
    BY <1>0, <1>1, <1>8, <1>9, <1>17 DEF TypeOK
  <2>3. BodyOK(s)'
    BY <1>4, <1>10, <1>17 DEF BodyOK
  <2>4. StreamInv'
    BY <1>3, <1>4, <1>13, <1>17, <2>3
  <2>5. AnsweredOnce' /\ CrashInv'
    BY <1>1, <1>17, <2>1 DEF AnsweredOnce, CrashInv, r
  <2> QED
    BY <1>14, <1>17, <2>2, <2>4, <2>5 DEF IInv
<1> QED
  BY <1>2, <1>15, <1>16, <1>17
-----------------------------------------------------------------------------
(***************************************************************************)
(* A response is sent.                                                     *)
(***************************************************************************)

\* The last frame of a response closes its stream.
LEMMA ResponseDone ==
    ASSUME IInv, NEW s \in Stream, phase = "serving", phase' = "serving",
           nstate[s] = "half_closed",
           NEW m, m \in [Addr -> StreamData],
           \A b \in Addr : b # user_data[s] => m[b] = mem[b],
           on_stream_close_callback(s, "done", m),
           UNCHANGED <<asked, chunks, handled, answers, want>>,
           out' \in [Stream -> 0 .. MaxOut],
           \A t \in Stream : t # s => out'[t] = out[t],
           want[s] <= IntMax =>
               out'[s] \in {want[s]} \cup (IF want[s] = 0 THEN 1 .. ErrorLength ELSE {})
    PROVE  IInv'
<1>0. TypeOK /\ StreamInv /\ AnsweredOnce
  BY DEF IInv
<1>1. /\ nstate' \in [Stream -> {"idle", "headers", "open", "half_closed", "done", "reset"}]
      /\ user_data' \in [Stream -> Addr \cup {Null}]
      /\ source' \in [Stream -> Addr \cup {Null}]
      /\ response' \in [Stream -> {"none", "ok", "file", "error"}]
      /\ streams' \subseteq Addr
      /\ mem' \in [Addr -> StreamData]
      /\ nstate'[s] = "done" /\ response'[s] = "none"
      /\ PointersOK(s)'
      /\ \A t \in Stream \ {s} : SameStream(t)
      /\ OwnerInv'
  <2>1. nstate[s] \in Live
    BY DEF Live
  <2>2. \A t \in Stream : t # s =>
               /\ asked'[t] = asked[t] /\ chunks'[t] = chunks[t]
               /\ handled'[t] = handled[t] /\ answers'[t] = answers[t]
               /\ want'[t] = want[t] /\ out'[t] = out[t]
    OBVIOUS
  <2> QED
    BY <2>1, <2>2, Close
<1>2. TypeOK'
  BY <1>0, <1>1 DEF TypeOK
<1>3. RequestOK(s)'
  BY <1>0, <1>1 DEF StreamInv, RequestOK
<1>4. BodyOK(s)'
  BY <1>1 DEF BodyOK
<1>5. StreamInv'
  BY <1>0, <1>1, <1>3, <1>4, OneStreamSteps
<1>6. AnsweredOnce'
  <2>1. \A t \in Stream : t # s => nstate'[t] = nstate[t]
    BY <1>1 DEF SameStream
  <2> QED
    BY <1>0, <1>1, <2>1 DEF AnsweredOnce
<1>7. CrashInv'
  BY DEF CrashInv
<1> QED
  BY <1>1, <1>2, <1>5, <1>6, <1>7 DEF IInv

\* An answer without a body ends the stream.
LEMMA HeadersOnly ==
    ASSUME IInv, NEW s \in Stream, SendHeadersOnly(s) PROVE IInv'
<1>0. TypeOK /\ StreamInv
  BY DEF IInv
<1>1. /\ phase = "serving" /\ phase' = phase /\ response[s] = "ok"
      /\ on_stream_close_callback(s, "done", mem)
      /\ UNCHANGED <<asked, chunks, handled, answers, want>> /\ out' = out
  BY DEF SendHeadersOnly, ghosts
<1>2. nstate[s] = "half_closed" /\ want[s] = 0 /\ out[s] = 0
  BY <1>0, <1>1 DEF StreamInv, PointersOK, BodyOK
<1>3. mem \in [Addr -> StreamData] /\ out \in [Stream -> 0 .. MaxOut]
  BY <1>0 DEF TypeOK
<1> QED
  BY <1>1, <1>2, <1>3, ResponseDone

\* error_read_callback sends the page, or what fits, and ends the stream.
LEMMA ErrorPage ==
    ASSUME IInv, NEW s \in Stream, NEW length \in 1 .. MaxLength,
           error_read_callback(s, length)
    PROVE  IInv'
<1>0. TypeOK /\ StreamInv
  BY DEF IInv
<1> DEFINE n == Shorter(length, ErrorLength)
<1>1. /\ phase = "serving" /\ phase' = phase /\ response[s] = "error"
      /\ on_stream_close_callback(s, "done", mem)
      /\ UNCHANGED <<asked, chunks, handled, answers, want>>
  BY DEF error_read_callback
<1>2. out' = [out EXCEPT ![s] = n]
  BY DEF error_read_callback
<1>3. nstate[s] = "half_closed" /\ want[s] = 0
  BY <1>0, <1>1 DEF StreamInv, PointersOK, BodyOK
<1>4. mem \in [Addr -> StreamData] /\ out \in [Stream -> 0 .. MaxOut]
  BY <1>0 DEF TypeOK
<1>5. n \in 1 .. ErrorLength /\ n \in 0 .. MaxOut
  <2>1. /\ MaxLength \in Nat /\ ErrorLength \in Nat \ {0} /\ IntMax \in Nat /\ MaxOut \in Nat
        /\ ErrorLength <= IntMax /\ IntMax < MaxOut
    BY Types
  <2> QED
    BY <2>1 DEF Shorter
<1> HIDE DEF n
<1>6. /\ out' \in [Stream -> 0 .. MaxOut] /\ out'[s] = n
      /\ \A t \in Stream : t # s => out'[t] = out[t]
  BY <1>2, <1>4, <1>5
<1> QED
  BY <1>1, <1>3, <1>4, <1>5, <1>6, ResponseDone

\* What file_read_callback copies never runs past the end of the file; and for
\* a file that fits the offset it takes the offset and the count of what went
\* out forward together.
LEMMA CopyLength ==
    ASSUME NEW size \in Nat, NEW offset \in -(IntMax + 1) .. IntMax,
           NEW o \in 0 .. MaxOut, NEW length \in 1 .. MaxLength,
           size <= IntMax => offset = o /\ o <= size
    PROVE  LET copy_len == Shorter(length, size - offset)
               next == ToInt(offset + copy_len)
               sent == Shorter(o + copy_len, MaxOut) IN
           /\ copy_len \in Nat
           /\ copy_len = 0 => sent = o
           /\ next \in -(IntMax + 1) .. IntMax
           /\ sent \in 0 .. MaxOut
           /\ size <= IntMax => next = sent /\ sent <= size
<1> DEFINE copy_len == Shorter(length, size - offset)
           next == ToInt(offset + copy_len)
           sent == Shorter(o + copy_len, MaxOut)
<1>0. IntMax \in Nat /\ MaxLength \in Nat /\ MaxOut \in Nat /\ IntMax < MaxOut
  BY Types
<1>1. copy_len \in Nat /\ copy_len <= size - offset
  BY <1>0 DEF Shorter
<1> HIDE DEF copy_len
<1>2. next \in -(IntMax + 1) .. IntMax
  BY <1>0, <1>1, ToIntRange
<1>3. sent \in 0 .. MaxOut
  BY <1>0, <1>1 DEF Shorter
<1>4. ASSUME size <= IntMax PROVE next = sent /\ sent <= size
  <2>1. offset + copy_len \in 0 .. IntMax /\ offset + copy_len <= size /\ offset = o
    BY <1>0, <1>1, <1>4
  <2>2. next = offset + copy_len
    BY <2>1, ToIntFits
  <2>3. sent = o + copy_len
    BY <1>0, <1>1, <2>1 DEF Shorter
  <2> QED
    BY <2>1, <2>2, <2>3
<1>5. copy_len = 0 => sent = o
  BY <1>0 DEF Shorter
<1> QED
  BY <1>1, <1>2, <1>3, <1>4, <1>5 DEF copy_len

\* The object after a copy.
LEMMA AdvancedFields ==
    ASSUME NEW d \in StreamData, NEW n, ToInt(d.offset + n) \in -(IntMax + 1) .. IntMax
    PROVE  /\ Advanced(d, n) \in StreamData
           /\ Advanced(d, n).stream_id = d.stream_id
           /\ Advanced(d, n).size = d.size
           /\ Advanced(d, n).data = d.data
           /\ Advanced(d, n).offset = ToInt(d.offset + n)
  BY DEF Advanced, StreamData

\* file_read_callback advances the offset of its own file; past the range of an
\* int the process may end, and on a file that could not be mapped it does.
LEMMA FileRead ==
    ASSUME IInv, NEW s \in Stream, NEW length \in 1 .. MaxLength,
           file_read_callback(s, length)
    PROVE  IInv'
<1>0. TypeOK /\ StreamInv /\ OwnerInv /\ AnsweredOnce
  BY DEF IInv
<1> DEFINE a == source[s]
           ctx == mem[a]
           copy_len == Shorter(length, ctx.size - ctx.offset)
           d == Advanced(ctx, copy_len)
           sent == Shorter(out[s] + copy_len, MaxOut)
<1>1. phase = "serving" /\ response[s] = "file"
  BY DEF file_read_callback
<1>2. /\ nstate[s] = "half_closed" /\ a = user_data[s] /\ a \in Addr /\ a # Null
      /\ a \in streams /\ ctx.stream_id = s /\ ctx \in StreamData
  BY <1>0, <1>1 DEF TypeOK, StreamInv, PointersOK, Live, StreamDataOf
<1>3. /\ ctx.size = want[s]
      /\ want[s] <= IntMax => ctx.offset = out[s] /\ out[s] <= want[s]
      /\ ctx.data = "MAP_FAILED" => out[s] = 0
  BY <1>0, <1>1, <1>2 DEF StreamInv, BodyOK, StreamDataOf
<1>4. /\ ctx.size \in Nat /\ ctx.offset \in -(IntMax + 1) .. IntMax
      /\ out[s] \in 0 .. MaxOut
  <2>1. ctx.size \in Size \cup {0} /\ ctx.offset \in -(IntMax + 1) .. IntMax
    BY <1>2 DEF StreamData
  <2>2. out[s] \in 0 .. MaxOut
    BY <1>0 DEF TypeOK
  <2>3. \A n \in Size \cup {0} : n \in Nat
    BY Types
  <2>4. ctx.size \in Nat
    BY <2>1, <2>3
  <2> QED
    BY <2>1, <2>2, <2>4
<1>5. /\ copy_len \in Nat
      /\ copy_len = 0 => sent = out[s]
      /\ ToInt(ctx.offset + copy_len) \in -(IntMax + 1) .. IntMax
      /\ sent \in 0 .. MaxOut
      /\ ctx.size <= IntMax => ToInt(ctx.offset + copy_len) = sent /\ sent <= ctx.size
  BY <1>3, <1>4, CopyLength
<1>6. /\ d \in StreamData /\ d.stream_id = s /\ d.size = ctx.size /\ d.data = ctx.data
      /\ d.offset = ToInt(ctx.offset + copy_len)
  BY <1>2, <1>5, AdvancedFields
<1>7. CASE ~Unreadable(ctx, copy_len) /\ Copy(s, copy_len, d, d.offset = d.size)
  <2> DEFINE m == [mem EXCEPT ![a] = d]
  <2>1. /\ out' = [out EXCEPT ![s] = sent]
        /\ UNCHANGED <<phase, asked, chunks, handled, answers, want>>
    BY <1>7 DEF Copy
  <2>2. IF d.offset = d.size THEN on_stream_close_callback(s, "done", m)
        ELSE mem' = m /\ UNCHANGED <<nstate, user_data, source, response, streams>>
    BY <1>7 DEF Copy, h2Vars
  <2>0. ctx.data = "MAP_FAILED" => sent = 0
    <3> HIDE DEF ctx, copy_len, sent
    <3>1. ctx.data = "MAP_FAILED" => copy_len = 0
      BY <1>5, <1>7 DEF Unreadable
    <3> QED
      BY <1>3, <1>5, <3>1
  <2> HIDE DEF a, ctx, copy_len, d, sent
  <2>3. m \in [Addr -> StreamData] /\ m[a] = d /\ \A b \in Addr : b # a => m[b] = mem[b]
    BY <1>0, <1>2, <1>6 DEF TypeOK
  <2>4. /\ out' \in [Stream -> 0 .. MaxOut] /\ out'[s] = sent
        /\ \A t \in Stream : t # s => out'[t] = out[t]
    BY <1>0, <1>5, <2>1 DEF TypeOK
  <2> HIDE DEF m
  <2>5. want[s] <= IntMax => d.offset = out'[s] /\ out'[s] <= want[s]
    BY <1>3, <1>5, <1>6, <2>4
  <2>6. CASE d.offset = d.size
    BY <1>1, <1>2, <1>3, <1>6, <2>1, <2>2, <2>3, <2>4, <2>5, <2>6, ResponseDone
  <2>7. CASE d.offset # d.size
    <3>1. mem' = m /\ UNCHANGED <<nstate, user_data, source, response, streams>>
      BY <2>2, <2>7
    <3>2. TypeOK'
      BY <1>0, <2>1, <2>3, <2>4, <3>1 DEF TypeOK
    <3>3. \A t \in Stream \ {s} : SameStream(t)
      <4>1. \A t \in Stream : t # s => user_data[t] # a
        BY <1>0, <1>2, DistinctObjects
      <4>2. \A b \in streams : b # a => b \in streams' /\ mem'[b] = mem[b]
        BY <1>0, <2>3, <3>1 DEF TypeOK
      <4>3. OthersUntouched(s, a)
        BY <2>1, <2>4, <3>1, <4>1, <4>2 DEF OthersUntouched
      <4> QED
        BY <1>0, <4>3, OthersSame
    <3>4. StreamDataOf(s)' = d
      BY <1>2, <2>3, <3>1 DEF StreamDataOf
    <3>5. PointersOK(s)'
      BY <1>0, <1>6, <3>1, <3>4 DEF StreamInv, PointersOK
    <3>6. RequestOK(s)'
      BY <1>0, <1>2, <2>1, <3>1 DEF StreamInv, RequestOK
    <3>7. BodyOK(s)'
      <4>1. response'[s] = "file" /\ nstate'[s] = "half_closed"
        BY <1>1, <1>2, <3>1
      <4>2. d.size = want'[s] /\ (d.data = "MAP_FAILED" => out'[s] = 0)
        BY <1>3, <1>6, <2>0, <2>1, <2>4
      <4> QED
        BY <2>1, <2>5, <3>4, <4>1, <4>2 DEF BodyOK
    <3>8. StreamInv'
      BY <1>0, <3>3, <3>5, <3>6, <3>7, OneStreamSteps
    <3>9. OwnerInv' /\ AnsweredOnce' /\ CrashInv'
      BY <1>0, <1>1, <2>1, <3>1 DEF OwnerInv, AnsweredOnce, CrashInv
    <3> QED
      BY <3>2, <3>8, <3>9 DEF IInv
  <2> QED
    BY <2>6, <2>7
<1>8. CASE /\ Unreadable(ctx, copy_len) \/ ctx.offset < 0
           /\ phase' = "crashed"
           /\ UNCHANGED <<h2Vars, streams, mem, ghosts>>
  <2>1. UNCHANGED <<nstate, user_data, source, response, streams, mem, asked, chunks,
                    handled, answers, want, out>>
    BY <1>8 DEF h2Vars, ghosts
  <2>2. TypeOK'
    BY <1>0, <1>8, <2>1 DEF TypeOK
  <2>3. StreamInv'
    BY <1>0, <2>1 DEF StreamInv, PointersOK, RequestOK, BodyOK, StreamDataOf
  <2>4. OwnerInv' /\ AnsweredOnce'
    BY <1>0, <1>1, <1>8, <2>1 DEF OwnerInv, AnsweredOnce
  <2>5. want[s] > IntMax \/ (want[s] > 0 /\ ctx.data = "MAP_FAILED")
    <3> HIDE DEF ctx, copy_len, sent, d
    <3>1. CASE want[s] <= IntMax
      <4>1. ctx.data = "MAP_FAILED" /\ copy_len > 0
        BY <1>3, <1>4, <1>8, <3>1 DEF Unreadable
      <4>2. want[s] # 0
        <5>1. ASSUME want[s] = 0 PROVE FALSE
          <6>1. ctx.size = 0 /\ ctx.offset = 0
            BY <1>3, <3>1, <4>1, <5>1
          <6> QED
            BY <4>1, <6>1 DEF copy_len, Shorter
        <5> QED
          BY <5>1
      <4> QED
        BY <1>3, <1>4, <4>1, <4>2
    <3>2. CASE ~(want[s] <= IntMax)
      BY <1>3, <1>4, <3>2, Types
    <3> QED
      BY <3>1, <3>2
  <2>6. CrashInv'
    <3>1. source'[s] # Null /\ mem'[source'[s]] = ctx /\ want'[s] = want[s]
      BY <1>2, <2>1
    <3> QED
      BY <2>5, <3>1 DEF CrashInv
  <2> QED
    BY <2>2, <2>3, <2>4, <2>6 DEF IInv
<1> QED
  BY <1>7, <1>8 DEF file_read_callback
-----------------------------------------------------------------------------
(***************************************************************************)
(* The session ends.                                                       *)
(***************************************************************************)
LEMMA EndOfSession ==
    ASSUME IInv, SessionDel PROVE IInv'
<1>0. TypeOK
  BY DEF IInv
<1>1. /\ phase' = "deleting"
      /\ nstate' = [s \in Stream |-> "reset"]
      /\ user_data' = [s \in Stream |-> Null]
      /\ source' = [s \in Stream |-> Null]
      /\ response' = [s \in Stream |-> "none"]
      /\ UNCHANGED <<streams, mem>>
  BY DEF SessionDel
<1>2. /\ asked' = [s \in Stream |-> Unknown]
      /\ handled' = [s \in Stream |-> {}]
      /\ chunks' = [s \in Stream |-> 0]
      /\ answers' = [s \in Stream |-> 0]
      /\ want' = [s \in Stream |-> 0]
      /\ out' = [s \in Stream |-> 0]
  BY DEF SessionDel, Forget
<1>3. TypeOK'
  <2>1. /\ chunks' \in [Stream -> 0 .. MaxChunks]
        /\ out' \in [Stream -> 0 .. MaxOut]
    BY <1>2, Types
  <2>2. answers' \in [Stream -> Nat] /\ want' \in [Stream -> Size \cup {0}]
    BY <1>2
  <2>3. asked' \in [Stream -> Requests \cup {Unknown}]
    BY <1>2
  <2>4. handled' \in [Stream -> SUBSET ({"downloader", "uploader", "reply_404"}
                       \X (0 .. MaxChunks) \X {"none", "no boundary", "boundary"})]
    BY <1>2
  <2>5. /\ nstate' \in [Stream -> {"idle", "headers", "open", "half_closed", "done", "reset"}]
        /\ response' \in [Stream -> {"none", "ok", "file", "error"}]
        /\ user_data' \in [Stream -> Addr \cup {Null}]
        /\ source' \in [Stream -> Addr \cup {Null}]
    BY <1>1
  <2> QED
    BY <1>0, <1>1, <2>1, <2>2, <2>3, <2>4, <2>5 DEF TypeOK
<1>4. ASSUME NEW s \in Stream PROVE PointersOK(s)' /\ RequestOK(s)' /\ BodyOK(s)'
  <2>1. PointersOK(s)'
    BY <1>1 DEF PointersOK, Live
  <2>2. RequestOK(s)'
    BY <1>1, <1>2 DEF RequestOK
  <2>3. BodyOK(s)'
    BY <1>1 DEF BodyOK
  <2> QED
    BY <2>1, <2>2, <2>3
<1>5. OwnerInv' /\ AnsweredOnce' /\ CrashInv'
  BY <1>1 DEF OwnerInv, AnsweredOnce, CrashInv
<1> QED
  BY <1>3, <1>4, <1>5 DEF IInv, StreamInv

\* Once nghttp2 is deleted it has no pointers left.
LEMMA Destroyed ==
    ASSUME IInv, DestroyStreams PROVE IInv'
<1>0. TypeOK /\ StreamInv /\ \A s \in Stream : user_data[s] = Null
  BY DEF IInv, OwnerInv, DestroyStreams
<1>1. /\ phase' = "gone" /\ streams' = {} /\ mem' = [a \in Addr |-> Freed]
      /\ UNCHANGED <<nstate, user_data, source, response, asked, chunks, handled,
                     answers, want, out>>
  BY DEF DestroyStreams, h2Vars, ghosts
<1>2. TypeOK'
  <2>1. mem' \in [Addr -> StreamData]
    BY <1>1, Types DEF Freed
  <2> QED
    BY <1>0, <1>1, <2>1 DEF TypeOK
<1>3. ASSUME NEW s \in Stream PROVE SameStream(s)
  BY <1>0, <1>1 DEF SameStream
<1>4. StreamInv'
  BY <1>0, <1>3, SameStreamInv DEF StreamInv
<1>5. OwnerInv' /\ AnsweredOnce' /\ CrashInv'
  BY <1>0, <1>1 DEF OwnerInv, AnsweredOnce, CrashInv
<1> QED
  BY <1>2, <1>4, <1>5 DEF IInv
-----------------------------------------------------------------------------
(***************************************************************************)
(* The theorems.                                                           *)
(***************************************************************************)
LEMMA NextIInv == IInv /\ [Next]_vars => IInv'
<1> SUFFICES ASSUME IInv, [Next]_vars PROVE IInv'
  OBVIOUS
<1>1. CASE UNCHANGED vars
  <2>1. UNCHANGED <<nstate, user_data, source, response, streams, mem, phase, asked, chunks,
                    handled, answers, want, out>>
    BY <1>1 DEF vars, h2Vars, ghosts
  <2>2. TypeOK'
    BY <2>1 DEF IInv, TypeOK
  <2>3. StreamInv'
    BY <2>1 DEF IInv, StreamInv, PointersOK, RequestOK, BodyOK, StreamDataOf
  <2>4. OwnerInv' /\ AnsweredOnce' /\ CrashInv'
    BY <2>1 DEF IInv, OwnerInv, AnsweredOnce, CrashInv
  <2> QED
    BY <2>2, <2>3, <2>4 DEF IInv
<1> QED
  BY <1>1, BeginHeaders, Header, DataChunk, FrameRecv, ResetStream, HeadersOnly,
     ErrorPage, FileRead, EndOfSession, Destroyed DEF Next, Receive, mem_send2

\* The invariant holds throughout, however frames of different streams, resets
\* and the end of the session interleave.
THEOREM Invariance == Spec => []IInv
  BY InitIInv, NextIInv, PTL DEF Spec

\* The variables keep their types: a stored method is one of the enumeration,
\* and the conversion back to int keeps the offset within an int.
THEOREM TypeCorrect == Spec => []TypeOK
<1>1. IInv => TypeOK
  BY DEF IInv
<1> QED
  BY Invariance, <1>1, PTL

\* nghttp2's pointers are to the live StreamData of their own streams, no
\* StreamData outlives its stream, and none outlives the session.
THEOREM PointersAreSound == Spec => []PointersMatchOwners
<1>1. ASSUME IInv PROVE PointersMatchOwners
  <2>0. TypeOK /\ StreamInv /\ OwnerInv
    BY <1>1 DEF IInv
  <2> DEFINE live == {t \in Stream : nstate[t] \in {"headers", "open", "half_closed"}}
  <2>1. ASSUME NEW s \in Stream
        PROVE  /\ user_data[s] # Null =>
                    user_data[s] \in streams /\ StreamDataOf(s).stream_id = s
               /\ source[s] \in {Null, user_data[s]}
    BY <2>0 DEF StreamInv, PointersOK
  <2>2. ASSUME phase = "serving" PROVE streams = {user_data[s] : s \in live}
    <3>1. ASSUME NEW a \in streams PROVE a \in {user_data[s] : s \in live}
      <4>1. PICK s \in Stream : user_data[s] = a
        BY <2>0, <2>2 DEF OwnerInv
      <4>2. a # Null
        BY <2>0, Types DEF TypeOK
      <4>3. s \in live
        BY <2>0, <4>1, <4>2 DEF StreamInv, PointersOK, Live
      <4> QED
        BY <4>1, <4>3
    <3>2. ASSUME NEW s \in live PROVE user_data[s] \in streams
      BY <2>0 DEF StreamInv, PointersOK, Live
    <3> QED
      BY <3>1, <3>2
  <2>3. phase = "gone" => streams = {}
    BY <2>0 DEF OwnerInv
  <2> QED
    BY <2>1, <2>2, <2>3 DEF PointersMatchOwners
<1> QED
  BY Invariance, <1>1, PTL

\* A complete request is answered once, an incomplete one not at all.
THEOREM RequestsAreAnsweredOnce == Spec => []AnsweredOnce
<1>1. IInv => AnsweredOnce
  BY DEF IInv
<1> QED
  BY Invariance, <1>1, PTL

\* The handler of a GET or POST is that of the client's method and path, and it
\* sees the whole body and the right parser.
THEOREM HandlersSeeRequests == Spec => []HandlerSeesRequest
<1>1. ASSUME IInv PROVE HandlerSeesRequest
  BY <1>1 DEF IInv, StreamInv, RequestOK, Parser, HandlerSeesRequest
<1> QED
  BY Invariance, <1>1, PTL

\* The body of a file that fits the offset is sent from its first unit to its
\* last, nothing is sent from a failed mapping, and only an uninitialised method
\* at a path of the router, a file that does not fit, or one of some size that
\* could not be mapped ends the process.
THEOREM BodiesAreFiles == Spec => []BodyIsFile
<1>1. ASSUME IInv PROVE BodyIsFile
  <2>0. TypeOK /\ StreamInv /\ CrashInv
    BY <1>1 DEF IInv
  <2>1. ASSUME NEW s \in Stream, want[s] <= IntMax, source[s] # Null
        PROVE  /\ mem[source[s]].offset = out[s] /\ out[s] <= want[s]
               /\ mem[source[s]].data = "MAP_FAILED" => out[s] = 0
    <3>1. response[s] = "file" /\ source[s] = user_data[s]
      BY <2>0, <2>1 DEF StreamInv, PointersOK
    <3> QED
      BY <2>0, <2>1, <3>1 DEF StreamInv, BodyOK, StreamDataOf
  <2>2. ASSUME NEW s \in Stream, want[s] <= IntMax, nstate[s] = "done"
        PROVE  out[s] \in {want[s]} \cup (IF want[s] = 0 THEN 1 .. ErrorLength ELSE {})
    BY <2>0, <2>2 DEF StreamInv, BodyOK
  <2> QED
    BY <2>0, <2>1, <2>2 DEF BodyIsFile, CrashInv
<1> QED
  BY Invariance, <1>1, PTL
=============================================================================
