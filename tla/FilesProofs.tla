----------------------------- MODULE FilesProofs -----------------------------
(***************************************************************************)
(* Proofs about Files, for any number of workers, parser addresses, files, *)
(* forms and uploads, from FilesAssumption; and that the forms of browsers *)
(* are what FilesAssumption asks of a form.                                *)
(***************************************************************************)
EXTENDS Files, MultipartProofs

-----------------------------------------------------------------------------
(***************************************************************************)
(* The inductive invariant.                                                *)
(***************************************************************************)

\* The tokens of files, the names of streams, and the records of the state.
Tokens == {"old"} \cup UNION {{form.sent[i] : i \in DOMAIN form.sent} : form \in Forms}
Names == {<<>>} \cup Files \cup {Parsed[form].filename : form \in Forms}
Uploads == [id : Nat, data : Seq(Tokens), form : Forms \cup {NoForm},
            worker : Workers \cup {"none"}]
TmpFiles == [exists : BOOLEAN, data : Seq(Tokens)]
Streams == [state : {"idle", "get", "written", "post"}, name : Names,
            data : {"none", "mapped", "MAP_FAILED"}, version : Nat, id : Nat,
            form : Forms \cup {NoForm}, fresh : BOOLEAN, pending : BOOLEAN,
            reply : {"none", "file", "ok", "404"}]

TypeInv ==
    /\ kind \in [Files -> Kinds]
    /\ history \in [Files -> Seq(Uploads)]
    /\ tmp \in [Workers -> [Slots -> TmpFiles]]
    /\ cache \in [Workers -> [Files -> Entry]]
    /\ stream \in [Workers -> [Slots -> Streams]]
    /\ uploads \in 0 .. MaxUploads
    /\ stranded \in [Workers -> BOOLEAN]
    /\ failed \subseteq Workers \X Calls

\* What was written of a form's file: its first line, or, short, a beginning.
Content(data, form, short) ==
    \/ data = FirstLine(form.sent)
    \/ short /\ IsPrefix(data, FirstLine(form.sent))

\* A version of a file is an upload for it, by one client.
Published(f, h, n, st, fl) ==
    /\ h.id <= n
    /\ h.id > 0 => /\ h.form \in Forms /\ Parsed[h.form].filename = f
                   /\ h.worker \in Workers
                   /\ Content(h.data, h.form, <<h.worker, "write">> \in fl) \/ st[h.worker]

HistoryInv ==
    \A f \in Files : \A i \in 1 .. Len(history[f]) :
        Published(f, history[f][i], uploads, stranded, failed)

\* An entry is of a version that there is; a failed mapping has its cause.
EntryOk(entry, versions, bad) ==
    /\ entry.version <= Len(versions)
    /\ entry.data = "MAP_FAILED" => versions[entry.version].data = <<>> \/ bad

\* What keeps a worker from mapping a file that is not empty, and from loading it.
Unmappable(w, f, fl) == kind[f] = "directory" \/ <<w, "mmap">> \in fl
LoadFailed(w, fl) == {<<w, "open">>, <<w, "mmap">>} \cap fl # {}

CacheInv ==
    \A w \in Workers, f \in Files :
        EntryOk(cache[w][f], history[f], Unmappable(w, f, failed))

\* What waits in file_map for the destructor is of a form that is not closed.
PendingOk(s, n) ==
    s.pending => /\ s.state = "post" /\ s.form \in Forms /\ ~s.form.closed
                 /\ Parsed[s.form].named /\ s.name = Parsed[s.form].filename
                 /\ s.id > 0 /\ s.id <= n

\* A response's body is the worker's mapping.
ReplyOk(s, c) ==
    s.reply = "file" => /\ s.state = "get" /\ s.name \in Files
                        /\ is_mapped(c[s.name])
                        /\ s.version = c[s.name].version
                        /\ s.data = c[s.name].data

\* A form that was stored, before it is answered and after.
StoredOk(s, c, h, nm) ==
    /\ s.state = "written" => s.reply = "none"
    /\ s.fresh => s.version > 0
    /\ s.state \in {"written", "post"} /\ s.version > 0 =>
         s.name \in Files /\ s.version <= Len(h[s.name])
    /\ s.state = "written" /\ s.fresh => ~is_mapped(c[s.name])
    /\ s.state = "post" /\ s.fresh /\ s.reply = "ok" =>
         is_mapped(c[s.name]) /\ c[s.name].version >= s.version
    /\ s.state = "post" /\ s.version > 0 /\ s.reply = "404" =>
         (\E i \in s.version .. Len(h[s.name]) : h[s.name][i].data = <<>>) \/ nm

\* It was renamed to something that can be replaced.
KindOk(s) ==
    s.state \in {"written", "post"} /\ s.version > 0 => kind[s.name] = "file"

StreamInv ==
    \A w \in Workers, a \in Slots :
        /\ PendingOk(stream[w][a], uploads)
        /\ ReplyOk(stream[w][a], cache[w])
        /\ StoredOk(stream[w][a], cache[w], history, LoadFailed(w, failed))
        /\ KindOk(stream[w][a])

\* A worker answers one form at a time.
WrittenInv ==
    \A w \in Workers : \A a, b \in Slots :
        stream[w][a].state = "written" /\ stream[w][b].state = "written" => a = b

\* A temporary file that the destructor of a live parser does not rename is one
\* that could not be renamed.
TmpOk(t, s, st, short) ==
    /\ ~t.exists => t.data = <<>>
    /\ t.exists /\ ~st => s.pending /\ Content(t.data, s.form, short)

TmpInv ==
    \A w \in Workers, a \in Slots :
        TmpOk(tmp[w][a], stream[w][a], stranded[w], <<w, "write">> \in failed)

IInv == TypeInv /\ HistoryInv /\ LateOnesAreUnfinished /\ CacheInv /\ StreamInv
        /\ WrittenInv /\ TmpInv
-----------------------------------------------------------------------------
(***************************************************************************)
(* Facts about the parser and the helpers.                                 *)
(***************************************************************************)

\* A table of two indices with one place changed.
LEMMA Place ==
    ASSUME NEW A, NEW B, NEW V, NEW F \in [A -> [B -> V]], NEW w \in A, NEW a \in B,
           NEW x \in V, NEW G, G = [F EXCEPT ![w][a] = x]
    PROVE  /\ G \in [A -> [B -> V]] /\ G[w][a] = x
           /\ \A v \in A : v # w => G[v] = F[v]
           /\ \A b \in B : b # a => G[w][b] = F[w][b]
  OBVIOUS

\* The first line of a file is a stretch of it.
LEMMA FirstLineSeq ==
    ASSUME NEW S, NEW data \in Seq(S)
    PROVE  FirstLine(data) \in Seq(S)
<1>. DEFINE T == S \cup {"crlf"}
            crlf == find(data, <<"crlf">>, 1)
<1>1. data \in Seq(T)
  <2>1. S \subseteq T
    OBVIOUS
  <2>. QED BY <2>1
<1>2. <<"crlf">> \in Seq(T) /\ <<"crlf">> # <<>> /\ Len(<<"crlf">>) = 1
  OBVIOUS
<1>3. IsFirst(crlf, data, <<"crlf">>, 1)
  BY <1>1, <1>2, FindFirst
<1>4. crlf \in Nat /\ (crlf # npos => crlf <= Len(data))
  BY <1>2, <1>3 DEF IsFirst, Occurs
<1>5. CASE crlf = npos
  BY <1>5 DEF FirstLine
<1>6. CASE crlf # npos
  <2>1. substr(data, 1, crlf) \in Seq(S)
    <3>. HIDE DEF crlf
    <3>1. crlf \in Nat /\ crlf <= Len(data) + 1
      BY <1>4, <1>6
    <3>. QED BY <3>1, SubstrSeq
  <2>. QED BY <1>6, <2>1 DEF FirstLine
<1>. QED BY <1>5, <1>6

\* What write makes of a form: only a file with a name is written, and, by
\* FilesAssumption, it is the client's.
LEMMA ParsedForm ==
    ASSUME NEW form \in Forms
    PROVE  /\ Parsed[form].named \in BOOLEAN
           /\ Parsed[form].written \in BOOLEAN
           /\ Parsed[form].completed \in BOOLEAN
           /\ Parsed[form].filename \in Names
           /\ Parsed[form].written => /\ Parsed[form].named
                                      /\ Parsed[form].content = FirstLine(form.sent)
           /\ Parsed[form].named /\ ~Parsed[form].completed => ~form.closed
           /\ FirstLine(form.sent) \in Seq(Tokens)
<1>. DEFINE r == Written(form.content_type, form.body)
            boundary == extract_boundary(form.content_type)
            filename == find_filename(boundary, form.body)
            content == find_file_content(form.body, filename.pos)
<1>0. Parsed[form] = r
  BY DEF Parsed
<1>1. /\ r.named \in BOOLEAN /\ r.written \in BOOLEAN /\ r.completed \in BOOLEAN
      /\ r.written => r.named
  <2>1. filename.found \in BOOLEAN
    BY DEF find_filename, Found, NotFound
  <2>2. content.found \in BOOLEAN
    BY DEF find_file_content, Found, NotFound
  <2>3. find_end_boundary(boundary, form.body, content.pos) \in BOOLEAN
    BY DEF find_end_boundary
  <2>. HIDE DEF content, filename
  <2>. QED BY <2>1, <2>2, <2>3 DEF Written, content, filename
<1>2. Understood(form)
  BY FilesAssumption
<1>3. /\ r.written => r.content = FirstLine(form.sent)
      /\ r.named /\ ~r.completed => ~form.closed
  BY <1>2 DEF Understood
<1>4. r.filename \in Names
  BY <1>0 DEF Names
<1>5. FirstLine(form.sent) \in Seq(Tokens)
  <2>. DEFINE S == {form.sent[i] : i \in DOMAIN form.sent}
  <2>1. form.sent \in Seq(S)
    BY FilesAssumption
  <2>2. S \subseteq Tokens
    BY DEF Tokens
  <2>. HIDE DEF S
  <2>3. form.sent \in Seq(Tokens)
    BY <2>1, <2>2
  <2>. QED BY <2>3, FirstLineSeq
<1>. HIDE DEF r
<1>. QED BY <1>0, <1>1, <1>3, <1>4, <1>5

\* Nothing is taken from a file's versions.
Longer(h, k) ==
    \A f \in Files : /\ Len(h[f]) <= Len(k[f])
                     /\ \A i \in 1 .. Len(h[f]) : k[f][i] = h[f][i]

\* The files, the worker's cache, the number of uploads and the failure, before
\* and after a step of which a stream of the worker takes no notice.
Unnoticed(s, c, d, h, k, n, m, nm, nm2) ==
    /\ c \in [Files -> Entry] /\ d \in [Files -> Entry]
    /\ h \in [Files -> Seq(Uploads)] /\ k \in [Files -> Seq(Uploads)] /\ Longer(h, k)
    /\ n \in Nat /\ m \in Nat /\ n <= m
    /\ nm \in BOOLEAN /\ nm2 \in BOOLEAN /\ (nm => nm2)
    /\ \A g \in Files : is_mapped(c[g]) => d[g] = c[g]
    /\ s.state = "written" => d = c

\* What holds of a stream goes on to hold when files get versions, the worker
\* maps files it had no mapping of, and calls fail.
LEMMA StreamKept ==
    ASSUME NEW s \in Streams, NEW c, NEW d, NEW h, NEW k, NEW n, NEW m, NEW nm, NEW nm2,
           Unnoticed(s, c, d, h, k, n, m, nm, nm2),
           PendingOk(s, n), ReplyOk(s, c), StoredOk(s, c, h, nm)
    PROVE  PendingOk(s, m) /\ ReplyOk(s, d) /\ StoredOk(s, d, k, nm2)
<1>. /\ c \in [Files -> Entry] /\ d \in [Files -> Entry]
     /\ h \in [Files -> Seq(Uploads)] /\ k \in [Files -> Seq(Uploads)] /\ Longer(h, k)
     /\ n \in Nat /\ m \in Nat /\ n <= m
     /\ nm \in BOOLEAN /\ nm2 \in BOOLEAN /\ (nm => nm2)
     /\ \A g \in Files : is_mapped(c[g]) => d[g] = c[g]
     /\ s.state = "written" => d = c
  BY DEF Unnoticed
<1>1. PendingOk(s, m)
  <2>1. s.id \in Nat
    BY DEF Streams
  <2>. QED BY <2>1 DEF PendingOk
<1>2. ReplyOk(s, d)
  BY DEF ReplyOk
<1>3. StoredOk(s, d, k, nm2)
  <2>1. s.version \in Nat
    BY DEF Streams
  <2>2. s.name \in Files => /\ Len(h[s.name]) \in Nat /\ Len(k[s.name]) \in Nat
                            /\ Len(h[s.name]) <= Len(k[s.name])
                            /\ \A i \in 1 .. Len(h[s.name]) : k[s.name][i] = h[s.name][i]
    <3>. SUFFICES ASSUME s.name \in Files
                  PROVE  /\ Len(h[s.name]) \in Nat /\ Len(k[s.name]) \in Nat
                         /\ Len(h[s.name]) <= Len(k[s.name])
                         /\ \A i \in 1 .. Len(h[s.name]) : k[s.name][i] = h[s.name][i]
      OBVIOUS
    <3>1. Len(h[s.name]) \in Nat /\ Len(k[s.name]) \in Nat
      OBVIOUS
    <3>2. /\ Len(h[s.name]) <= Len(k[s.name])
          /\ \A i \in 1 .. Len(h[s.name]) : k[s.name][i] = h[s.name][i]
      BY DEF Longer
    <3>. QED BY <3>1, <3>2
  <2>3. (s.state = "written" => s.reply = "none") /\ (s.fresh => s.version > 0)
    BY DEF StoredOk
  <2>4. s.state \in {"written", "post"} /\ s.version > 0 =>
          s.name \in Files /\ s.version <= Len(h[s.name])
    BY DEF StoredOk
  <2>5. s.state \in {"written", "post"} /\ s.version > 0 =>
          s.name \in Files /\ s.version <= Len(k[s.name])
    BY <2>1, <2>2, <2>4
  <2>6. s.state = "written" /\ s.fresh => ~is_mapped(d[s.name])
    BY DEF StoredOk
  <2>7. s.state = "post" /\ s.fresh /\ s.reply = "ok" =>
          is_mapped(d[s.name]) /\ d[s.name].version >= s.version
    BY <2>3, <2>4 DEF StoredOk
  <2>8. s.state = "post" /\ s.version > 0 /\ s.reply = "404" =>
          (\E i \in s.version .. Len(k[s.name]) : k[s.name][i].data = <<>>) \/ nm2
    <3>. SUFFICES ASSUME s.state = "post", s.version > 0, s.reply = "404", ~nm2
                  PROVE  \E i \in s.version .. Len(k[s.name]) : k[s.name][i].data = <<>>
      OBVIOUS
    <3>1. PICK i \in s.version .. Len(h[s.name]) : h[s.name][i].data = <<>>
      BY DEF StoredOk
    <3>2. s.name \in Files
      BY <2>4
    <3>3. i \in 1 .. Len(h[s.name]) /\ i \in s.version .. Len(k[s.name])
      BY <2>1, <2>2, <3>1, <3>2
    <3>. QED BY <2>2, <3>1, <3>2, <3>3
  <2>. QED BY <2>3, <2>5, <2>6, <2>7, <2>8 DEF StoredOk
<1>. QED BY <1>1, <1>2, <1>3

\* What load_file_from_filecache may find.
LEMMA Load ==
    ASSUME TypeInv, CacheInv, NEW w \in Workers, NEW f \in Files,
           NEW found \in load_file_from_filecache(w, f)
    PROVE  /\ found.entry \in Entry /\ found.file \in BOOLEAN /\ found.failed \subseteq Calls
           /\ is_mapped(cache[w][f]) => found.entry = cache[w][f] /\ found.file
           /\ found.entry.version <= Len(history[f])
           /\ found.file => is_mapped(found.entry)
           /\ ~is_mapped(cache[w][f]) =>
                /\ found.file => found.entry.version = Len(history[f])
                /\ found.entry.data = "MAP_FAILED" =>
                     \/ history[f][found.entry.version].data = <<>>
                     \/ kind[f] = "directory"
                     \/ "mmap" \in found.failed
                /\ ~found.file =>
                     \/ Len(history[f]) = 0
                     \/ "open" \in found.failed
                     \/ /\ found.entry.version = Len(history[f])
                        /\ found.entry.data = "MAP_FAILED"
<1>. DEFINE entry == cache[w][f]
            n == Len(history[f])
<1>1. n \in Nat /\ entry \in Entry /\ entry.version <= n
  BY DEF TypeInv, CacheInv, EntryOk
<1>2. CASE is_mapped(entry)
  <2>1. found = [entry |-> [data |-> entry.data, version |-> entry.version],
                 file |-> TRUE, failed |-> {}]
    BY <1>2 DEF load_file_from_filecache, Finding, Mapping
  <2>2. entry = [data |-> entry.data, version |-> entry.version]
    BY <1>1 DEF Entry
  <2>3. found.entry = entry /\ found.file /\ found.file \in BOOLEAN /\ found.failed = {}
    BY <2>1, <2>2
  <2>. HIDE DEF entry
  <2>. QED BY <1>1, <1>2, <2>3 DEF entry
<1>3. CASE ~is_mapped(entry)
  <2>1. PICK m \in map(f) :
          found = [entry |-> m.entry,
                   file |-> \/ m.entry.data = "mapped"
                            \/ m.entry.data = "MAP_FAILED" /\ entry.data = "none",
                   failed |-> m.failed]
    BY <1>3 DEF load_file_from_filecache, Finding
  <2>2. found.entry = m.entry /\ found.failed = m.failed /\ found.file \in BOOLEAN
    BY <2>1
  <2>3. found.file => m.entry.data \in {"mapped", "MAP_FAILED"}
    BY <2>1
  <2>4. m.entry.data = "mapped" => found.file
    BY <2>1
  <2>5. CASE m = Mapping("nullptr", 0, {}) /\ n = 0
    <3>1. m.entry.data = "nullptr" /\ m.entry.version = 0 /\ m.failed = {}
      BY <2>5 DEF Mapping
    <3>2. m.entry \in Entry
      BY <2>5 DEF Mapping, Entry
    <3>. QED BY <1>1, <1>3, <2>2, <2>3, <2>5, <3>1, <3>2
  <2>6. CASE m = Mapping("nullptr", 0, {"open"})
    <3>1. m.entry.data = "nullptr" /\ m.entry.version = 0 /\ m.failed = {"open"}
      BY <2>6 DEF Mapping
    <3>2. m.entry \in Entry /\ {"open"} \subseteq Calls
      BY <2>6 DEF Mapping, Entry, Calls
    <3>. QED BY <1>1, <1>3, <2>2, <2>3, <3>1, <3>2
  <2>7. CASE m = Mapping("mapped", n, {}) /\ n # 0
    <3>1. m.entry.data = "mapped" /\ m.entry.version = n /\ m.failed = {}
      BY <2>7 DEF Mapping
    <3>2. m.entry \in Entry
      BY <1>1, <2>7 DEF Mapping, Entry
    <3>. QED BY <1>1, <1>3, <2>2, <2>4, <3>1, <3>2 DEF is_mapped
  <2>8. CASE /\ m = Mapping("MAP_FAILED", n, {}) /\ n # 0
             /\ kind[f] = "directory" \/ history[f][n].data = <<>>
    <3>1. m.entry.data = "MAP_FAILED" /\ m.entry.version = n /\ m.failed = {}
      BY <2>8 DEF Mapping
    <3>2. m.entry \in Entry
      BY <1>1, <2>8 DEF Mapping, Entry
    <3>. QED BY <1>1, <1>3, <2>2, <2>8, <3>1, <3>2 DEF is_mapped
  <2>9. CASE m = Mapping("MAP_FAILED", n, {"mmap"}) /\ n # 0
    <3>1. m.entry.data = "MAP_FAILED" /\ m.entry.version = n /\ m.failed = {"mmap"}
      BY <2>9 DEF Mapping
    <3>2. m.entry \in Entry /\ {"mmap"} \subseteq Calls
      BY <1>1, <2>9 DEF Mapping, Entry, Calls
    <3>. QED BY <1>1, <1>3, <2>2, <3>1, <3>2 DEF is_mapped
  <2>10. \/ m = Mapping("nullptr", 0, {}) /\ n = 0
         \/ m = Mapping("nullptr", 0, {"open"})
         \/ m = Mapping("mapped", n, {}) /\ n # 0
         \/ /\ m = Mapping("MAP_FAILED", n, {}) /\ n # 0
            /\ kind[f] = "directory" \/ history[f][n].data = <<>>
         \/ m = Mapping("MAP_FAILED", n, {"mmap"}) /\ n # 0
    BY DEF map, Current
  <2>. QED BY <2>5, <2>6, <2>7, <2>8, <2>9, <2>10
<1>. QED BY <1>2, <1>3

\* The calls that have failed: none is forgotten.
LEMMA FailedStep ==
    ASSUME TypeInv, NEW w \in Workers, NEW calls \in SUBSET Calls,
           failed' = failed \cup ({w} \X calls)
    PROVE  /\ failed' \subseteq Workers \X Calls /\ failed \subseteq failed'
           /\ \A call \in calls : <<w, call>> \in failed'
  BY DEF TypeInv

\* The cache after a file is loaded.
LEMMA LoadStep ==
    ASSUME TypeInv, CacheInv, NEW w \in Workers, NEW f,
           NEW found \in load_file_from_filecache(w, f), Loaded(w, f, found),
           history' = history, kind' = kind
    PROVE  /\ cache' \in [Workers -> [Files -> Entry]]
           /\ failed' \subseteq Workers \X Calls /\ failed \subseteq failed'
           /\ CacheInv'
           /\ \A v \in Workers : v # w => cache'[v] = cache[v]
           /\ \A v \in Workers, g \in Files :
                is_mapped(cache[v][g]) => cache'[v][g] = cache[v][g]
           /\ f \in Files =>
                /\ cache'[w][f] = found.entry
                /\ found.entry.data = "MAP_FAILED" =>
                     history[f][found.entry.version].data = <<>> \/ Unmappable(w, f, failed')
                /\ "open" \in found.failed => LoadFailed(w, failed')
           /\ found.file => f \in Files
<1>1. /\ failed' \subseteq Workers \X Calls /\ failed \subseteq failed'
      /\ \A call \in found.failed : <<w, call>> \in failed'
  <2>1. found.failed \in SUBSET Calls
    <3>1. CASE f \in Files
      BY <3>1, Load
    <3>2. CASE f \notin Files
      BY <3>2 DEF load_file_from_filecache, NotThere, Finding, Mapping
    <3>. QED BY <3>1, <3>2
  <2>2. failed' = failed \cup ({w} \X found.failed)
    BY DEF Loaded
  <2>. DEFINE calls == found.failed
  <2>3. calls \in SUBSET Calls /\ failed' = failed \cup ({w} \X calls)
    BY <2>1, <2>2
  <2>. HIDE DEF calls
  <2>4. /\ failed' \subseteq Workers \X Calls /\ failed \subseteq failed'
        /\ \A call \in calls : <<w, call>> \in failed'
    BY <2>3, FailedStep
  <2>. QED BY <2>4 DEF calls
<1>2. CASE f \in Files
  <2>1. /\ found.entry \in Entry
        /\ is_mapped(cache[w][f]) => found.entry = cache[w][f]
        /\ found.entry.version <= Len(history[f])
    BY <1>2, Load
  <2>2. cache \in [Workers -> [Files -> Entry]] /\ cache' = [cache EXCEPT ![w][f] = found.entry]
    BY <1>2 DEF TypeInv, Loaded
  <2>3. /\ cache' \in [Workers -> [Files -> Entry]] /\ cache'[w][f] = found.entry
        /\ \A v \in Workers : v # w => cache'[v] = cache[v]
        /\ \A g \in Files : g # f => cache'[w][g] = cache[w][g]
    BY <1>2, <2>1, <2>2, Place
  <2>4. found.entry.data = "MAP_FAILED" =>
          history[f][found.entry.version].data = <<>> \/ Unmappable(w, f, failed')
    <3>1. CASE is_mapped(cache[w][f])
      <4>1. EntryOk(cache[w][f], history[f], Unmappable(w, f, failed))
        BY <1>2 DEF CacheInv
      <4>. QED BY <1>1, <2>1, <3>1, <4>1 DEF EntryOk, Unmappable
    <3>2. CASE ~is_mapped(cache[w][f])
      <4>1. found.entry.data = "MAP_FAILED" =>
              \/ history[f][found.entry.version].data = <<>>
              \/ kind[f] = "directory"
              \/ "mmap" \in found.failed
        BY <1>2, <3>2, Load
      <4>. QED BY <1>1, <4>1 DEF Unmappable
    <3>. QED BY <3>1, <3>2
  <2>5. ASSUME NEW v \in Workers, NEW g \in Files
        PROVE  EntryOk(cache'[v][g], history[g], Unmappable(v, g, failed'))
    <3>1. CASE v = w /\ g = f
      BY <2>1, <2>3, <2>4, <3>1 DEF EntryOk
    <3>2. CASE ~(v = w /\ g = f)
      <4>1. cache'[v][g] = cache[v][g]
        BY <2>3, <3>2
      <4>2. EntryOk(cache[v][g], history[g], Unmappable(v, g, failed))
        BY DEF CacheInv
      <4>3. Unmappable(v, g, failed) => Unmappable(v, g, failed')
        BY <1>1 DEF Unmappable
      <4>. QED BY <4>1, <4>2, <4>3 DEF EntryOk
    <3>. QED BY <3>1, <3>2
  <2>6. CacheInv'
    BY <2>5 DEF CacheInv, Unmappable
  <2>7. ASSUME NEW v \in Workers, NEW g \in Files, is_mapped(cache[v][g])
        PROVE  cache'[v][g] = cache[v][g]
    BY <2>1, <2>3, <2>7
  <2>8. "open" \in found.failed => LoadFailed(w, failed')
    BY <1>1 DEF LoadFailed
  <2>. QED BY <1>1, <1>2, <2>3, <2>4, <2>6, <2>7, <2>8
<1>3. CASE f \notin Files
  <2>1. cache' = cache /\ ~found.file
    BY <1>3 DEF Loaded, load_file_from_filecache, NotThere, Finding
  <2>2. cache \in [Workers -> [Files -> Entry]]
    BY DEF TypeInv
  <2>3. CacheInv'
    <3>1. ASSUME NEW v \in Workers, NEW g \in Files
          PROVE  EntryOk(cache[v][g], history[g], Unmappable(v, g, failed'))
      <4>1. EntryOk(cache[v][g], history[g], Unmappable(v, g, failed))
        BY DEF CacheInv
      <4>2. Unmappable(v, g, failed) => Unmappable(v, g, failed')
        BY <1>1 DEF Unmappable
      <4>. QED BY <4>1, <4>2 DEF EntryOk
    <3>. QED BY <2>1, <3>1 DEF CacheInv, Unmappable
  <2>. QED BY <1>1, <1>3, <2>1, <2>2, <2>3
<1>. QED BY <1>2, <1>3

\* An entry stays what it is when its file gets another version.
LEMMA CacheKept ==
    ASSUME TypeInv, CacheInv, cache' = cache, kind' = kind, failed \subseteq failed',
           history' \in [Files -> Seq(Uploads)], Longer(history, history')
    PROVE  CacheInv'
<1>1. ASSUME NEW w \in Workers, NEW f \in Files
      PROVE  EntryOk(cache'[w][f], history'[f], Unmappable(w, f, failed'))
  <2>. DEFINE e == cache[w][f]
              n == Len(history[f])
  <2>1. n \in Nat /\ Len(history'[f]) \in Nat /\ n <= Len(history'[f]) /\ e \in Entry
    BY DEF Longer, TypeInv
  <2>2. /\ e.version <= n
        /\ e.data = "MAP_FAILED" =>
             (history[f][e.version].data = <<>> \/ Unmappable(w, f, failed))
    BY DEF EntryOk, CacheInv
  <2>3. e.version \in Nat /\ (e.data = "MAP_FAILED" => e.version > 0)
    BY <2>1 DEF Entry
  <2>4. e.data = "MAP_FAILED" => history'[f][e.version] = history[f][e.version]
    <3>1. e.data = "MAP_FAILED" => e.version \in 1 .. n
      BY <2>1, <2>2, <2>3
    <3>. QED BY <3>1 DEF Longer
  <2>5. cache'[w][f] = e
    OBVIOUS
  <2>. HIDE DEF e, n
  <2>6. e.version <= Len(history'[f])
    BY <2>1, <2>2, <2>3
  <2>7. Unmappable(w, f, failed) => Unmappable(w, f, failed')
    BY DEF Unmappable
  <2>. QED BY <2>2, <2>4, <2>5, <2>6, <2>7 DEF EntryOk
<1>. QED BY <1>1 DEF CacheInv, Unmappable

\* What a temporary file t of w holds that is renamed to f, or is to be, for the
\* upload id of form.
Renamable(w, t, f, id, form, moved) ==
    /\ moved => t.exists /\ f \in Files
    /\ ~t.exists => t.data = <<>>
    /\ f = Parsed[form].filename
    /\ t.exists => Content(t.data, form, <<w, "write">> \in failed') \/ stranded[w]
    /\ id <= uploads'
    /\ id > uploads \/ ~form.closed

\* The file system after a rename, or an attempt: the version is an upload for
\* its file, and a file that was replaced comes back only through a form that
\* is not closed.
Attempted(w, a, f, moved) ==
    /\ history' \in [Files -> Seq(Uploads)] /\ Longer(history, history')
    /\ moved => Len(history'[f]) = Len(history[f]) + 1
    /\ tmp' \in [Workers -> [Slots -> TmpFiles]]
    /\ \A v \in Workers : v # w => tmp'[v] = tmp[v]
    /\ \A b \in Slots : b # a => tmp'[w][b] = tmp[w][b]
    /\ stranded' \in [Workers -> BOOLEAN]
    /\ \A v \in Workers : stranded[v] => stranded'[v]
    /\ ~tmp'[w][a].exists => tmp'[w][a].data = <<>>
    /\ tmp'[w][a].exists => stranded'[w]
    /\ HistoryInv'
    /\ LateOnesAreUnfinished'

\* That is what Rename leaves.
LEMMA RenameStep ==
    ASSUME TypeInv, HistoryInv, LateOnesAreUnfinished, NEW w \in Workers, NEW a \in Slots,
           NEW t \in TmpFiles, NEW f, NEW id \in Nat \ {0}, NEW form \in Forms,
           NEW moved \in BOOLEAN, Rename(w, a, t, f, id, form, moved),
           Renamable(w, t, f, id, form, moved), failed \subseteq failed',
           uploads' \in Nat, uploads <= uploads'
    PROVE  Attempted(w, a, f, moved)
<1>0. /\ moved => t.exists /\ f \in Files
      /\ ~t.exists => t.data = <<>>
      /\ f = Parsed[form].filename
      /\ t.exists => Content(t.data, form, <<w, "write">> \in failed') \/ stranded[w]
      /\ id <= uploads'
      /\ id > uploads \/ ~form.closed
  BY DEF Renamable
<1>1. /\ history \in [Files -> Seq(Uploads)] /\ tmp \in [Workers -> [Slots -> TmpFiles]]
      /\ stranded \in [Workers -> BOOLEAN] /\ uploads \in Nat
  BY FilesAssumption DEF TypeInv
<1>2. /\ stranded' \in [Workers -> BOOLEAN]
      /\ \A v \in Workers : stranded[v] => stranded'[v]
      /\ t.exists /\ ~moved => stranded'[w]
  <2>1. stranded' = [stranded EXCEPT ![w] = @ \/ (t.exists /\ ~moved)]
    BY DEF Rename
  <2>2. t.exists \in BOOLEAN
    BY DEF TmpFiles
  <2>. QED BY <1>1, <2>1, <2>2
<1>3. /\ tmp' \in [Workers -> [Slots -> TmpFiles]]
      /\ \A v \in Workers : v # w => tmp'[v] = tmp[v]
      /\ \A b \in Slots : b # a => tmp'[w][b] = tmp[w][b]
      /\ tmp'[w][a] = IF moved THEN NoFile ELSE t
  <2>. DEFINE x == IF moved THEN NoFile ELSE t
  <2>1. x \in TmpFiles
    BY DEF TmpFiles, NoFile
  <2>2. tmp' = [tmp EXCEPT ![w][a] = x]
    BY DEF Rename
  <2>. HIDE DEF x
  <2>3. /\ tmp' \in [Workers -> [Slots -> TmpFiles]] /\ tmp'[w][a] = x
        /\ \A v \in Workers : v # w => tmp'[v] = tmp[v]
        /\ \A b \in Slots : b # a => tmp'[w][b] = tmp[w][b]
    BY <1>1, <2>1, <2>2, Place
  <2>. QED BY <2>3 DEF x
<1>4. /\ ~tmp'[w][a].exists => tmp'[w][a].data = <<>>
      /\ tmp'[w][a].exists => stranded'[w]
  BY <1>0, <1>2, <1>3 DEF NoFile
<1>5. ASSUME NEW g \in Files, NEW i \in 1 .. Len(history[g])
      PROVE  Published(g, history[g][i], uploads', stranded', failed')
  <2>1. Published(g, history[g][i], uploads, stranded, failed)
    BY DEF HistoryInv
  <2>2. history[g][i].id \in Nat
    <3>1. history[g] \in Seq(Uploads)
      BY <1>1
    <3>2. history[g][i] \in Uploads
      BY <3>1
    <3>. QED BY <3>2 DEF Uploads
  <2>. QED BY <1>1, <1>2, <2>1, <2>2 DEF Published, Content
<1>6. CASE moved
  <2>. DEFINE x == [id |-> id, data |-> t.data, form |-> form, worker |-> w]
              n == Len(history[f])
  <2>1. x \in Uploads
    BY DEF Uploads, TmpFiles
  <2>2. history' = [history EXCEPT ![f] = Append(@, x)]
    BY <1>6 DEF Rename
  <2>3. x.id = id /\ x.data = t.data /\ x.form = form /\ x.worker = w
    OBVIOUS
  <2>. HIDE DEF x
  <2>4. /\ history' \in [Files -> Seq(Uploads)] /\ Longer(history, history')
        /\ Len(history'[f]) = Len(history[f]) + 1 /\ history'[f][Len(history[f]) + 1] = x
        /\ \A g \in Files : g # f => history'[g] = history[g]
    <3>1. f \in Files /\ history \in [Files -> Seq(Uploads)]
      BY <1>0, <1>1, <1>6
    <3>2. Append(history[f], x) \in Seq(Uploads)
      BY <2>1, <3>1
    <3>3. /\ history' \in [Files -> Seq(Uploads)] /\ history'[f] = Append(history[f], x)
          /\ \A g \in Files : g # f => history'[g] = history[g]
      BY <2>2, <3>1, <3>2
    <3>4. /\ Len(history'[f]) = n + 1 /\ history'[f][n + 1] = x /\ n \in Nat
          /\ \A i \in 1 .. n : history'[f][i] = history[f][i]
      <4>1. history[f] \in Seq(Uploads)
        BY <3>1
      <4>. QED BY <2>1, <3>3, <4>1
    <3>5. ASSUME NEW g \in Files
          PROVE  /\ Len(history[g]) <= Len(history'[g])
                 /\ \A i \in 1 .. Len(history[g]) : history'[g][i] = history[g][i]
      <4>1. CASE g = f
        BY <3>4, <4>1
      <4>2. CASE g # f
        <5>1. Len(history[g]) \in Nat /\ history'[g] = history[g]
          BY <3>1, <3>3, <4>2
        <5>. QED BY <5>1
      <4>. QED BY <4>1, <4>2
    <3>6. Longer(history, history')
      BY <3>5 DEF Longer
    <3>. QED BY <3>3, <3>4, <3>6
  <2>5. n \in Nat /\ \A i \in 1 .. n : history'[f][i] = history[f][i]
    BY <1>0, <1>1, <1>6, <2>4 DEF Longer
  <2>6. Published(f, x, uploads', stranded', failed')
    BY <1>0, <1>2, <1>6, <2>3 DEF Published
  <2>7. HistoryInv'
    <3>1. ASSUME NEW g \in Files, NEW i \in 1 .. Len(history'[g])
          PROVE  Published(g, history'[g][i], uploads', stranded', failed')
      <4>1. CASE g # f
        <5>1. history'[g] = history[g]
          BY <2>4, <4>1
        <5>. QED BY <1>5, <5>1
      <4>2. CASE g = f /\ i = n + 1
        BY <2>4, <2>6, <4>2
      <4>3. CASE g = f /\ i # n + 1
        <5>1. i \in 1 .. n
          BY <2>4, <2>5, <4>3
        <5>. QED BY <1>5, <2>5, <4>3, <5>1
      <4>. QED BY <4>1, <4>2, <4>3
    <3>. QED BY <3>1 DEF HistoryInv
  <2>8. LateOnesAreUnfinished'
    <3>1. ASSUME NEW g \in Files, NEW i \in DOMAIN history'[g], NEW j \in DOMAIN history'[g],
                 i < j, history'[g][i].id > history'[g][j].id
          PROVE  ~history'[g][j].form.closed
      <4>1. CASE g # f
        <5>1. history'[g] = history[g]
          BY <2>4, <4>1
        <5>. QED BY <3>1, <5>1 DEF LateOnesAreUnfinished
      <4>2. CASE g = f
        <5>1. i \in 1 .. n + 1 /\ j \in 1 .. n + 1
          BY <2>4, <4>2
        <5>2. i \in 1 .. n
          BY <2>5, <3>1, <5>1
        <5>3. CASE j = n + 1
          <6>1. history[f][i].id <= uploads /\ history[f][i].id \in Nat
            <7>1. history[f] \in Seq(Uploads)
              BY <1>0, <1>1, <1>6
            <7>2. history[f][i] \in Uploads
              BY <5>2, <7>1
            <7>3. Published(f, history[f][i], uploads, stranded, failed)
              BY <1>0, <1>6, <5>2 DEF HistoryInv
            <7>. QED BY <7>2, <7>3 DEF Published, Uploads
          <6>2. history[f][i].id > id
            BY <2>3, <2>4, <2>5, <3>1, <4>2, <5>2, <5>3
          <6>3. ~form.closed
            BY <1>0, <1>1, <6>1, <6>2
          <6>. QED BY <2>3, <2>4, <4>2, <5>3, <6>3
        <5>4. CASE j # n + 1
          <6>1. j \in 1 .. n
            <7>. HIDE DEF n
            <7>1. n \in Nat
              BY <2>5
            <7>. QED BY <5>1, <5>4, <7>1
          <6>2. history'[f][i] = history[f][i] /\ history'[f][j] = history[f][j]
            BY <2>5, <5>2, <6>1
          <6>3. i \in DOMAIN history[f] /\ j \in DOMAIN history[f]
            BY <1>0, <1>1, <1>6, <5>2, <6>1
          <6>. QED BY <1>0, <1>6, <3>1, <4>2, <6>2, <6>3 DEF LateOnesAreUnfinished
        <5>. QED BY <5>3, <5>4
      <4>. QED BY <4>1, <4>2
    <3>. QED BY <3>1 DEF LateOnesAreUnfinished
  <2>. QED BY <1>2, <1>3, <1>4, <2>4, <2>7, <2>8 DEF Attempted
<1>7. CASE ~moved
  <2>1. history' = history
    BY <1>7 DEF Rename
  <2>2. Longer(history, history')
    BY <1>1, <2>1 DEF Longer
  <2>3. HistoryInv'
    BY <1>5, <2>1 DEF HistoryInv
  <2>4. LateOnesAreUnfinished'
    BY <2>1 DEF LateOnesAreUnfinished
  <2>. QED BY <1>1, <1>2, <1>3, <1>4, <1>7, <2>1, <2>2, <2>3, <2>4 DEF Attempted
<1>. QED BY <1>0, <1>6, <1>7

\* What comes of a rename.
LEMMA Renaming ==
    ASSUME NEW t, NEW f, NEW m \in rename(t, f)
    PROVE  /\ m.moved \in BOOLEAN /\ m.failed \subseteq Calls
           /\ m.moved => t.exists /\ f \in Files /\ kind[f] = "file"
<1>. DEFINE can == t.exists /\ f \in Files /\ kind[f] = "file"
<1>1. CASE can
  <2>1. \/ m = [moved |-> TRUE, failed |-> {}]
        \/ \E call \in Failing \cap {"rename"} : m = [moved |-> FALSE, failed |-> {call}]
    BY <1>1 DEF rename
  <2>2. CASE m = [moved |-> TRUE, failed |-> {}]
    <3>1. m.moved = TRUE /\ m.failed = {}
      BY <2>2
    <3>. QED BY <1>1, <3>1
  <2>3. CASE \E call \in Failing \cap {"rename"} : m = [moved |-> FALSE, failed |-> {call}]
    <3>1. m.moved = FALSE /\ m.failed = {"rename"}
      BY <2>3
    <3>2. {"rename"} \subseteq Calls
      BY DEF Calls
    <3>. QED BY <3>1, <3>2
  <2>. QED BY <2>1, <2>2, <2>3
<1>2. CASE ~can
  <2>1. m = [moved |-> FALSE, failed |-> {}]
    BY <1>2 DEF rename
  <2>2. m.moved = FALSE /\ m.failed = {}
    BY <2>1
  <2>. QED BY <2>2
<1>. QED BY <1>1, <1>2

\* The streams after a step of one of them, when no other stream of its worker
\* is between write and its answer.
LEMMA StreamStep ==
    ASSUME TypeInv, StreamInv, WrittenInv, NEW w \in Workers, NEW a \in Slots,
           NEW s \in Streams, stream' = [stream EXCEPT ![w][a] = s],
           history' \in [Files -> Seq(Uploads)], Longer(history, history'),
           cache' \in [Workers -> [Files -> Entry]],
           \A v \in Workers : v # w => cache'[v] = cache[v],
           \A v \in Workers, g \in Files : is_mapped(cache[v][g]) => cache'[v][g] = cache[v][g],
           uploads' \in Nat, uploads <= uploads',
           failed \subseteq failed', kind' = kind,
           \A b \in Slots : b # a => stream[w][b].state # "written",
           PendingOk(s, uploads'), ReplyOk(s, cache'[w]),
           StoredOk(s, cache'[w], history', LoadFailed(w, failed')), KindOk(s)
    PROVE  /\ stream' \in [Workers -> [Slots -> Streams]] /\ stream'[w][a] = s
           /\ \A v \in Workers : v # w => stream'[v] = stream[v]
           /\ \A b \in Slots : b # a => stream'[w][b] = stream[w][b]
           /\ StreamInv'
           /\ WrittenInv'
<1>1. /\ history \in [Files -> Seq(Uploads)] /\ cache \in [Workers -> [Files -> Entry]]
      /\ stream \in [Workers -> [Slots -> Streams]] /\ uploads \in Nat
  BY FilesAssumption DEF TypeInv
<1>2. /\ stream' \in [Workers -> [Slots -> Streams]] /\ stream'[w][a] = s
      /\ \A v \in Workers : v # w => stream'[v] = stream[v]
      /\ \A b \in Slots : b # a => stream'[w][b] = stream[w][b]
  BY <1>1, Place
<1>3. ASSUME NEW v \in Workers, NEW b \in Slots
      PROVE  /\ PendingOk(stream'[v][b], uploads')
             /\ ReplyOk(stream'[v][b], cache'[v])
             /\ StoredOk(stream'[v][b], cache'[v], history', LoadFailed(v, failed'))
             /\ KindOk(stream'[v][b])
  <2>1. CASE v = w /\ b = a
    BY <1>2, <2>1
  <2>2. CASE ~(v = w /\ b = a)
    <3>1. stream'[v][b] = stream[v][b] /\ stream[v][b] \in Streams
      BY <1>1, <1>2, <2>2
    <3>2. /\ PendingOk(stream[v][b], uploads) /\ ReplyOk(stream[v][b], cache[v])
          /\ StoredOk(stream[v][b], cache[v], history, LoadFailed(v, failed))
          /\ KindOk(stream[v][b])
      BY DEF StreamInv
    <3>3. stream[v][b].state = "written" => cache'[v] = cache[v]
      BY <2>2
    <3>4. /\ cache[v] \in [Files -> Entry] /\ cache'[v] \in [Files -> Entry]
          /\ \A g \in Files : is_mapped(cache[v][g]) => cache'[v][g] = cache[v][g]
      BY <1>1
    <3>. DEFINE x == stream[v][b]
                c == cache[v]
                d == cache'[v]
                nm == LoadFailed(v, failed)
                nm2 == LoadFailed(v, failed')
    <3>4a. nm \in BOOLEAN /\ nm2 \in BOOLEAN /\ (nm => nm2)
      BY DEF LoadFailed
    <3>5. x \in Streams /\ c \in [Files -> Entry] /\ d \in [Files -> Entry]
      BY <3>1, <3>4
    <3>. HIDE DEF nm, nm2
    <3>6. Unnoticed(x, c, d, history, history', uploads, uploads', nm, nm2)
      BY <1>1, <3>3, <3>4, <3>4a DEF Unnoticed
    <3>7. PendingOk(x, uploads) /\ ReplyOk(x, c) /\ StoredOk(x, c, history, nm)
      BY <3>2 DEF nm
    <3>. HIDE DEF x, c, d
    <3>8. PendingOk(x, uploads') /\ ReplyOk(x, d) /\ StoredOk(x, d, history', nm2)
      BY <3>5, <3>6, <3>7, StreamKept
    <3>. QED BY <3>1, <3>2, <3>8 DEF x, c, d, nm2
  <2>. QED BY <2>1, <2>2
<1>4. StreamInv'
  BY <1>3 DEF StreamInv, KindOk, LoadFailed
<1>5. WrittenInv'
  <2>1. ASSUME NEW v \in Workers, NEW b \in Slots, NEW e \in Slots,
               stream'[v][b].state = "written", stream'[v][e].state = "written"
        PROVE  b = e
    BY <1>2, <2>1 DEF WrittenInv
  <2>. QED BY <2>1 DEF WrittenInv
<1>. QED BY <1>2, <1>4, <1>5

\* The temporary files after it.
LEMMA TmpStep ==
    ASSUME TypeInv, TmpInv, NEW w \in Workers, NEW a \in Slots,
           \A v \in Workers : v # w => stream'[v] = stream[v] /\ tmp'[v] = tmp[v],
           \A b \in Slots : b # a => stream'[w][b] = stream[w][b] /\ tmp'[w][b] = tmp[w][b],
           stranded' \in [Workers -> BOOLEAN],
           \A v \in Workers : stranded[v] => stranded'[v],
           failed \subseteq failed',
           TmpOk(tmp'[w][a], stream'[w][a], stranded'[w], <<w, "write">> \in failed')
    PROVE  TmpInv'
<1>1. ASSUME NEW v \in Workers, NEW b \in Slots
      PROVE  TmpOk(tmp'[v][b], stream'[v][b], stranded'[v], <<v, "write">> \in failed')
  <2>1. CASE v = w /\ b = a
    BY <2>1
  <2>2. CASE ~(v = w /\ b = a)
    <3>1. tmp'[v][b] = tmp[v][b] /\ stream'[v][b] = stream[v][b]
      BY <2>2
    <3>2. TmpOk(tmp[v][b], stream[v][b], stranded[v], <<v, "write">> \in failed)
      BY DEF TmpInv
    <3>. QED BY <3>1, <3>2 DEF TmpOk, Content
  <2>. QED BY <2>1, <2>2
<1>. QED BY <1>1 DEF TmpInv

-----------------------------------------------------------------------------
(***************************************************************************)
(* The initial states and the steps.                                       *)
(***************************************************************************)

\* At first there are files, and nothing is mapped or under way.
LEMMA InitIInv ==
    Init => IInv
<1>. SUFFICES ASSUME Init PROVE IInv
  OBVIOUS
<1>1. Old \in Uploads /\ Old.id = 0
  BY DEF Uploads, Tokens, Old
<1>2. history \in [Files -> {<<>>, <<Old>>}]
  BY DEF Init
<1>3. <<>> \in Seq(Uploads) /\ <<Old>> \in Seq(Uploads)
  BY <1>1
<1>4. history \in [Files -> Seq(Uploads)]
  BY <1>2, <1>3
<1>5. \A f \in Files : history[f] = <<>> \/ history[f] = <<Old>>
  BY <1>2
<1>6. ASSUME NEW f \in Files, NEW i \in 1 .. Len(history[f])
      PROVE  i = 1 /\ history[f][i] = Old
  <2>1. CASE history[f] = <<>>
    BY <2>1
  <2>2. CASE history[f] = <<Old>>
    <3>1. Len(history[f]) = 1 /\ history[f][1] = Old
      BY <2>2
    <3>. QED BY <3>1
  <2>. QED BY <1>5, <2>1, <2>2
<1>7. Idle \in Streams
  BY DEF Idle, Streams, Names
<1>8. NoFile \in TmpFiles /\ NoEntry \in Entry
  BY DEF NoFile, TmpFiles, NoEntry, Entry
<1>9. TypeInv
  <2>1. /\ tmp \in [Workers -> [Slots -> TmpFiles]] /\ cache \in [Workers -> [Files -> Entry]]
        /\ stream \in [Workers -> [Slots -> Streams]]
    BY <1>7, <1>8 DEF Init
  <2>2. uploads \in 0 .. MaxUploads
    BY FilesAssumption DEF Init
  <2>3. /\ stranded \in [Workers -> BOOLEAN] /\ failed \subseteq Workers \X Calls
        /\ kind \in [Files -> Kinds]
    BY DEF Init
  <2>. QED BY <1>4, <2>1, <2>2, <2>3 DEF TypeInv
<1>10. HistoryInv
  BY <1>1, <1>6 DEF Init, HistoryInv, Published
<1>11. LateOnesAreUnfinished
  <2>1. ASSUME NEW f \in Files, NEW i \in DOMAIN history[f], NEW j \in DOMAIN history[f], i < j
        PROVE  FALSE
    <3>1. i \in 1 .. Len(history[f]) /\ j \in 1 .. Len(history[f])
      BY <1>4
    <3>. QED BY <1>6, <2>1, <3>1
  <2>. QED BY <2>1 DEF LateOnesAreUnfinished
<1>12. CacheInv
  <2>1. \A f \in Files : Len(history[f]) \in Nat
    BY <1>4
  <2>. QED BY <2>1 DEF Init, CacheInv, EntryOk, NoEntry
<1>13. ASSUME NEW w \in Workers, NEW a \in Slots
       PROVE  stream[w][a] = Idle /\ tmp[w][a] = NoFile
  BY DEF Init
<1>14. StreamInv
  BY <1>13 DEF StreamInv, PendingOk, ReplyOk, StoredOk, KindOk, Idle
<1>15. WrittenInv
  BY <1>13 DEF WrittenInv, Idle
<1>16. TmpInv
  BY <1>13 DEF TmpInv, TmpOk, NoFile
<1>. QED BY <1>9, <1>10, <1>11, <1>12, <1>14, <1>15, <1>16 DEF IInv

\* The types, one by one.
LEMMA Types ==
    ASSUME IInv
    PROVE  /\ history \in [Files -> Seq(Uploads)] /\ tmp \in [Workers -> [Slots -> TmpFiles]]
           /\ cache \in [Workers -> [Files -> Entry]]
           /\ stream \in [Workers -> [Slots -> Streams]]
           /\ uploads \in Nat /\ uploads <= MaxUploads
           /\ stranded \in [Workers -> BOOLEAN] /\ failed \subseteq Workers \X Calls
           /\ kind \in [Files -> Kinds] /\ Longer(history, history)
  BY FilesAssumption DEF IInv, TypeInv, Longer

\* The versions stay what they are when a call fails.
LEMMA HistoryKept ==
    ASSUME HistoryInv, LateOnesAreUnfinished, history' = history, uploads' = uploads,
           stranded' = stranded, failed \subseteq failed'
    PROVE  HistoryInv' /\ LateOnesAreUnfinished'
<1>1. ASSUME NEW f \in Files, NEW i \in 1 .. Len(history[f])
      PROVE  Published(f, history[f][i], uploads, stranded, failed')
  <2>1. Published(f, history[f][i], uploads, stranded, failed)
    BY DEF HistoryInv
  <2>. QED BY <2>1 DEF Published, Content
<1>2. HistoryInv'
  BY <1>1 DEF HistoryInv
<1>3. LateOnesAreUnfinished'
  BY DEF LateOnesAreUnfinished
<1>. QED BY <1>2, <1>3

\* A download: the body is the mapping that the cache has now.
LEMMA Download ==
    ASSUME IInv, NEW w \in Workers, NEW a \in Slots, NEW f, downloader(w, a, f),
           kind' = kind
    PROVE  IInv'
<1>1. TypeInv /\ HistoryInv /\ LateOnesAreUnfinished /\ CacheInv /\ StreamInv /\ WrittenInv
       /\ TmpInv
  BY DEF IInv
<1>2. history' = history /\ tmp' = tmp /\ uploads' = uploads /\ stranded' = stranded
  BY DEF downloader
<1>3. PICK found \in load_file_from_filecache(w, f) :
        /\ Loaded(w, f, found)
        /\ stream' = [stream EXCEPT ![w][a] =
             IF found.file
             THEN [Idle EXCEPT !.state = "get", !.name = f, !.data = found.entry.data,
                               !.version = found.entry.version, !.reply = "file"]
             ELSE [Idle EXCEPT !.state = "get", !.reply = "404"]]
  BY DEF downloader
<1>4. /\ cache' \in [Workers -> [Files -> Entry]]
      /\ failed' \subseteq Workers \X Calls /\ failed \subseteq failed'
      /\ CacheInv'
      /\ \A v \in Workers : v # w => cache'[v] = cache[v]
      /\ \A v \in Workers, g \in Files : is_mapped(cache[v][g]) => cache'[v][g] = cache[v][g]
      /\ f \in Files => cache'[w][f] = found.entry
      /\ found.file => f \in Files
  BY <1>1, <1>2, <1>3, LoadStep
<1>5. found.file => found.entry \in Entry /\ is_mapped(found.entry)
  BY <1>1, <1>3, <1>4, Load
<1>. DEFINE s == IF found.file
                 THEN [Idle EXCEPT !.state = "get", !.name = f, !.data = found.entry.data,
                                   !.version = found.entry.version, !.reply = "file"]
                 ELSE [Idle EXCEPT !.state = "get", !.reply = "404"]
<1>6. /\ s.state = "get" /\ ~s.pending /\ ~s.fresh
      /\ s.reply = "file" => /\ found.file /\ s.name = f /\ s.data = found.entry.data
                             /\ s.version = found.entry.version
  BY DEF Idle
<1>7. s \in Streams
  <2>1. (found.file => f \in Names) /\ <<>> \in Names
    BY <1>4 DEF Names
  <2>2. found.file => /\ found.entry.data \in {"mapped", "MAP_FAILED"}
                      /\ found.entry.version \in Nat
    BY <1>5 DEF is_mapped, Entry
  <2>3. CASE found.file
    BY <2>1, <2>2, <2>3 DEF Idle, Streams
  <2>4. CASE ~found.file
    BY <2>1, <2>4 DEF Idle, Streams
  <2>. QED BY <2>3, <2>4
<1>8. stream' = [stream EXCEPT ![w][a] = s]
  BY <1>3
<1>. HIDE DEF s
<1>9. /\ PendingOk(s, uploads') /\ ReplyOk(s, cache'[w])
      /\ StoredOk(s, cache'[w], history', LoadFailed(w, failed')) /\ KindOk(s)
  BY <1>4, <1>5, <1>6 DEF PendingOk, ReplyOk, StoredOk, KindOk
<1>10. \A b \in Slots : b # a => stream[w][b].state # "written"
  BY DEF downloader, Free
<1>11. /\ history' \in [Files -> Seq(Uploads)] /\ Longer(history, history')
       /\ uploads' \in Nat /\ uploads <= uploads'
  BY <1>2, Types
<1>12. /\ stream' \in [Workers -> [Slots -> Streams]] /\ stream'[w][a] = s
       /\ \A v \in Workers : v # w => stream'[v] = stream[v]
       /\ \A b \in Slots : b # a => stream'[w][b] = stream[w][b]
       /\ StreamInv' /\ WrittenInv'
  BY <1>1, <1>4, <1>7, <1>8, <1>9, <1>10, <1>11, StreamStep
<1>13. TmpInv'
  <2>1. TmpOk(tmp'[w][a], stream'[w][a], stranded'[w], <<w, "write">> \in failed')
    <3>1. /\ TmpOk(tmp[w][a], stream[w][a], stranded[w], <<w, "write">> \in failed)
          /\ stream[w][a] = Idle
      BY <1>1 DEF TmpInv, downloader
    <3>. QED BY <1>2, <3>1 DEF TmpOk, Idle
  <2>2. stranded' \in [Workers -> BOOLEAN]
    BY <1>2, Types
  <2>3. /\ \A v \in Workers : v # w => stream'[v] = stream[v] /\ tmp'[v] = tmp[v]
        /\ \A b \in Slots : b # a => stream'[w][b] = stream[w][b] /\ tmp'[w][b] = tmp[w][b]
        /\ \A v \in Workers : stranded[v] => stranded'[v]
    BY <1>2, <1>12
  <2>4. TypeInv /\ TmpInv /\ failed \subseteq failed'
    BY <1>1, <1>4
  <2>. QED BY <2>1, <2>2, <2>3, <2>4, TmpStep
<1>14. TypeInv'
  BY <1>1, <1>2, <1>4, <1>12 DEF TypeInv
<1>15. HistoryInv' /\ LateOnesAreUnfinished'
  BY <1>1, <1>2, <1>4, HistoryKept
<1>. QED BY <1>4, <1>12, <1>13, <1>14, <1>15 DEF IInv

\* A complete form is answered: a file that was stored is there to be mapped.
LEMMA Answer ==
    ASSUME IInv, NEW w \in Workers, NEW a \in Slots, AnswerUpload(w, a),
           kind' = kind
    PROVE  IInv'
<1>1. TypeInv /\ HistoryInv /\ LateOnesAreUnfinished /\ CacheInv /\ StreamInv /\ WrittenInv
       /\ TmpInv
  BY DEF IInv
<1>2. history' = history /\ tmp' = tmp /\ uploads' = uploads /\ stranded' = stranded
  BY DEF AnswerUpload
<1>. DEFINE o == stream[w][a]
            f == o.name
<1>3. PICK found \in load_file_from_filecache(w, f) :
        /\ Loaded(w, f, found)
        /\ stream' = [stream EXCEPT ![w][a] =
             [@ EXCEPT !.state = "post", !.reply = IF found.file THEN "ok" ELSE "404"]]
  BY DEF AnswerUpload
<1>. DEFINE s == [o EXCEPT !.state = "post", !.reply = IF found.file THEN "ok" ELSE "404"]
<1>4. o \in Streams /\ o.state = "written"
  BY Types DEF AnswerUpload
<1>5. stream' = [stream EXCEPT ![w][a] = s]
  BY <1>3
<1>6. /\ PendingOk(o, uploads) /\ StoredOk(o, cache[w], history, LoadFailed(w, failed))
      /\ KindOk(o)
  BY <1>1 DEF StreamInv
<1>7. ~o.pending
  BY <1>4, <1>6 DEF PendingOk
<1>. HIDE DEF o
<1>8. /\ s \in Streams /\ s.state = "post" /\ s.reply = (IF found.file THEN "ok" ELSE "404")
      /\ s.name = f /\ s.version = o.version /\ s.fresh = o.fresh /\ s.pending = o.pending
  BY <1>4 DEF Streams
<1>. HIDE DEF s, f
<1>9. /\ cache' \in [Workers -> [Files -> Entry]]
      /\ failed' \subseteq Workers \X Calls /\ failed \subseteq failed'
      /\ CacheInv'
      /\ \A v \in Workers : v # w => cache'[v] = cache[v]
      /\ \A v \in Workers, g \in Files : is_mapped(cache[v][g]) => cache'[v][g] = cache[v][g]
      /\ f \in Files => /\ cache'[w][f] = found.entry
                        /\ found.entry.data = "MAP_FAILED" =>
                             \/ history[f][found.entry.version].data = <<>>
                             \/ Unmappable(w, f, failed')
                        /\ "open" \in found.failed => LoadFailed(w, failed')
      /\ found.file => f \in Files
  BY <1>1, <1>2, <1>3, LoadStep
<1>10. f \in Files =>
         /\ found.entry \in Entry /\ found.file \in BOOLEAN
         /\ is_mapped(cache[w][f]) => found.file
         /\ found.file => is_mapped(found.entry)
         /\ ~is_mapped(cache[w][f]) =>
              /\ found.file => found.entry.version = Len(history[f])
              /\ ~found.file =>
                   \/ Len(history[f]) = 0
                   \/ "open" \in found.failed
                   \/ /\ found.entry.version = Len(history[f])
                      /\ found.entry.data = "MAP_FAILED"
  BY <1>1, <1>3, Load
<1>11. PendingOk(s, uploads') /\ ReplyOk(s, cache'[w])
  BY <1>7, <1>8 DEF PendingOk, ReplyOk
<1>12. StoredOk(s, cache'[w], history', LoadFailed(w, failed'))
  <2>1. /\ o.fresh => o.version > 0 /\ o.version \in Nat
        /\ o.version > 0 => f \in Files /\ o.version <= Len(history[f])
        /\ o.fresh => ~is_mapped(cache[w][f])
    BY <1>4, <1>6 DEF StoredOk, f, Streams
  <2>2. o.version \in Nat /\ (f \in Files => Len(history[f]) \in Nat)
    BY <1>4, Types DEF Streams
  <2>3. s.fresh => s.version > 0
    BY <1>8, <2>1
  <2>4. s.version > 0 => s.name \in Files /\ s.version <= Len(history'[s.name])
    BY <1>2, <1>8, <2>1
  <2>5. s.fresh /\ s.reply = "ok" =>
          is_mapped(cache'[w][s.name]) /\ cache'[w][s.name].version >= s.version
    <3>. SUFFICES ASSUME s.fresh, s.reply = "ok"
                  PROVE  is_mapped(cache'[w][f]) /\ cache'[w][f].version >= o.version
      BY <1>8
    <3>1. f \in Files /\ found.file /\ ~is_mapped(cache[w][f]) /\ Len(history[f]) # 0
      BY <1>8, <1>9, <2>1, <2>2
    <3>2. is_mapped(found.entry) /\ found.entry.version = Len(history[f])
      BY <1>10, <3>1
    <3>. QED BY <1>8, <1>9, <2>1, <3>1, <3>2
  <2>6. s.version > 0 /\ s.reply = "404" =>
          (\E i \in s.version .. Len(history'[s.name]) : history'[s.name][i].data = <<>>)
          \/ LoadFailed(w, failed')
    <3>. SUFFICES ASSUME o.version > 0, ~found.file, ~LoadFailed(w, failed')
                  PROVE  \E i \in o.version .. Len(history[f]) : history[f][i].data = <<>>
      BY <1>2, <1>8
    <3>1. f \in Files /\ o.version <= Len(history[f]) /\ Len(history[f]) \in Nat
      BY <2>1, <2>2
    <3>2. Len(history[f]) # 0 /\ ~is_mapped(cache[w][f])
      BY <1>10, <2>2, <3>1
    <3>3. found.entry.data = "MAP_FAILED" /\ found.entry.version = Len(history[f])
      BY <1>9, <1>10, <3>1, <3>2
    <3>4. history[f][Len(history[f])].data = <<>>
      <4>1. kind[f] # "directory"
        BY <1>4, <1>6 DEF KindOk, f
      <4>2. ~Unmappable(w, f, failed')
        BY <4>1 DEF Unmappable, LoadFailed
      <4>. QED BY <1>9, <3>1, <3>3, <4>2
    <3>5. Len(history[f]) \in o.version .. Len(history[f])
      BY <2>2, <3>1
    <3>. QED BY <3>4, <3>5
  <2>. QED BY <1>8, <2>3, <2>4, <2>5, <2>6 DEF StoredOk
<1>12a. KindOk(s)
  BY <1>4, <1>6, <1>8 DEF KindOk, f
<1>13. \A b \in Slots : b # a => stream[w][b].state # "written"
  BY <1>1, <1>4 DEF WrittenInv, o
<1>14. /\ history' \in [Files -> Seq(Uploads)] /\ Longer(history, history')
       /\ uploads' \in Nat /\ uploads <= uploads'
  BY <1>2, Types
<1>15. /\ stream' \in [Workers -> [Slots -> Streams]] /\ stream'[w][a] = s
       /\ \A v \in Workers : v # w => stream'[v] = stream[v]
       /\ \A b \in Slots : b # a => stream'[w][b] = stream[w][b]
       /\ StreamInv' /\ WrittenInv'
  <2>1. s \in Streams
    BY <1>8
  <2>. QED BY <1>1, <1>5, <1>9, <1>11, <1>12, <1>12a, <1>13, <1>14, <2>1,
              StreamStep
<1>16. TmpInv'
  <2>1. TmpOk(tmp'[w][a], stream'[w][a], stranded'[w], <<w, "write">> \in failed')
    <3>1. TmpOk(tmp[w][a], o, stranded[w], <<w, "write">> \in failed)
      BY <1>1 DEF TmpInv, o
    <3>. QED BY <1>2, <1>7, <1>15, <3>1 DEF TmpOk
  <2>2. stranded' \in [Workers -> BOOLEAN]
    BY <1>2, Types
  <2>. QED BY <1>1, <1>2, <1>9, <1>15, <2>1, <2>2, TmpStep
<1>17. TypeInv'
  BY <1>1, <1>2, <1>9, <1>15 DEF TypeInv
<1>18. HistoryInv' /\ LateOnesAreUnfinished'
  BY <1>1, <1>2, <1>9, HistoryKept
<1>. QED BY <1>9, <1>15, <1>16, <1>17, <1>18 DEF IInv

\* The stream closes; a file that waits in file_map is renamed.
LEMMA Close ==
    ASSUME IInv, NEW w \in Workers, NEW a \in Slots, StreamCloses(w, a),
           kind' = kind
    PROVE  IInv'
<1>1. TypeInv /\ HistoryInv /\ LateOnesAreUnfinished /\ CacheInv /\ StreamInv /\ WrittenInv
       /\ TmpInv
  BY DEF IInv
<1>2. cache' = cache /\ uploads' = uploads
  BY DEF StreamCloses
<1>. DEFINE o == stream[w][a]
            t == tmp[w][a]
<1>3. o \in Streams /\ t \in TmpFiles
  BY Types
<1>4. PendingOk(o, uploads) /\ TmpOk(t, o, stranded[w], <<w, "write">> \in failed)
  BY <1>1 DEF StreamInv, TmpInv
<1>5. stream' = [stream EXCEPT ![w][a] = Idle]
  BY DEF StreamCloses
<1>6. Idle \in Streams
  BY DEF Idle, Streams, Names
<1>6a. failed' \subseteq Workers \X Calls /\ failed \subseteq failed'
  <2>1. CASE o.pending
    <3>1. PICK renamed \in rename(t, o.name) : failed' = failed \cup ({w} \X renamed.failed)
      BY <2>1 DEF StreamCloses
    <3>2. renamed.failed \in SUBSET Calls
      BY Renaming
    <3>. DEFINE calls == renamed.failed
    <3>3. calls \in SUBSET Calls /\ failed' = failed \cup ({w} \X calls)
      BY <3>1, <3>2
    <3>. HIDE DEF calls
    <3>. QED BY <1>1, <3>3, FailedStep
  <2>2. CASE ~o.pending
    BY <2>2, Types DEF StreamCloses
  <2>. QED BY <2>1, <2>2
<1>7. /\ history' \in [Files -> Seq(Uploads)] /\ Longer(history, history')
      /\ tmp' \in [Workers -> [Slots -> TmpFiles]]
      /\ \A v \in Workers : v # w => tmp'[v] = tmp[v]
      /\ \A b \in Slots : b # a => tmp'[w][b] = tmp[w][b]
      /\ stranded' \in [Workers -> BOOLEAN]
      /\ \A v \in Workers : stranded[v] => stranded'[v]
      /\ ~tmp'[w][a].exists => tmp'[w][a].data = <<>>
      /\ tmp'[w][a].exists => stranded'[w]
      /\ HistoryInv' /\ LateOnesAreUnfinished'
  <2>1. CASE o.pending
    <3>1. PICK renamed \in rename(t, o.name) :
            Rename(w, a, t, o.name, o.id, o.form, renamed.moved)
      BY <2>1 DEF StreamCloses
    <3>2. /\ o.form \in Forms /\ ~o.form.closed
          /\ o.name = Parsed[o.form].filename /\ o.id > 0 /\ o.id <= uploads
      BY <1>4, <2>1 DEF PendingOk
    <3>3. o.id \in Nat \ {0}
      BY <1>3, <3>2 DEF Streams
    <3>4. /\ renamed.moved \in BOOLEAN
          /\ renamed.moved => t.exists /\ o.name \in Files
      BY Renaming
    <3>5. /\ ~t.exists => t.data = <<>>
          /\ t.exists => Content(t.data, o.form, <<w, "write">> \in failed') \/ stranded[w]
      BY <1>4, <1>6a DEF TmpOk, Content
    <3>6. uploads' \in Nat /\ uploads <= uploads' /\ o.id <= uploads'
      BY <1>2, <3>2, Types
    <3>. DEFINE f == o.name
                id == o.id
                form == o.form
                moved == renamed.moved
    <3>. HIDE DEF o, t
    <3>7. /\ t \in TmpFiles /\ id \in Nat \ {0} /\ form \in Forms /\ moved \in BOOLEAN
          /\ Rename(w, a, t, f, id, form, moved)
      BY <1>3, <3>1, <3>2, <3>3, <3>4
    <3>8. Renamable(w, t, f, id, form, moved)
      BY <3>2, <3>4, <3>5, <3>6 DEF Renamable
    <3>. HIDE DEF f, id, form, moved
    <3>9. Attempted(w, a, f, moved)
      BY <1>1, <1>6a, <3>6, <3>7, <3>8, RenameStep
    <3>. QED BY <3>9 DEF Attempted
  <2>2. CASE ~o.pending
    <3>1. tmp' = tmp /\ history' = history /\ stranded' = stranded
      BY <2>2 DEF StreamCloses
    <3>2. /\ ~t.exists => t.data = <<>>
          /\ t.exists => stranded[w]
      BY <1>4, <2>2 DEF TmpOk
    <3>3. HistoryInv' /\ LateOnesAreUnfinished'
      BY <1>1, <1>2, <1>6a, <3>1, HistoryKept
    <3>. QED BY <3>1, <3>2, <3>3, Types
  <2>. QED BY <2>1, <2>2
<1>8. /\ PendingOk(Idle, uploads') /\ ReplyOk(Idle, cache'[w])
      /\ StoredOk(Idle, cache'[w], history', LoadFailed(w, failed')) /\ KindOk(Idle)
  BY DEF PendingOk, ReplyOk, StoredOk, KindOk, Idle
<1>9. \A b \in Slots : b # a => stream[w][b].state # "written"
  BY DEF StreamCloses, Free
<1>10. /\ cache' \in [Workers -> [Files -> Entry]] /\ uploads' \in Nat /\ uploads <= uploads'
       /\ \A v \in Workers : v # w => cache'[v] = cache[v]
       /\ \A v \in Workers, g \in Files : is_mapped(cache[v][g]) => cache'[v][g] = cache[v][g]
  BY <1>2, Types
<1>11. /\ stream' \in [Workers -> [Slots -> Streams]] /\ stream'[w][a] = Idle
       /\ \A v \in Workers : v # w => stream'[v] = stream[v]
       /\ \A b \in Slots : b # a => stream'[w][b] = stream[w][b]
       /\ StreamInv' /\ WrittenInv'
  BY <1>1, <1>5, <1>6, <1>6a, <1>7, <1>8, <1>9, <1>10, StreamStep
<1>12. TmpInv'
  <2>1. TmpOk(tmp'[w][a], stream'[w][a], stranded'[w], <<w, "write">> \in failed')
    BY <1>7 DEF TmpOk
  <2>. QED BY <1>1, <1>6a, <1>7, <1>11, <2>1, TmpStep
<1>13. CacheInv'
  BY <1>1, <1>2, <1>6a, <1>7, CacheKept
<1>14. TypeInv'
  BY <1>1, <1>2, <1>6a, <1>7, <1>11 DEF TypeInv
<1>. QED BY <1>7, <1>11, <1>12, <1>13, <1>14 DEF IInv

\* The temporary file of a parser that had none, or one that could not be
\* renamed, once the content, or a part of it, is in it.
LEMMA AppendedFile ==
    ASSUME NEW t \in TmpFiles, NEW form \in Forms, NEW st, NEW short,
           TmpOk(t, Idle, st, short), NEW ap \in Appended(t, Parsed[form])
    PROVE  /\ ap.file \in TmpFiles /\ ap.failed \subseteq Calls
           /\ ~ap.file.exists => ap.file.data = <<>>
           /\ ap.file.exists /\ ~st =>
                Parsed[form].written /\ Content(ap.file.data, form, "write" \in ap.failed)
<1>. DEFINE r == Parsed[form]
            line == FirstLine(form.sent)
<1>1. /\ ~t.exists => t.data = <<>>
      /\ t.exists => st
  BY DEF TmpOk, Idle
<1>2. (r.written => r.content = line) /\ line \in Seq(Tokens)
  BY ParsedForm
<1>3. t.data \in Seq(Tokens) /\ t.exists \in BOOLEAN
  BY DEF TmpFiles
<1>4. CASE ap.file = t /\ ap.failed \subseteq Calls
  BY <1>1, <1>4
<1>5. ASSUME r.written, NEW part \in Seq(Tokens), NEW calls \in SUBSET Calls,
             part = line \/ ("write" \in calls /\ IsPrefix(part, line)),
             ap = With(t, part, calls)
      PROVE  /\ ap.file \in TmpFiles /\ ap.failed \subseteq Calls
             /\ ~ap.file.exists => ap.file.data = <<>>
             /\ ap.file.exists /\ ~st =>
                  Parsed[form].written /\ Content(ap.file.data, form, "write" \in ap.failed)
  <2>1. t.data \o part \in Seq(Tokens) /\ (t.data = <<>> => t.data \o part = part)
    BY <1>3
  <2>2. ap.file.exists /\ ap.file.data = t.data \o part /\ ap.failed = calls
    BY <1>5 DEF With
  <2>3. ap.file \in TmpFiles
    BY <1>5, <2>1 DEF TmpFiles, With
  <2>4. ~st => ap.file.data = part
    BY <1>1, <1>3, <2>1, <2>2
  <2>. HIDE DEF r
  <2>. QED BY <1>5, <2>2, <2>3, <2>4 DEF Content, r
<1>6. CASE ~r.written
  BY <1>4, <1>6 DEF Appended
<1>7. CASE r.written
  <2>. HIDE DEF r, line
  <2>1. CASE ap = With(t, r.content, {})
    <3>1. {} \in SUBSET Calls /\ r.content = line /\ line \in Seq(Tokens)
      BY <1>2, <1>7
    <3>. QED BY <1>5, <1>7, <2>1, <3>1
  <2>2. CASE \E call \in Failing \cap {"ofstream"} : ap = [file |-> t, failed |-> {call}]
    BY <1>4, <2>2 DEF Calls
  <2>3. CASE \E n \in 0 .. Len(r.content) - 1 : ap = With(t, SubSeq(r.content, 1, n), {"write"})
    <3>1. PICK n \in 0 .. Len(line) - 1 : ap = With(t, SubSeq(line, 1, n), {"write"})
      BY <1>2, <1>7, <2>3
    <3>. DEFINE part == SubSeq(line, 1, n)
                calls == {"write"}
    <3>2. calls \in SUBSET Calls /\ "write" \in calls
      BY DEF Calls
    <3>3. n \in Nat /\ n <= Len(line) /\ Len(line) \in Nat
      BY <1>2
    <3>4. part \in Seq(Tokens) /\ Len(part) = n
      BY <1>2, <3>3
    <3>5. SubSeq(part, 1, Len(part)) = SubSeq(line, 1, Len(part))
      BY <1>2, <3>3, <3>4
    <3>6. IsPrefix(part, line)
      <4>. HIDE DEF part
      <4>. QED BY <3>3, <3>4, <3>5 DEF IsPrefix
    <3>7. ap = With(t, part, calls)
      BY <3>1
    <3>. HIDE DEF part, calls
    <3>. QED BY <1>5, <1>7, <3>2, <3>4, <3>6, <3>7
  <2>4. ap \in Appended(t, r)
    BY DEF r
  <2>5. \/ ap = With(t, r.content, {})
        \/ \E call \in Failing \cap {"ofstream"} : ap = [file |-> t, failed |-> {call}]
        \/ \E n \in 0 .. Len(r.content) - 1 : ap = With(t, SubSeq(r.content, 1, n), {"write"})
    BY <1>7, <2>4 DEF Appended
  <2>. QED BY <2>1, <2>2, <2>3, <2>5
<1>. QED BY <1>6, <1>7

\* An upload, to the end of write.
LEMMA Upload ==
    ASSUME IInv, NEW w \in Workers, NEW a \in Slots, NEW form \in Forms,
           uploader(w, a, form), kind' = kind
    PROVE  IInv'
<1>1. TypeInv /\ HistoryInv /\ LateOnesAreUnfinished /\ CacheInv /\ StreamInv /\ WrittenInv
       /\ TmpInv
  BY DEF IInv
<1>2. /\ cache' = cache /\ uploads' = uploads + 1
      /\ uploads < MaxUploads /\ write(w, a, form) /\ stream[w][a] = Idle
  BY DEF uploader
<1>. DEFINE r == Parsed[form]
            f == r.filename
<1>3. PICK appended \in Appended(tmp[w][a], r) :
        \/ /\ r.completed /\ r.named
           /\ \E renamed \in rename(appended.file, f) :
                /\ Rename(w, a, appended.file, f, uploads + 1, form, renamed.moved)
                /\ stream' = [stream EXCEPT ![w][a] = Writing(w, r, form, renamed.moved)]
                /\ failed' = failed \cup ({w} \X (appended.failed \cup renamed.failed))
        \/ /\ ~(r.completed /\ r.named)
           /\ NoRename(w, a, appended.file)
           /\ stream' = [stream EXCEPT ![w][a] = Writing(w, r, form, FALSE)]
           /\ failed' = failed \cup ({w} \X appended.failed)
  BY <1>2 DEF write
<1>. DEFINE t == appended.file
<1>4. /\ r.named \in BOOLEAN /\ r.written \in BOOLEAN /\ r.completed \in BOOLEAN
      /\ f \in Names /\ (r.written => r.named)
      /\ r.named /\ ~r.completed => ~form.closed
  BY ParsedForm
<1>5. /\ t \in TmpFiles /\ (~t.exists => t.data = <<>>)
      /\ t.exists /\ ~stranded[w] =>
           r.written /\ Content(t.data, form, "write" \in appended.failed)
      /\ appended.failed \subseteq Calls
  <2>1. tmp[w][a] \in TmpFiles /\ TmpOk(tmp[w][a], Idle, stranded[w], <<w, "write">> \in failed)
    BY <1>1, <1>2, Types DEF TmpInv
  <2>. QED BY <2>1, AppendedFile
<1>6. uploads \in Nat /\ uploads' \in Nat /\ uploads <= uploads' /\ uploads' \in 0 .. MaxUploads
  BY <1>2, Types, FilesAssumption
<1>7. PICK moved \in BOOLEAN, calls \in SUBSET Calls :
        /\ failed' = failed \cup ({w} \X calls)
        /\ appended.failed \subseteq calls
        /\ stream' = [stream EXCEPT ![w][a] = Writing(w, r, form, moved)]
        /\ moved => /\ r.completed /\ r.named /\ t.exists
                    /\ f \in Files /\ kind[f] = "file"
        /\ r.completed /\ r.named => Rename(w, a, t, f, uploads + 1, form, moved)
        /\ ~(r.completed /\ r.named) => NoRename(w, a, t)
  <2>1. CASE r.completed /\ r.named
    <3>1. PICK renamed \in rename(t, f) :
            /\ Rename(w, a, t, f, uploads + 1, form, renamed.moved)
            /\ stream' = [stream EXCEPT ![w][a] = Writing(w, r, form, renamed.moved)]
            /\ failed' = failed \cup ({w} \X (appended.failed \cup renamed.failed))
      BY <1>3, <2>1
    <3>2. /\ renamed.moved \in BOOLEAN
          /\ renamed.moved => t.exists /\ f \in Files /\ kind[f] = "file"
          /\ renamed.failed \subseteq Calls
      BY Renaming
    <3>. DEFINE calls == appended.failed \cup renamed.failed
                moved == renamed.moved
    <3>3. calls \in SUBSET Calls /\ appended.failed \subseteq calls /\ moved \in BOOLEAN
      BY <1>5, <3>2
    <3>4. /\ failed' = failed \cup ({w} \X calls)
          /\ stream' = [stream EXCEPT ![w][a] = Writing(w, r, form, moved)]
          /\ Rename(w, a, t, f, uploads + 1, form, moved)
          /\ moved => t.exists /\ f \in Files /\ kind[f] = "file"
      BY <3>1, <3>2
    <3>. HIDE DEF calls, moved, r, f, t
    <3>. QED BY <2>1, <3>3, <3>4
  <2>2. CASE ~(r.completed /\ r.named)
    <3>. DEFINE calls == appended.failed
    <3>1. calls \in SUBSET Calls /\ FALSE \in BOOLEAN
      BY <1>5
    <3>2. /\ failed' = failed \cup ({w} \X calls)
          /\ stream' = [stream EXCEPT ![w][a] = Writing(w, r, form, FALSE)]
          /\ NoRename(w, a, t)
      BY <1>3, <2>2
    <3>. HIDE DEF r, f, t
    <3>. QED BY <2>2, <3>1, <3>2
  <2>. QED BY <2>1, <2>2
<1>. DEFINE s == Writing(w, r, form, moved)
<1>8. /\ failed' \subseteq Workers \X Calls /\ failed \subseteq failed'
      /\ "write" \in appended.failed => <<w, "write">> \in failed'
  <2>1. /\ failed' \subseteq Workers \X Calls /\ failed \subseteq failed'
        /\ \A call \in calls : <<w, call>> \in failed'
    BY <1>1, <1>7, FailedStep
  <2>. QED BY <1>7, <2>1
<1>9. t.exists /\ ~stranded[w] => r.written /\ Content(t.data, form, <<w, "write">> \in failed')
  BY <1>5, <1>8 DEF Content
<1>. HIDE DEF r, t
<1>10. moved => Current(f) + 1 \in Nat /\ Current(f) = Len(history[f])
  <2>1. f \in Files => Len(history[f]) \in Nat
    BY Types
  <2>. QED BY <1>7, <2>1 DEF Current
<1>. HIDE DEF f
<1>11. /\ history' \in [Files -> Seq(Uploads)] /\ Longer(history, history')
       /\ moved => Len(history'[f]) = Len(history[f]) + 1
       /\ tmp' \in [Workers -> [Slots -> TmpFiles]]
       /\ \A v \in Workers : v # w => tmp'[v] = tmp[v]
       /\ \A b \in Slots : b # a => tmp'[w][b] = tmp[w][b]
       /\ stranded' \in [Workers -> BOOLEAN]
       /\ \A v \in Workers : stranded[v] => stranded'[v]
       /\ ~tmp'[w][a].exists => tmp'[w][a].data = <<>>
       /\ tmp'[w][a].exists /\ ~stranded'[w] =>
            /\ r.named /\ ~r.completed
            /\ Content(tmp'[w][a].data, form, <<w, "write">> \in failed')
       /\ HistoryInv' /\ LateOnesAreUnfinished'
  <2>1. CASE r.completed /\ r.named
    <3>. DEFINE id == uploads + 1
    <3>1. /\ Rename(w, a, t, f, id, form, moved) /\ t \in TmpFiles
          /\ id \in Nat \ {0} /\ id <= uploads' /\ id > uploads
      BY <1>2, <1>5, <1>6, <1>7, <2>1
    <3>2. Renamable(w, t, f, id, form, moved)
      <4>1. f = Parsed[form].filename
        BY DEF f, r
      <4>. QED BY <1>5, <1>7, <1>9, <3>1, <4>1 DEF Renamable
    <3>. HIDE DEF id
    <3>3. Attempted(w, a, f, moved)
      BY <1>1, <1>6, <1>8, <3>1, <3>2, RenameStep
    <3>. QED BY <3>3 DEF Attempted
  <2>2. CASE ~(r.completed /\ r.named)
    <3>1. /\ history' = history /\ stranded' = stranded /\ tmp' = [tmp EXCEPT ![w][a] = t]
          /\ ~moved
      BY <1>7, <2>2 DEF NoRename
    <3>2. /\ tmp' \in [Workers -> [Slots -> TmpFiles]] /\ tmp'[w][a] = t
          /\ \A v \in Workers : v # w => tmp'[v] = tmp[v]
          /\ \A b \in Slots : b # a => tmp'[w][b] = tmp[w][b]
      <4>1. tmp \in [Workers -> [Slots -> TmpFiles]] /\ t \in TmpFiles
        BY <1>5, Types
      <4>. QED BY <3>1, <4>1, Place
    <3>3. /\ ~tmp'[w][a].exists => tmp'[w][a].data = <<>>
          /\ tmp'[w][a].exists /\ ~stranded'[w] =>
               /\ r.named /\ ~r.completed
               /\ Content(tmp'[w][a].data, form, <<w, "write">> \in failed')
      BY <1>4, <1>5, <1>9, <2>2, <3>1, <3>2
    <3>4. HistoryInv'
      <4>1. ASSUME NEW g \in Files, NEW i \in 1 .. Len(history[g])
            PROVE  Published(g, history[g][i], uploads', stranded, failed')
        <5>1. Published(g, history[g][i], uploads, stranded, failed)
          BY <1>1 DEF HistoryInv
        <5>2. history[g] \in Seq(Uploads)
          BY Types
        <5>3. history[g][i] \in Uploads
          BY <5>2
        <5>4. history[g][i].id \in Nat
          BY <5>3 DEF Uploads
        <5>. QED BY <1>6, <1>8, <5>1, <5>4 DEF Published, Content
      <4>. QED BY <3>1, <4>1 DEF HistoryInv
    <3>5. LateOnesAreUnfinished'
      BY <1>1, <3>1 DEF LateOnesAreUnfinished
    <3>. QED BY <3>1, <3>2, <3>3, <3>4, <3>5, Types
  <2>. QED BY <2>1, <2>2
<1>12. /\ s \in Streams /\ PendingOk(s, uploads') /\ ReplyOk(s, cache'[w]) /\ KindOk(s)
       /\ StoredOk(s, cache'[w], history', LoadFailed(w, failed'))
       /\ r.named /\ ~r.completed => s.pending /\ s.form = form
  <2>1. CASE r.completed
    <3>. DEFINE version == IF moved THEN Current(f) + 1 ELSE 0
                fresh == moved /\ ~is_mapped(cache[w][f])
    <3>1. s = [Idle EXCEPT !.state = "written", !.name = f, !.version = version,
                           !.fresh = fresh]
      BY <2>1 DEF Writing, f
    <3>2. version \in Nat /\ fresh \in BOOLEAN
      BY <1>10
    <3>3. /\ version > 0 => moved
          /\ moved => version = Len(history[f]) + 1
          /\ fresh => moved /\ ~is_mapped(cache[w][f])
      BY <1>10
    <3>. HIDE DEF s, version, fresh
    <3>4. s \in Streams
      BY <1>4, <3>1, <3>2 DEF Idle, Streams
    <3>5. /\ s.state = "written" /\ s.name = f /\ ~s.pending /\ s.reply = "none"
          /\ s.version = version /\ s.fresh = fresh
      BY <3>1 DEF Idle
    <3>6. PendingOk(s, uploads') /\ ReplyOk(s, cache'[w])
      BY <3>5 DEF PendingOk, ReplyOk
    <3>7. KindOk(s)
      BY <1>7, <3>3, <3>5 DEF KindOk
    <3>8. StoredOk(s, cache'[w], history', LoadFailed(w, failed'))
      <4>1. moved => version = Len(history'[f]) /\ version > 0 /\ f \in Files
        <5>1. moved => Len(history[f]) \in Nat /\ f \in Files
          BY <1>7, Types
        <5>. QED BY <1>11, <3>3, <5>1
      <4>. QED BY <1>2, <3>2, <3>3, <3>5, <4>1 DEF StoredOk
    <3>. QED BY <2>1, <3>4, <3>6, <3>7, <3>8
  <2>2. CASE ~r.completed
    <3>. DEFINE name == IF r.named THEN f ELSE <<>>
                id == IF r.named THEN uploads + 1 ELSE 0
                kept == IF r.named THEN form ELSE NoForm
    <3>1. s = [Idle EXCEPT !.state = "post", !.reply = "ok", !.pending = r.named,
                           !.name = name, !.id = id, !.form = kept]
      BY <2>2 DEF Writing, f
    <3>2. /\ name \in Names /\ id \in Nat /\ kept \in Forms \cup {NoForm}
          /\ r.named => name = f /\ id = uploads + 1 /\ kept = form
      BY <1>4, <1>6 DEF Names
    <3>. HIDE DEF s, name, id, kept
    <3>3. s \in Streams
      BY <1>4, <3>1, <3>2 DEF Idle, Streams
    <3>4. /\ s.state = "post" /\ s.reply = "ok" /\ s.pending = r.named
          /\ s.name = name /\ s.id = id /\ s.form = kept /\ s.version = 0 /\ ~s.fresh
      BY <3>1 DEF Idle
    <3>5. PendingOk(s, uploads')
      <4>1. r = Parsed[form] /\ f = Parsed[form].filename
        BY DEF r, f
      <4>2. r.named => id > 0 /\ id <= uploads'
        BY <1>2, <1>6, <3>2
      <4>. QED BY <1>4, <2>2, <3>2, <3>4, <4>1, <4>2 DEF PendingOk
    <3>6. ReplyOk(s, cache'[w]) /\ KindOk(s)
      BY <3>4 DEF ReplyOk, KindOk
    <3>7. StoredOk(s, cache'[w], history', LoadFailed(w, failed'))
      BY <3>4 DEF StoredOk
    <3>. QED BY <3>2, <3>3, <3>4, <3>5, <3>6, <3>7
  <2>. QED BY <1>4, <2>1, <2>2
<1>13. stream' = [stream EXCEPT ![w][a] = s]
  BY <1>7
<1>. HIDE DEF s
<1>14. \A b \in Slots : b # a => stream[w][b].state # "written"
  BY DEF uploader, Free
<1>15. /\ cache' \in [Workers -> [Files -> Entry]]
       /\ \A v \in Workers : v # w => cache'[v] = cache[v]
       /\ \A v \in Workers, g \in Files : is_mapped(cache[v][g]) => cache'[v][g] = cache[v][g]
  BY <1>2, Types
<1>16. /\ stream' \in [Workers -> [Slots -> Streams]] /\ stream'[w][a] = s
       /\ \A v \in Workers : v # w => stream'[v] = stream[v]
       /\ \A b \in Slots : b # a => stream'[w][b] = stream[w][b]
       /\ StreamInv' /\ WrittenInv'
  BY <1>1, <1>6, <1>8, <1>11, <1>12, <1>13, <1>14, <1>15, StreamStep
<1>17. TmpInv'
  <2>1. TmpOk(tmp'[w][a], stream'[w][a], stranded'[w], <<w, "write">> \in failed')
    BY <1>11, <1>12, <1>16 DEF TmpOk
  <2>. QED BY <1>1, <1>8, <1>11, <1>16, <2>1, TmpStep
<1>18. CacheInv'
  BY <1>1, <1>2, <1>8, <1>11, CacheKept
<1>19. TypeInv'
  <2>1. kind' \in [Files -> Kinds]
    BY Types
  <2>. QED BY <1>6, <1>8, <1>11, <1>15, <1>16, <2>1 DEF TypeInv
<1>. QED BY <1>11, <1>16, <1>17, <1>18, <1>19 DEF IInv

\* Every step keeps the invariant.
LEMMA NextIInv ==
    IInv /\ [Next]_vars => IInv'
<1>. SUFFICES ASSUME IInv, [Next]_vars PROVE IInv'
  OBVIOUS
<1>1. CASE Next
  <2>. kind' = kind
    BY <1>1 DEF Next
  <2>1. PICK w \in Workers, a \in Slots :
          \/ \E f \in Files \cup {<<>>} : downloader(w, a, f)
          \/ \E form \in Forms : uploader(w, a, form)
          \/ AnswerUpload(w, a)
          \/ StreamCloses(w, a)
    BY <1>1 DEF Next
  <2>2. CASE \E f \in Files \cup {<<>>} : downloader(w, a, f)
    BY <2>2, Download
  <2>3. CASE \E form \in Forms : uploader(w, a, form)
    BY <2>3, Upload
  <2>4. CASE AnswerUpload(w, a)
    BY <2>4, Answer
  <2>5. CASE StreamCloses(w, a)
    BY <2>5, Close
  <2>. QED BY <2>1, <2>2, <2>3, <2>4, <2>5
<1>2. CASE UNCHANGED vars
  BY <1>2 DEF vars, IInv, TypeInv, HistoryInv, LateOnesAreUnfinished, CacheInv, StreamInv,
              WrittenInv, TmpInv, KindOk, Unmappable
<1>. QED BY <1>1, <1>2
-----------------------------------------------------------------------------
(***************************************************************************)
(* The theorems.                                                           *)
(***************************************************************************)

\* The inductive invariant holds in every state.
THEOREM Invariance == Spec => []IInv
<1>. QED BY InitIInv, NextIInv, PTL DEF Spec

\* For any workers, files, forms and number of uploads: every value has its
\* type, and an entry of the cache with a mapping is of a version there is.
THEOREM TypeCorrect == Spec => []TypeOK
<1>1. IInv => TypeOK
  <2>. SUFFICES ASSUME IInv PROVE TypeOK
    OBVIOUS
  <2>1. ASSUME NEW f \in Files, NEW i \in DOMAIN history[f]
        PROVE  /\ DOMAIN history[f][i] = {"id", "data", "form", "worker"}
               /\ history[f][i].form \in Forms \cup {NoForm}
    <3>1. history[f] \in Seq(Uploads)
      BY Types
    <3>2. history[f][i] \in Uploads
      BY <3>1
    <3>. QED BY <3>2 DEF Uploads
  <2>2. ASSUME NEW w \in Workers, NEW a \in Slots
        PROVE  /\ tmp[w][a].exists \in BOOLEAN
               /\ DOMAIN stream[w][a] = DOMAIN Idle
               /\ stream[w][a].state \in {"idle", "get", "written", "post"}
               /\ stream[w][a].reply \in {"none", "file", "ok", "404"}
    <3>1. tmp[w][a] \in TmpFiles /\ stream[w][a] \in Streams
      BY Types
    <3>. QED BY <3>1 DEF TmpFiles, Streams, Idle
  <2>3. ASSUME NEW w \in Workers, NEW f \in Files
        PROVE  cache[w][f] \in Entry /\ cache[w][f].version <= Current(f)
    BY Types DEF IInv, CacheInv, EntryOk, Current
  <2>4. /\ uploads \in 0 .. MaxUploads /\ stranded \in [Workers -> BOOLEAN]
        /\ failed \subseteq Workers \X Calls /\ kind \in [Files -> Kinds]
    BY DEF IInv, TypeInv
  <2>. QED BY <2>1, <2>2, <2>3, <2>4 DEF TypeOK
<1>. QED BY <1>1, Invariance, PTL

\* However many workers upload the file that is being sent: the pointer that a
\* response's body is read through (file_read_callback) is that of the worker's
\* mapping, and of a real one unless the file is empty, a directory is at its
\* name, or an mmap of that worker failed.
THEOREM BodiesAreReadable == Spec => []BodyReadable
<1>1. IInv => BodyReadable
  <2>. SUFFICES ASSUME IInv, NEW w \in Workers, NEW a \in Slots,
                       stream[w][a].reply = "file"
                PROVE  LET s == stream[w][a]
                           entry == cache[w][s.name] IN
                       /\ s.version = entry.version /\ s.data = entry.data
                       /\ s.data = "MAP_FAILED" =>
                            \/ history[s.name][s.version].data = <<>>
                            \/ kind[s.name] = "directory"
                            \/ <<w, "mmap">> \in failed
    BY DEF BodyReadable
  <2>. DEFINE s == stream[w][a]
  <2>1. /\ s.name \in Files /\ s.version = cache[w][s.name].version
        /\ s.data = cache[w][s.name].data
    BY DEF IInv, StreamInv, ReplyOk
  <2>2. EntryOk(cache[w][s.name], history[s.name], Unmappable(w, s.name, failed))
    BY <2>1 DEF IInv, CacheInv
  <2>. HIDE DEF s
  <2>. QED BY <2>1, <2>2 DEF EntryOk, Unmappable, s
<1>. QED BY <1>1, Invariance, PTL

\* What is published under a name is the first line of one client's upload for
\* that name, or the beginning of it after a write of that worker failed, unless
\* a temporary file of that worker could not be renamed: for every interleaving
\* of write, the destructor's rename and reuse of addresses, and every failure of
\* the calls.
THEOREM UploadsArePublished == Spec => []PublishedIsUpload
<1>1. IInv => PublishedIsUpload
  <2>. SUFFICES ASSUME IInv, NEW f \in Files, NEW i \in DOMAIN history[f],
                       history[f][i].id > 0
                PROVE  LET h == history[f][i]
                           line == FirstLine(h.form.sent) IN
                       /\ Parsed[h.form].filename = f
                       /\ \/ h.data = line
                          \/ <<h.worker, "write">> \in failed /\ IsPrefix(h.data, line)
                          \/ stranded[h.worker]
    BY DEF PublishedIsUpload
  <2>1. history[f] \in Seq(Uploads)
    BY Types
  <2>2. i \in 1 .. Len(history[f])
    BY <2>1
  <2>3. Published(f, history[f][i], uploads, stranded, failed)
    BY <2>2 DEF IInv, HistoryInv
  <2>. QED BY <2>3 DEF Published, Content
<1>. QED BY <1>1, Invariance, PTL

\* An older upload comes back over a newer one only through a form that was not
\* closed, which the destructor renames.
THEOREM LateUploadsAreUnfinished == Spec => []LateOnesAreUnfinished
<1>1. IInv => LateOnesAreUnfinished
  BY DEF IInv
<1>. QED BY <1>1, Invariance, PTL

\* A worker without a mapping of the file serves the upload that it stored, or a
\* newer one, whatever the other workers store between write and the load.
THEOREM WritesAreRead == Spec => []ReadYourWrite
<1>1. IInv => ReadYourWrite
  BY DEF IInv, StreamInv, StoredOk, ReadYourWrite
<1>. QED BY <1>1, Invariance, PTL

\* A stored upload is answered with 404 only for an empty file, or after an open,
\* fstat or mmap of that worker failed; a directory is never what was stored.
THEOREM StoredUploadsAreAnswered == Spec => []StoredIsAnsweredOk
<1>1. IInv => StoredIsAnsweredOk
  BY DEF IInv, StreamInv, StoredOk, StoredIsAnsweredOk, Current, LoadFailed
<1>. QED BY <1>1, Invariance, PTL

\* What FilesAssumption asks of a form is so for the forms of browsers, in the
\* shape of UploadIsParsed.
THEOREM BrowserFormsAreUnderstood ==
    ASSUME NEW S, NEW type, NEW boundary, NEW parameters, NEW before, NEW file, NEW sent,
           NEW after, BrowserUpload(S, type, boundary, parameters, before, file, sent, after),
           NEW form,
           form.content_type = BrowserType(type, boundary, parameters),
           form.body = BrowserBody(before, boundary, FileOf(file, sent, after)),
           form.sent = sent,
           form.closed => \E end \in Seq(S) : after = ClosedBy(boundary, end)
    PROVE  Understood(form)
<1>. DEFINE r == Written(BrowserType(type, boundary, parameters),
                         BrowserBody(before, boundary, FileOf(file, sent, after)))
<1>1. /\ r.named /\ r.filename = file
      /\ r.written /\ r.content = FirstLine(sent)
      /\ (\E end \in Seq(S) : after = ClosedBy(boundary, end)) => r.completed
  BY UploadIsParsed
<1>2. r = Written(form.content_type, form.body)
  OBVIOUS
<1>. HIDE DEF r
<1>. QED BY <1>1, <1>2 DEF Understood
=============================================================================
