-------------------------------- MODULE Files --------------------------------
(***************************************************************************)
(* Downloads and uploads (handler.cc) of several workers over one file     *)
(* system: each worker has its own cache of mapped files (file_cache.cc),  *)
(* which is never emptied, and its own streams, each with the parser that  *)
(* writes an upload to a temporary file and renames it (multipart_parser). *)
(* A worker runs one handler at a time; the file system is what workers    *)
(* share, so a step does one thing that another worker could observe.      *)
(* Calls of the system may fail, whatever the reason.                      *)
(*                                                                         *)
(* The name of a temporary file is made of the parser's address, the       *)
(* thread and a counter that is 0 at the parser's only write: it returns   *)
(* with the address.                                                       *)
(***************************************************************************)
EXTENDS Multipart, SequencesExt

CONSTANTS Workers,     \* the worker threads
          Slots,       \* addresses of StreamData, with its parser, per worker
          Files,       \* names that can be opened, once something is there
          Forms,       \* the forms that clients upload
          Failing,     \* the calls that may fail
          MaxFaults,   \* bound on the kinds of failure, of all workers
          MaxStreams,  \* bound on the streams at a time, of all workers
          MaxUploads   \* bound on uploads

\* The calls: open or fstat, and mmap, of map; the constructor and the write of
\* the ofstream that an upload is appended through; rename.
Calls == {"open", "mmap", "ofstream", "write", "rename"}

\* A form: the request, what its client sent as the file's content, and whether
\* the closing boundary was sent.
NoForm == [content_type |-> <<>>, body |-> <<>>, sent |-> <<>>, closed |-> TRUE]

\* What write makes of a form is what the client means by it: the first line of
\* the content, and the end of a closed form.
Understood(form) ==
    LET r == Written(form.content_type, form.body) IN
    /\ r.written => r.content = FirstLine(form.sent)
    /\ r.named /\ form.closed => r.completed

\* What write makes of the forms.
Parsed == [form \in Forms |-> Written(form.content_type, form.body)]

ASSUME FilesAssumption ==
    /\ \A form \in Forms :
         /\ DOMAIN form = DOMAIN NoForm
         /\ form.sent \in Seq({form.sent[i] : i \in DOMAIN form.sent})
         /\ Understood(form)
    /\ <<>> \notin Files
    /\ Failing \subseteq Calls
    /\ {MaxFaults, MaxStreams, MaxUploads} \subseteq Nat

\* What is at a name: a file, or nothing yet, that a rename replaces; a file that
\* none can replace; a directory.
Kinds == {"file", "fixed", "directory"}

VARIABLES
    kind,     \* kind[f]: what there is at f
    history,  \* history[f]: what has been at f so far; the last is f now, an
              \* earlier one lives on in the mappings of it
    tmp,      \* tmp[w][a]: the temporary file of the parser at a
    cache,    \* cache[w][f]: the worker's MappedFile for f
    stream,   \* stream[w][a]: the stream whose StreamData is at a
    uploads,  \* number of uploads
    \* what went wrong, for the properties
    stranded, \* stranded[w]: a temporary file of w could not be renamed
    failed    \* the calls that have failed, with their workers

vars == <<kind, history, tmp, cache, stream, uploads, stranded, failed>>

NoFile == [exists |-> FALSE, data |-> <<>>]
NoEntry == [data |-> "none", version |-> 0]
Idle == [state |-> "idle", name |-> <<>>, data |-> "none", version |-> 0, id |-> 0,
         form |-> NoForm, fresh |-> FALSE, pending |-> FALSE, reply |-> "none"]

\* What is there before the server starts; the st_size of a directory is not
\* zero either.
Old == [id |-> 0, data |-> <<"old">>, form |-> NoForm, worker |-> "none"]

Init ==
    /\ kind \in [Files -> Kinds]
    /\ history \in [Files -> {<<>>, <<Old>>}]
    /\ \A f \in Files : history[f] = <<>> => kind[f] = "file"
    /\ tmp = [w \in Workers |-> [a \in Slots |-> NoFile]]
    /\ cache = [w \in Workers |-> [f \in Files |-> NoEntry]]
    /\ stream = [w \in Workers |-> [a \in Slots |-> Idle]]
    /\ uploads = 0
    /\ stranded = [w \in Workers |-> FALSE]
    /\ failed = {}
-----------------------------------------------------------------------------
(***************************************************************************)
(* The file cache.                                                         *)
(***************************************************************************)
Current(f) == Len(history[f])

\* What map leaves in the object, and the call that has failed.
Mapping(data, version, calls) ==
    [entry |-> [data |-> data, version |-> version], failed |-> calls]

\* Mutant of map: the result of open is not looked at.
map_unopened(f) == {Mapping("mapped", Current(f), {})}

\* MappedFile::map: open, fstat and mmap, of one inode.  What is not there
\* cannot be opened; a directory or an empty file cannot be mapped, and there
\* any of the calls may fail.
map(f) ==
    IF Current(f) = 0 THEN {Mapping("nullptr", 0, {})}
    ELSE {IF kind[f] = "directory" \/ history[f][Current(f)].data = <<>>
          THEN Mapping("MAP_FAILED", Current(f), {})
          ELSE Mapping("mapped", Current(f), {})}
         \cup {Mapping("nullptr", 0, {call}) : call \in Failing \cap {"open"}}
         \cup {Mapping("MAP_FAILED", Current(f), {call}) : call \in Failing \cap {"mmap"}}

\* MAP_FAILED is not nullptr.
is_mapped(entry) == entry.data \in {"mapped", "MAP_FAILED"}

\* What load_file_from_filecache comes to: the entry afterwards, whether a
\* file is returned, and the call that has failed.
Finding(m, file) == [entry |-> m.entry, file |-> file, failed |-> m.failed]

NotThere == Finding(Mapping("none", 0, {}), FALSE)

\* Mutant of load_file_from_filecache: a file that was replaced is mapped
\* again, and its old mapping removed.
load_refreshed(w, f) ==
    IF f \notin Files THEN {NotThere}
    ELSE {Finding(m, is_mapped(m.entry)) : m \in map(f)}

\* Mutant of load_file_from_filecache: an entry without a mapping is left so.
load_once(w, f) ==
    LET entry == cache[w][f] IN
    IF f \notin Files THEN {NotThere}
    ELSE IF entry.data = "none" THEN {Finding(m, is_mapped(m.entry)) : m \in map(f)}
         ELSE {Finding(Mapping(entry.data, entry.version, {}), is_mapped(entry))}

\* find_file_from_filecache, then insert_file_into_filecache or map.  A name
\* outside Files cannot be opened: whether it has an entry shows nowhere.
load_file_from_filecache(w, f) ==
    LET entry == cache[w][f] IN
    IF f \notin Files THEN {NotThere}
    ELSE IF is_mapped(entry)
         THEN {Finding(Mapping(entry.data, entry.version, {}), TRUE)}
         ELSE {Finding(m, \/ m.entry.data = "mapped"
                          \/ m.entry.data = "MAP_FAILED" /\ entry.data = "none") :
                 m \in map(f)}

\* The cache after load, and what has failed.
Loaded(w, f, found) ==
    /\ cache' = IF f \in Files THEN [cache EXCEPT ![w][f] = found.entry] ELSE cache
    /\ failed' = failed \cup ({w} \X found.failed)
-----------------------------------------------------------------------------
(***************************************************************************)
(* The handlers.                                                           *)
(***************************************************************************)

\* Between write and load_file_from_filecache the worker does nothing else.
Free(w) == \A a \in Slots : stream[w][a].state # "written"

\* An empty path, like one that no file is found at, is answered with 404.
downloader(w, a, f) ==
    /\ Free(w)
    /\ stream[w][a] = Idle
    /\ \E found \in load_file_from_filecache(w, f) :
         /\ Loaded(w, f, found)
         /\ stream' = [stream EXCEPT ![w][a] =
              IF found.file
              THEN [Idle EXCEPT !.state = "get", !.name = f, !.data = found.entry.data,
                                !.version = found.entry.version, !.reply = "file"]
              ELSE [Idle EXCEPT !.state = "get", !.reply = "404"]]
    /\ UNCHANGED <<history, tmp, uploads, stranded>>

\* rename(temporary file t, f) fails when t does not exist or f cannot be made,
\* and may fail otherwise.
rename(t, f) ==
    IF t.exists /\ f \in Files /\ kind[f] = "file"
    THEN {[moved |-> TRUE, failed |-> {}]}
         \cup {[moved |-> FALSE, failed |-> {call}] : call \in Failing \cap {"rename"}}
    ELSE {[moved |-> FALSE, failed |-> {}]}

\* The file system once w has tried to rename t, of its parser at a, to f.
Rename(w, a, t, f, id, form, moved) ==
    /\ tmp' = [tmp EXCEPT ![w][a] = IF moved THEN NoFile ELSE t]
    /\ history' = IF moved
                  THEN [history EXCEPT ![f] = Append(@,
                          [id |-> id, data |-> t.data, form |-> form, worker |-> w])]
                  ELSE history
    /\ stranded' = [stranded EXCEPT ![w] = @ \/ (t.exists /\ ~moved)]

NoRename(w, a, t) ==
    /\ tmp' = [tmp EXCEPT ![w][a] = t]
    /\ UNCHANGED <<history, stranded>>

\* The temporary file with content appended to it, and the call that failed.
With(t, content, calls) ==
    [file |-> [exists |-> TRUE, data |-> t.data \o content], failed |-> calls]

\* The temporary file once the content is to be in it.  A file that does not
\* open is left alone; a write that fails, which nobody looks at, has written a
\* part.
Appended(t, r) ==
    IF ~r.written THEN {[file |-> t, failed |-> {}]}
    ELSE {With(t, r.content, {})}
         \cup {[file |-> t, failed |-> {call}] : call \in Failing \cap {"ofstream"}}
         \cup (IF "write" \notin Failing THEN {}
               ELSE {With(t, SubSeq(r.content, 1, n), {"write"}) :
                       n \in 0 .. Len(r.content) - 1})

\* Mutant of write: the rename is left to the destructor.
write_deferred(w, a, form) ==
    LET r == Parsed[form] IN
    \E appended \in Appended(tmp[w][a], r) :
        /\ NoRename(w, a, appended.file)
        /\ failed' = failed \cup ({w} \X appended.failed)
        /\ stream' = [stream EXCEPT ![w][a] =
             [Idle EXCEPT !.state = IF r.completed THEN "written" ELSE "post",
                          !.name = r.filename, !.id = uploads + 1, !.form = form,
                          !.pending = r.named, !.reply = "ok"]]

\* Mutant of write: the temporary file is renamed before the content is
\* written to it.
write_after_rename(w, a, form) ==
    LET r == Parsed[form]
        t == [tmp[w][a] EXCEPT !.exists = TRUE] IN
    \E renamed \in rename(t, r.filename) :
        /\ Rename(w, a, t, r.filename, uploads + 1, form, renamed.moved)
        /\ failed' = failed \cup ({w} \X renamed.failed)
        /\ stream' = [stream EXCEPT ![w][a] =
             [Idle EXCEPT !.state = IF r.completed THEN "written" ELSE "post",
                          !.name = r.filename, !.id = uploads + 1, !.form = form,
                          !.reply = "ok"]]

\* The stream after write: a complete form is answered for next; what is to be
\* renamed for one that is not stays in file_map.
Writing(w, r, form, stored) ==
    IF r.completed
    THEN [Idle EXCEPT
            !.state = "written", !.name = r.filename,
            !.version = IF stored THEN Current(r.filename) + 1 ELSE 0,
            !.fresh = stored /\ ~is_mapped(cache[w][r.filename])]
    ELSE [Idle EXCEPT
            !.state = "post", !.reply = "ok", !.pending = r.named,
            !.name = IF r.named THEN r.filename ELSE <<>>,
            !.id = IF r.named THEN uploads + 1 ELSE 0,
            !.form = IF r.named THEN form ELSE NoForm]

\* MultipartFormParser::write.  A complete form's file is renamed at once.
write(w, a, form) ==
    LET r == Parsed[form] IN
    \E appended \in Appended(tmp[w][a], r) :
        \/ /\ r.completed /\ r.named
           /\ \E renamed \in rename(appended.file, r.filename) :
                /\ Rename(w, a, appended.file, r.filename, uploads + 1, form,
                          renamed.moved)
                /\ stream' = [stream EXCEPT ![w][a] = Writing(w, r, form, renamed.moved)]
                /\ failed' = failed \cup ({w} \X (appended.failed \cup renamed.failed))
        \/ /\ ~(r.completed /\ r.named)
           /\ NoRename(w, a, appended.file)
           /\ stream' = [stream EXCEPT ![w][a] = Writing(w, r, form, FALSE)]
           /\ failed' = failed \cup ({w} \X appended.failed)

\* Mutant of uploader: the file is loaded before it is written.
load_first(w, a, form) ==
    /\ Free(w)
    /\ stream[w][a] = Idle
    /\ uploads < MaxUploads
    /\ uploads' = uploads + 1
    /\ LET f == Parsed[form].filename IN
       \E found \in load_file_from_filecache(w, f) :
         /\ found.failed = {}
         /\ cache' = IF f \in Files THEN [cache EXCEPT ![w][f] = found.entry] ELSE cache
    /\ write(w, a, form)

\* uploader, to the end of write; an incomplete form is answered then.
uploader(w, a, form) ==
    /\ Free(w)
    /\ stream[w][a] = Idle
    /\ uploads < MaxUploads
    /\ uploads' = uploads + 1
    /\ write(w, a, form)
    /\ UNCHANGED cache

\* uploader, after write: a complete form's file is loaded and answered for.
AnswerUpload(w, a) ==
    /\ stream[w][a].state = "written"
    /\ \E found \in load_file_from_filecache(w, stream[w][a].name) :
         /\ Loaded(w, stream[w][a].name, found)
         /\ stream' = [stream EXCEPT ![w][a] =
              [@ EXCEPT !.state = "post", !.reply = IF found.file THEN "ok" ELSE "404"]]
    /\ UNCHANGED <<history, tmp, uploads, stranded>>

\* The stream closes and ~MultipartFormParser renames what is in file_map.
StreamCloses(w, a) ==
    LET s == stream[w][a] IN
    /\ Free(w)
    /\ s.state \in {"get", "post"}
    /\ \/ /\ s.pending
          /\ \E renamed \in rename(tmp[w][a], s.name) :
               /\ Rename(w, a, tmp[w][a], s.name, s.id, s.form, renamed.moved)
               /\ failed' = failed \cup ({w} \X renamed.failed)
       \/ ~s.pending /\ UNCHANGED <<tmp, history, stranded, failed>>
    /\ stream' = [stream EXCEPT ![w][a] = Idle]
    /\ UNCHANGED <<cache, uploads>>
-----------------------------------------------------------------------------
Next ==
    /\ \E w \in Workers, a \in Slots :
         \/ \E f \in Files \cup {<<>>} : downloader(w, a, f)
         \/ \E form \in Forms : uploader(w, a, form)
         \/ AnswerUpload(w, a)
         \/ StreamCloses(w, a)
    /\ UNCHANGED kind
    /\ Cardinality(failed') <= MaxFaults
    /\ Cardinality({at \in Workers \X Slots : stream'[at[1]][at[2]] # Idle}) <= MaxStreams

Spec == Init /\ [][Next]_vars
-----------------------------------------------------------------------------
Entry == [data : {"none", "nullptr"}, version : {0}]
         \cup [data : {"mapped", "MAP_FAILED"}, version : Nat \ {0}]

\* The type of the state: an entry of the cache with a mapping is of a version
\* that there is.
TypeOK ==
    /\ kind \in [Files -> Kinds]
    /\ \A f \in Files : \A i \in DOMAIN history[f] :
         /\ DOMAIN history[f][i] = {"id", "data", "form", "worker"}
         /\ history[f][i].form \in Forms \cup {NoForm}
    /\ \A w \in Workers, a \in Slots :
         /\ tmp[w][a].exists \in BOOLEAN
         /\ DOMAIN stream[w][a] = DOMAIN Idle
         /\ stream[w][a].state \in {"idle", "get", "written", "post"}
         /\ stream[w][a].reply \in {"none", "file", "ok", "404"}
    /\ \A w \in Workers, f \in Files :
         cache[w][f] \in Entry /\ cache[w][f].version <= Current(f)
    /\ uploads \in 0 .. MaxUploads
    /\ stranded \in [Workers -> BOOLEAN]
    /\ failed \subseteq Workers \X Calls

\* The pointer that a response's body is read through stays the address of
\* the worker's mapping as long as the stream lives, whatever is uploaded in
\* the meantime.  It is MAP_FAILED, which is_mapped takes for a mapping, only
\* for a file that was empty, for a directory, and after an mmap of the same
\* worker that has failed.
BodyReadable ==
    \A w \in Workers, a \in Slots :
        LET s == stream[w][a]
            entry == cache[w][s.name] IN
        s.reply = "file" =>
            /\ s.version = entry.version /\ s.data = entry.data
            /\ s.data = "MAP_FAILED" =>
                 \/ history[s.name][s.version].data = <<>>
                 \/ kind[s.name] = "directory"
                 \/ <<w, "mmap">> \in failed

\* What is published under a name comes from one upload, the one whose form has
\* that name, and is the first line of what its client sent: less than that
\* only after a write of the same worker has failed, and then its beginning.
\* Contents of two uploads come together only where an earlier temporary file of
\* the same worker could not be renamed and its parser's address was used again.
PublishedIsUpload ==
    \A f \in Files : \A i \in DOMAIN history[f] :
        LET h == history[f][i]
            line == FirstLine(h.form.sent) IN
        h.id > 0 =>
            /\ Parsed[h.form].filename = f
            /\ \/ h.data = line
               \/ <<h.worker, "write">> \in failed /\ IsPrefix(h.data, line)
               \/ stranded[h.worker]

\* A file that an upload replaced comes back over a newer one only through a
\* form without closing boundary, whose file is renamed when its stream
\* closes.
LateOnesAreUnfinished ==
    \A f \in Files : \A i, j \in DOMAIN history[f] :
        i < j /\ history[f][i].id > history[f][j].id => ~history[f][j].form.closed

\* A worker that had no mapping of a file when it stored an upload of it
\* serves that upload or a newer one: what another worker stores in between
\* does not get lost.  (A worker that had one goes on serving what it mapped.)
ReadYourWrite ==
    \A w \in Workers, a \in Slots :
        LET s == stream[w][a] IN
        s.state = "post" /\ s.fresh /\ s.reply = "ok" =>
            cache[w][s.name].version >= s.version

\* A complete form whose file was stored is answered with 404 only when an
\* empty file, stored by it or since, met an entry without mapping, or when the
\* worker's open, fstat or mmap has failed.
StoredIsAnsweredOk ==
    \A w \in Workers, a \in Slots :
        LET s == stream[w][a] IN
        s.state = "post" /\ s.version > 0 /\ s.reply = "404" =>
            \/ \E i \in s.version .. Current(s.name) : history[s.name][i].data = <<>>
            \/ {<<w, "open">>, <<w, "mmap">>} \cap failed # {}

\* What a file's upload stores is what the client sent, as the form says where
\* it ends (find_file_content: "end boundary").
UploadIsStored ==
    \A f \in Files : \A i \in DOMAIN history[f] :
        LET h == history[f][i] IN
        h.id > 0 /\ ~stranded[h.worker] /\ <<h.worker, "write">> \notin failed =>
            h.data = h.form.sent
=============================================================================
