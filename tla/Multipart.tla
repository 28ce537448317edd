------------------------------ MODULE Multipart ------------------------------
(***************************************************************************)
(* MultipartFormParser (multipart_parser.cc) as operators on sequences of  *)
(* tokens.  A token stands for a string that is searched for ("crlf",      *)
(* "filename=", quote, dashes) or for a stretch of other characters; a     *)
(* boundary, a file name and a file's content are sequences of them.       *)
(*                                                                         *)
(* write is called once in a parser's life, when the request is complete   *)
(* (Session!AnsweredOnce), so that its map of temporary files is empty     *)
(* and its counter 0 before the call.                                      *)
(***************************************************************************)
EXTENDS Integers, Sequences

npos == 0

\* std::string_view::find, with positions from 1.
find(buffer, pattern, pos) ==
    LET hits == {i \in pos .. Len(buffer) - Len(pattern) + 1 :
                   SubSeq(buffer, i, i + Len(pattern) - 1) = pattern} IN
    IF pos = npos \/ hits = {} THEN npos
    ELSE CHOOSE i \in hits : \A j \in hits : i <= j

substr(buffer, first, last) == SubSeq(buffer, first, last - 1)

\* The value of the boundary parameter, to the end of the line, to the next
\* parameter, or to the end; <<>> when there is none.  Quotes are kept.
extract_boundary(content_type) ==
    LET start == find(content_type, <<"boundary=">>, 1)
        crlf == find(content_type, <<"crlf">>, start + 1)
        semicolon == find(content_type, <<"semicolon">>, start + 1) IN
    IF start = npos THEN <<>>
    ELSE IF crlf # npos THEN substr(content_type, start + 1, crlf)
    ELSE IF semicolon # npos THEN substr(content_type, start + 1, semicolon)
    ELSE substr(content_type, start + 1, Len(content_type) + 1)

\* What the searches return: the view [first, last), when found, and the
\* position that the next one starts from.
Found(first, last, pos) == [found |-> TRUE, first |-> first, last |-> last, pos |-> pos]
NotFound(pos) == [found |-> FALSE, first |-> npos, last |-> npos, pos |-> pos]

find_filename(boundary, buffer) ==
    LET pos == find(buffer, boundary \o <<"crlf">>, 1)
        start == find(buffer, <<"filename=", "quote">>, pos)
        end == find(buffer, <<"quote">>, start + 2) IN
    IF pos # npos /\ start # npos /\ end # npos THEN Found(start + 2, end, end)
    ELSE NotFound(pos)

\* The content ends at the first line break.
find_file_content(buffer, pos) ==
    LET start == find(buffer, <<"crlf", "crlf">>, pos)
        end == find(buffer, <<"crlf">>, start + 2) IN
    IF start # npos /\ end # npos THEN Found(start + 2, end, end)
    ELSE NotFound(pos)

find_end_boundary(boundary, buffer, pos) ==
    find(buffer, boundary \o <<"--">>, pos) # npos

\* The outcome of write: the file's name, when there is one (named), the
\* content written to its temporary file, when there is one (written), and
\* whether the form is complete.
Written(content_type, buffer) ==
    LET boundary == extract_boundary(content_type)
        filename == find_filename(boundary, buffer)
        content == find_file_content(buffer, filename.pos) IN
    IF boundary = <<>>
    THEN [named |-> FALSE, filename |-> <<>>, written |-> FALSE, content |-> <<>>,
          completed |-> FALSE]
    ELSE [named |-> filename.found,
          filename |-> substr(buffer, filename.first, filename.last),
          written |-> filename.found /\ content.found,
          content |-> substr(buffer, content.first, content.last),
          completed |-> find_end_boundary(boundary, buffer, content.pos)]
-----------------------------------------------------------------------------
\* The part of a file that the parser takes for its content.
FirstLine(data) ==
    LET crlf == find(data, <<"crlf">>, 1) IN
    IF crlf = npos THEN data ELSE substr(data, 1, crlf)
=============================================================================
