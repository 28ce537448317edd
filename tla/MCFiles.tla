------------------------------ MODULE MCFiles -------------------------------
(***************************************************************************)
(* Files for TLC, with the forms that clients send.                        *)
(***************************************************************************)
EXTENDS Files, TLC

Boundary == <<"boundary=", "bnd">>
QuotedBoundary == <<"boundary=", "quote", "bnd", "quote">>
BoundaryAndMore == <<"boundary=", "bnd", "semicolon", "charset">>

Field == <<"--", "bnd", "crlf", "name=", "crlf", "crlf", "value", "crlf">>
FilePart(file, content) ==
    <<"--", "bnd", "crlf", "filename=", "quote">> \o file
    \o <<"quote", "crlf", "crlf">> \o content \o <<"crlf">>
Closing == <<"--", "bnd", "--">>

FormOf(content_type, before, file, content, closed) ==
    [content_type |-> content_type,
     body |-> before \o FilePart(file, content) \o IF closed THEN Closing ELSE <<>>,
     sent |-> content, closed |-> closed]

f == <<"f">>

MCFiles == {f}

\* A file of two lines, sent after a field and with a parameter after the
\* boundary.
TwoLines == {FormOf(BoundaryAndMore, Field, f, <<"x", "y", "crlf", "z">>, TRUE)}

\* That, an empty file, one without a name (none was chosen), a form that is cut
\* off, one with its boundary in quotes, and a field without a file.
MCForms ==
    TwoLines \cup
    {FormOf(Boundary, <<>>, f, <<>>, TRUE),
     FormOf(Boundary, <<>>, <<>>, <<"v">>, TRUE),
     FormOf(Boundary, <<>>, f, <<"w">>, FALSE),
     FormOf(QuotedBoundary, <<>>, f, <<"q">>, TRUE),
     [content_type |-> Boundary, body |-> Field \o Closing, sent |-> <<>>,
      closed |-> TRUE]}

Symmetric == Permutations(Workers) \cup Permutations(Slots)
=============================================================================
