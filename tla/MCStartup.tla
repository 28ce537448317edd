------------------------------ MODULE MCStartup ------------------------------
(***************************************************************************)
(* Startup for TLC.  The programs are main's two routes under command      *)
(* lines with every option, numbers that are zero, negative or too large   *)
(* for their fields, unknown options and unusable files; and, under one    *)
(* that returns once the routes are registered, every sequence of at most  *)
(* MaxRoutes routes over paths that share prefixes.                        *)
(***************************************************************************)
EXTENDS Startup

CONSTANT MaxRoutes

Number(opt, n) == [opt |-> opt, number |-> n, path |-> ""]
Path(opt, p) == [opt |-> opt, number |-> 0, path |-> p]
Flag(opt) == Number(opt, 0)

MainRoutes ==
    << [method |-> "GET", uri |-> <<"", "files", "{file_name}">>, handler |-> "downloader"],
       [method |-> "POST", uri |-> <<"", "files">>, handler |-> "uploader"] >>

ThreadArgs == {<<>>} \cup {<<Number("thread", n)>> : n \in {-1, 0, 2, 3, 4, 6}}
PortArgs == {<<>>} \cup {<<Number("port", n)>> : n \in {0, 5, 9}}
OtherArgs ==
    { <<>>, <<Flag("h2c")>>, <<Flag("help")>>, <<Number("threads", 2)>>,
      <<Path("key", "absent")>>, <<Path("cert", "text")>>,
      <<Number("thread", 1), Number("port", 1)>> }

CommandLines == {a \o b \o c : a \in ThreadArgs, b \in PortArgs, c \in OtherArgs}

RouteUris ==
    { <<"">>, <<"", "files">>, <<"", "files", "{name}">>, <<"", "files", "", "new">>,
      <<"", "{any}", "new">>, <<"", "files", "{name}", "raw">>, <<"", "{any}", "{}">> }

RouteSequences ==
    UNION {[1 .. n -> Methods \X RouteUris] : n \in 1 .. MaxRoutes}

Registrations(rs) ==
    [i \in DOMAIN rs |-> [method |-> rs[i][1], uri |-> rs[i][2],
                          handler |-> <<"first", "second", "third">>[i]]]

MCPrograms ==
    {[args |-> a, routes |-> MainRoutes] : a \in CommandLines}
    \cup {[args |-> <<Path("key", "absent")>>, routes |-> Registrations(rs)] :
            rs \in RouteSequences}

\* The README's example of a cleartext server, under both documented names.
DocumentedPrograms ==
    {[args |-> <<Number("port", 5), Flag("h2c"), Number(name, 2)>>, routes |-> MainRoutes] :
        name \in DocumentedOnly}

MCUris ==
    { <<"">>, <<"", "files">>, <<"", "files", "", "a">>, <<"", "files", "new", "">>,
      <<"", "b", "new">>, <<"", "files", "new", "raw">>, <<"", "b", "c">>,
      <<"", "files", "{name}">>, <<"", "files", "a", "raw", "b">> }
=============================================================================
