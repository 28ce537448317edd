---------------------------- MODULE MCConnection ----------------------------
(***************************************************************************)
(* Connection for TLC, in both modes: clients that ask once or twice, open *)
(* the window, end with GOAWAY or break the protocol, and may close or     *)
(* reset at any point.  The send buffer holds one unit, so that every      *)
(* response of two frames or more blocks; the window holds one, so that a  *)
(* body of two units is held back until a WINDOW_UPDATE.  TLS clients      *)
(* offer protocol lists with h2, with names that resemble it, and none.    *)
(***************************************************************************)
EXTENDS Connection

MCScripts ==
    { <<"request", "window", "goaway">>,
      <<"request", "goaway">>,
      <<"request", "window", "request">>,
      <<"request", "violation", "request">>,
      <<"request", "garbage">> }

Http11 == <<104, 116, 116, 112, 47, 49, 46, 49>>
H2Draft == <<104, 50, 45, 49, 54>>
\* A name that contains the list entry of h2.
H2Within == <<2>> \o H2

\* h2 last, h2 only inside other names, and no ALPN at all.
MCOffers == { <<Http11, H2Draft, H2>>, <<H2Draft, H2Within, Http11>>, <<>> }
=============================================================================
