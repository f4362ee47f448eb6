---------------------------- MODULE MCAcquisition ----------------------------
(***************************************************************************)
(* Two calls.  The SAT answers a state and a code of each class, with  *)
(* any of six lists of packages: an ordinary package with one that        *)
(* repeats a member and ends with an unsafe one, or with one that          *)
(* contradicts it; one that is too large and then one that is no zip.      *)
(***************************************************************************)
EXTENDS Acquisition, TLC

Codes == {None, "5000", "5003", "5004", "404", "300", "5005", "9999"}

MCReplies ==
    [ estado : {"PROCESSING", "COMPLETED", "ERROR", "0"}, event : Codes, transport : {None, "5000", "300"},
      ids : {<<>>, <<"p1", "p2">>, <<"p1", "p3">>, <<"p4">>, <<"p5">>, <<"p6">>} ]

Xml(dest, body) == [kind |-> "xml", size |-> 1, dest |-> dest, body |-> body]
Aside(kind) == [Xml("", "") EXCEPT !.kind = kind]
Package(members) == [broken |-> FALSE, members |-> members]

MCContentOf ==
    "p1" :> Package(<<Xml("d1", "a"), Aside("other"), Xml("d2", "a")>>)
    @@ "p2" :> Package(<<Xml("d1", "a"), Xml("d3", "a"), Aside("unsafe")>>)
    @@ "p3" :> Package(<<Xml("d2", "b")>>)
    @@ "p4" :> Package(<<Xml("d1", "a"), Xml("d2", "a"), Xml("d3", "a")>>)
    @@ "p5" :> [broken |-> TRUE, members |-> <<>>]
    @@ "p6" :> Package(<<Aside("other"), Aside("other"), Aside("other"), Aside("other")>>)

MCContents == DOMAIN MCContentOf
=============================================================================
