----------------------------- MODULE MCHistory -----------------------------
(***************************************************************************)
(* Two sources and two URLs, one of which both list.  Either source may    *)
(* drop out of the catalogs, and with it a URL.                            *)
(***************************************************************************)
EXTENDS History

CONSTANTS s, t, u, v

MCSources == {s, t}
MCUrls == {u, v}

Catalog(ofS, ofT) == [x \in MCSources |-> IF x = s THEN ofS ELSE ofT]

MCCatalogs == {Catalog({u, v}, {v}), Catalog({}, {v}), Catalog({u}, {})}
OneFeed == {Catalog({u}, {})}
=============================================================================
