----------------------- MODULE MC_RequestObjectStore -----------------------
(* Two concurrent callers, two documents' worth of ObjectIDs, two calls
   each: enough for a Find racing a Delete, a Create timing out before its
   insert is applied, and a Find of an id that holds no document. *)
EXTENDS RequestObjectStore, TLC

CONSTANTS c1, c2, x1, x2

MCClients == {c1, c2}

MCContents == {x1, x2}
=============================================================================
