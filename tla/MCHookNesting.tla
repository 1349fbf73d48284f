--------------------------- MODULE MCHookNesting ---------------------------
(***************************************************************************)
(* HookNesting for TLC: a program with a CMA (pool, with a helper of its   *)
(* own) and a plain function, a library with a CMA and a function dlsym    *)
(* does not find, and a plugin with a CMA.  Functions lie side by side.    *)
(***************************************************************************)
EXTENDS HookNesting, TLC

CONSTANTS reference, main, app, pool, helper, libAlloc, libLocal, plugAlloc

Functions ==
  {reference, main, app, pool, helper, libAlloc, libLocal, plugAlloc}
OfProgram == {reference, main, app, pool, helper}

FromOf ==
  (reference :> 1) @@ (main :> 3) @@ (app :> 6) @@ (pool :> 9)
    @@ (helper :> 15) @@ (libAlloc :> 1) @@ (libLocal :> 5) @@ (plugAlloc :> 1)
ToOf ==
  (reference :> 2) @@ (main :> 5) @@ (app :> 8) @@ (pool :> 14)
    @@ (helper :> 18) @@ (libAlloc :> 4) @@ (libLocal :> 8) @@ (plugAlloc :> 4)
LoadedAtOf ==
  [f \in Functions |-> IF f \in OfProgram THEN 100
                       ELSE IF f = plugAlloc THEN 300 ELSE 200]
SitesOf == [f \in Functions |-> IF f = pool THEN {1, 4} ELSE {1}]

OneLine(f, shared, only) == [fn |-> f, shared |-> shared, only |-> only]

(* A complete list; one that lacks the program's CMA; one that is too long. *)
CompleteList == <<
  OneLine(reference, FALSE, FALSE), OneLine(pool, FALSE, FALSE),
  OneLine(helper, FALSE, TRUE),
  OneLine(libAlloc, TRUE, FALSE), OneLine(libLocal, TRUE, FALSE) >>
ShortList == << OneLine(reference, FALSE, FALSE), OneLine(libAlloc, TRUE, FALSE) >>
LongList == CompleteList \o << OneLine(libAlloc, TRUE, FALSE) >>
ListsOf == {CompleteList, ShortList, LongList}
=============================================================================
