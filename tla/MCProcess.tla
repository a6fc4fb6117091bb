-------------------------------- MODULE MCProcess --------------------------------
(* A worker with one internal function and four modules: a module with       *)
(* callbacks on each side of runkit7, as session may be.                      *)
EXTENDS Process, TLC

CONSTANTS f, g, b, core, session, runkit7, user, GET, LIVE

MCModule    == {core, session, runkit7, user}
MCCallbacks == {session, user}
MCLoadOrder == core :> 1 @@ session :> 2 @@ runkit7 :> 3 @@ user :> 4
MCName      == {f, g}
MCBoot      == {f}
MCBody      == {b}
MCBuiltin   == {GET}
MCListable  == {GET, LIVE}
==================================================================================
