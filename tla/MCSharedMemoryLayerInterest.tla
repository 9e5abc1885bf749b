----------------------- MODULE MCSharedMemoryLayerInterest -----------------------
(* Small instances of SharedMemoryLayerInterest for TLC. *)
EXTENDS SharedMemoryLayerInterest, TLC

CONSTANTS server, c1, c2, atServer, atClient

MCPath == {<<"a">>, <<"a", "b">>, <<"c">>}
MCProcessOf == (atServer :> server) @@ (atClient :> c1)
MCPathOf == (atServer :> <<"a">>) @@ (atClient :> <<"a", "b">>)

\* One process for each path; nobody watches /c, where c1 is interested.
OneEach == {<<c2, <<"a", "b">>>>, <<server, <<"a">>>>, <<c1, <<"c">>>>}
TheClient == {<<c1, <<"a">>>>}
==================================================================================
