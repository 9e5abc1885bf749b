------------------------- MODULE MCSharedMemoryLayer -------------------------
(* Small instances of SharedMemoryLayer for TLC. *)
EXTENDS SharedMemoryLayer

CONSTANTS server, c1, c2

MCPath == {<<"a">>, <<"a", "b">>, <<"c">>}
MCBranch == {<<"a">>, <<"a", "b">>}
MCOwner == {OwnerOf(a) : a \in {server, c1, c2}}
MCOwner1 == {OwnerOf(a) : a \in {server, c1}}

\* c1 publishes below /a; nobody publishes at a node that has nodes below it.
OnePublisher == {<<c1, <<"a", "b">>>>}
OneWithdraws == {<<c1, <<"a">>>>}
MCSiblings == {<<"a">>, <<"a", "b">>, <<"a", "c">>}
PublishesBoth == {<<c1, <<"a", "b">>>>, <<c1, <<"a", "c">>>>}
ServerPublishes == {<<server, <<"a", "b">>>>}
TwoPublish == {<<c1, <<"a", "b">>>>, <<server, <<"c">>>>}
ServerWithdraws == {<<server, <<"c">>>>}

TwoSubscriptions == {<<c1, <<"a">>>>, <<c1, <<"a", "b">>>>}
FirstOfTwo == {<<c1, <<"a">>>>}
OneSubscriber == {<<c2, <<"a", "b">>>>}
==============================================================================
