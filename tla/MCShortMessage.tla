--------------------------- MODULE MCShortMessage ---------------------------
(***************************************************************************)
(* A small instance of ShortMessage: alice sends two messages, to herself, *)
(* to a stranger, to bob, or to bob, the stranger and dave.  A printed     *)
(* message just fits or is one character too long.                         *)
(***************************************************************************)
EXTENDS ShortMessage

CONSTANTS alice, bob, carol, dave

MCNumbers == {alice, bob, dave}
MCStrangers == {carol}
MCLists == {<<alice>>, <<carol>>, <<bob>>, <<bob, carol, dave>>}
MCUuids == {1, 2}
MCFrom == [u \in Uuids |-> alice]
MCRoom == 1020
MCLengths == {1020, 1021}
=============================================================================
