-------------------------- MODULE MCCommandHandling --------------------------
(* Small instances of CommandHandling for TLC. *)
EXTENDS CommandHandling

CONSTANTS NoCheck, NoStream, SomeStream, Nothing

\* What callers expect: nothing, no check, or one message.
AnyExpectation == {Nothing, NoCheck, 1}
=============================================================================
